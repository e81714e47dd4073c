---- MODULE RootFs ----
(***************************************************************************)
(* The root file system, the file systems mounted on it and the flushing   *)
(* of their caches: src/libos/src/fs/rootfs.rs, fs/fs_ops/mount.rs, the    *)
(* end of a process in entry.rs and the host files of host_file_util.rs.   *)
(*                                                                         *)
(* The LibOS boots on the root of the application "init"; the system call  *)
(* mount_rootfs replaces it, once, by that of the user's application.      *)
(* Programs mount and unmount file systems at run time.  An SEFS keeps     *)
(* what is written in a cache until it is synced; SEFS_MANAGER holds weak  *)
(* references to the SEFSes so that the end of a process can sync them.    *)
(*                                                                         *)
(* SEFS, UnionFS, MountFS and Ext2 are libraries: a file system is a       *)
(* record with the directory of the host that holds it, the writes in its  *)
(* cache, and the key it was opened with.  A write is named by its thread  *)
(* and its position in the thread's script.                                *)
(***************************************************************************)
EXTENDS Naturals, Sequences, FiniteSets, SequencesExt

CONSTANTS RfThreads,     \* threads that make file system calls
          Scenarios,     \* set of [init, app, disk, scripts]: the mounts of
                         \* the two applications, the host's directories and
                         \* the calls of each thread
          SyncFaults     \* how often a sync may fail

VARIABLES scenario, fs, roots, ROOT_FS, MOUNT_ONCE, entry_points, manager,
          disk, hostStrings, rfpc, rfLocal, rfScript, result, late, syncFaults

rfVars == <<scenario, fs, roots, ROOT_FS, MOUNT_ONCE, entry_points, manager, disk,
            hostStrings, rfpc, rfLocal, rfScript, result, late, syncFaults>>

HostFiles == <<"resolv.conf", "hostname", "hosts">>

\* The disk side of a file system: a directory of the host.
Formatted(d, s) == s \in DOMAIN d /\ d[s].formatted

\* The mount configurations an application lists for a place other than "/".
NonRoot(config) == SelectSeq(config, LAMBDA mc : mc.target # "/")
IsExt2(mc) == mc.type = "ext2"

\* What an operation on the file systems works on and returns.  w is
\* [fs, manager, disk]; `at` is the file system opened, 0 when it fails.
Failed(w) == [w |-> w, at |-> 0]
Opened(w, kind, source, layers) ==
  [w |-> [w EXCEPT !.fs = Append(@, [kind |-> kind, source |-> source, layers |-> layers, cache |-> {}])],
   at |-> Len(w.fs) + 1]

\* SEFS::create empties the directory and writes fresh metadata; SEFS::open
\* needs metadata encrypted with the same key and, for an image, with the
\* MAC the configuration expects.
CreateSefs(w, mc, key) ==
  Opened([w EXCEPT !.disk = [@ EXCEPT ![mc.source] = [formatted |-> TRUE, key |-> key, mac |-> "none", data |-> {}]]],
         "sefs", mc.source, <<>>)
OpenSefs(w, mc, key) ==
  IF /\ Formatted(w.disk, mc.source) /\ w.disk[mc.source].key = key
     /\ mc.mac = "none" \/ w.disk[mc.source].mac = mc.mac
  THEN Opened(w, "sefs", mc.source, <<>>)
  ELSE Failed(w)

\* GlobalSefsManager::add.
ManagerAdd(r) == IF r.at = 0 THEN r ELSE [r EXCEPT !.w.manager = @ \cup {r.at}]

open_or_create_sefs(w, mc, key) ==
  IF mc.source = "none" \/ (mc.temporary /\ mc.mac # "none") THEN Failed(w)
  ELSE ManagerAdd(IF ~mc.temporary /\ (mc.mac # "none" \/ Formatted(w.disk, mc.source))
                  THEN OpenSefs(w, mc, key)
                  ELSE CreateSefs(w, mc, key))

\* A UnionFS of two SEFSes: the image is opened first, then the container,
\* which takes the writes.  The SEFS opened first stays open, unreferenced,
\* when the second fails.
OpenUnion(w, image, container, key) ==
  LET i == open_or_create_sefs(w, image, key)
      c == open_or_create_sefs(i.w, container, key)
  IN IF i.at = 0 THEN i
     ELSE IF c.at = 0 THEN c
     ELSE Opened(c.w, "union", "none", <<c.at, i.at>>)

ImageLayer(mc) == mc.target = "/" /\ mc.type = "sefs" /\ (mc.mac # "none" \/ mc.index = 1)
ContainerLayer(mc) == mc.target = "/" /\ mc.type = "sefs" /\ mc.mac = "none" /\ mc.index = 0
FirstSuch(s, Such(_)) == SelectInSeq(s, Such)

open_root_fs_according_to(w, config, key) ==
  LET r == FirstSuch(config, LAMBDA mc : mc.target = "/" /\ mc.type = "union") IN
  IF r = 0 THEN Failed(w)
  ELSE LET layers == config[r].layers
           i == FirstSuch(layers, ImageLayer)
           c == FirstSuch(layers, ContainerLayer)
       IN IF i = 0 THEN Failed(w)
          ELSE IF c = 0 THEN Failed(open_or_create_sefs(w, layers[i], key).w)
          ELSE OpenUnion(w, layers[i], layers[c], key)

\* The file system of one entry of the configuration.  A DevFS serves the
\* disk when an Ext2 is configured; an Ext2 that finds no file system on the
\* disk formats it with mke2fs and opens it again.
OpenOne(w, mc, key) ==
  CASE mc.type = "sefs" -> open_or_create_sefs(w, mc, key)
    [] mc.type = "hostfs" -> IF mc.source = "none" THEN Failed(w) ELSE Opened(w, "hostfs", mc.source, <<>>)
    [] mc.type \in {"ramfs", "devfs", "procfs"} -> Opened(w, mc.type, "none", <<>>)
    [] mc.type = "union" -> IF Len(mc.layers) < 2 \/ \E i \in 1..2 : mc.layers[i].type # "sefs"
                            THEN Failed(w)
                            ELSE OpenUnion(w, mc.layers[1], mc.layers[2], key)
    [] mc.type = "ext2" -> Opened([w EXCEPT !.disk = [@ EXCEPT !["disk"].formatted = TRUE]], "ext2", "disk", <<>>)

\* The order of the mounts: the Ext2 waits until the DevFS is there.
MountOrder(config) ==
  SelectSeq(NonRoot(config), LAMBDA mc : ~IsExt2(mc))
    \o SelectSeq(config, LAMBDA mc : IsExt2(mc) /\ mc = config[FirstSuch(config, IsExt2)])
\* setup_disk_meta_for_ext2 refuses an Ext2 without a size.
DiskMetaOk(config) == \A i \in DOMAIN config : IsExt2(config[i]) => config[i].size

----
(* Reachability: which file systems a root, or a thread, keeps alive.      *)

\* The writes at a place go to the file system mounted there last, and in a
\* union to the container layer.
Place(r, target) == IF target = "/" \/ roots[r].mounts[target] = <<>>
                    THEN roots[r].union ELSE Last(roots[r].mounts[target])
WriteLayer(i) == IF fs[i].kind = "union" THEN fs[i].layers[1] ELSE i
WithLayers(S) == S \cup UNION {Range(fs[i].layers) : i \in S}
InRoot(r) == WithLayers({roots[r].union} \cup UNION {Range(roots[r].mounts[t]) : t \in DOMAIN roots[r].mounts})
Held(t) == (IF rfLocal[t].root = 0 THEN {} ELSE InRoot(rfLocal[t].root))
             \cup (IF rfLocal[t].inode = 0 THEN {} ELSE {rfLocal[t].inode})
Alive == InRoot(ROOT_FS) \cup UNION {Held(t) : t \in RfThreads}

\* FileSystem::sync of the file systems S moves their caches to the host.
Persistent(i) == fs[i].kind \in {"sefs", "ext2"}
SyncedFs(S) == [i \in DOMAIN fs |-> IF i \in S THEN [fs[i] EXCEPT !.cache = {}] ELSE fs[i]]
SyncedDisk(S) == [s \in DOMAIN disk |->
  [disk[s] EXCEPT !.data = @ \cup UNION {fs[i].cache : i \in {j \in S : Persistent(j) /\ fs[j].source = s}}]]
Sync(S) == fs' = SyncedFs(S) /\ disk' = SyncedDisk(S)

\* GlobalSefsManager::sync_all stops at the first sync that fails.
Upgradable == manager \cap Alive
Fault == syncFaults < SyncFaults /\ syncFaults' = syncFaults + 1
SyncFails == Upgradable # {} /\ Fault

----
(* The calls.                                                              *)

NoLocal == [root |-> 0, inode |-> 0, todo |-> <<>>, key |-> "none"]
Idle(t) == rfpc[t] = "idle" /\ rfScript[t] # <<>>
Call(t) == Head(rfScript[t])
Work == [fs |-> fs, manager |-> manager, disk |-> disk]
SetWork(w) == fs' = w.fs /\ manager' = w.manager /\ disk' = w.disk

Return(t, r) ==
  /\ result' = [result EXCEPT ![t] = Append(@, <<Call(t).op, r>>)]
  /\ rfScript' = [rfScript EXCEPT ![t] = Tail(@)]
  /\ rfpc' = [rfpc EXCEPT ![t] = "idle"]
  /\ rfLocal' = [rfLocal EXCEPT ![t] = NoLocal]
Goto(t, l, local) ==
  /\ rfpc' = [rfpc EXCEPT ![t] = l]
  /\ rfLocal' = [rfLocal EXCEPT ![t] = local]
  /\ UNCHANGED <<rfScript, result>>

\* do_mount_rootfs: refused once the root has been replaced.
RootBegin(t) ==
  /\ Idle(t) /\ Call(t).op = "mount_rootfs"
  /\ IF MOUNT_ONCE
     THEN Return(t, "EPERM") /\ UNCHANGED manager
     ELSE /\ manager' = {}
          /\ Goto(t, "open_root", [NoLocal EXCEPT !.key = Call(t).key])
  /\ UNCHANGED <<scenario, fs, roots, ROOT_FS, MOUNT_ONCE, entry_points, disk, hostStrings, late, syncFaults>>

\* The new root is opened before anything is replaced.
RootOpen(t) ==
  /\ rfpc[t] = "open_root"
  /\ \E r \in {open_root_fs_according_to(Work, scenario.app, rfLocal[t].key)} :
       /\ SetWork(r.w)
       /\ IF r.at = 0
          THEN Return(t, "err") /\ UNCHANGED roots
          ELSE /\ roots' = Append(roots, [union |-> r.at,
                                          mounts |-> [d \in DOMAIN roots[1].mounts |-> <<>>], hostFiles |-> {}])
               /\ Goto(t, "swap", [rfLocal[t] EXCEPT !.root = Len(roots) + 1,
                                                     !.todo = MountOrder(scenario.app)])
  /\ UNCHANGED <<scenario, ROOT_FS, MOUNT_ONCE, entry_points, hostStrings, late, syncFaults>>

\* MOUNT_ONCE.call_once: the first caller syncs the old root and puts the
\* new one in its place; a caller that comes second skips the closure.
DropOldRoot == UNCHANGED <<fs, disk>>
SyncOldRoot == Sync(InRoot(ROOT_FS))
ReplaceRoot(t) ==
  /\ SyncOldRoot
  /\ ROOT_FS' = rfLocal[t].root
  /\ entry_points' = "app"
  /\ MOUNT_ONCE' = TRUE
RootSwap(t) ==
  /\ rfpc[t] = "swap"
  /\ IF MOUNT_ONCE THEN UNCHANGED <<fs, disk, ROOT_FS, entry_points, MOUNT_ONCE>> ELSE ReplaceRoot(t)
  /\ IF DiskMetaOk(scenario.app) THEN Goto(t, "mounting", rfLocal[t]) ELSE Return(t, "err")
  /\ UNCHANGED <<scenario, roots, manager, hostStrings, late, syncFaults>>

\* "failed to sync old rootfs": the LibOS panics, and no thread goes on.
RootPanic(t) ==
  /\ rfpc[t] = "swap" /\ ~MOUNT_ONCE /\ Fault
  /\ rfpc' = [u \in RfThreads |-> "panicked"]
  /\ UNCHANGED <<scenario, fs, roots, ROOT_FS, MOUNT_ONCE, entry_points, manager, disk, hostStrings, rfLocal,
                 rfScript, result, late>>

\* do_mount: the SEFSes are synced under the lock of the root, which is
\* released before anything is mounted.  An Ext2 asked for at run time has
\* no size and is refused.
MountFlagsOk(c) == ~c.remount
\* The options of mount(2): a directory for an SEFS or a HostFS, a lower and
\* an upper one for a UnionFS; a key has to parse.
SefsOptionsOk(c) == c.mc.source # "none" /\ c.key # "malformed"
UnionOptionsOk(c) == Len(c.mc.layers) = 2 /\ (\A i \in 1..2 : c.mc.layers[i].source # "none") /\ c.key # "malformed"
from_fs_type_and_options(c) ==
  CASE c.mc.type = "sefs" -> SefsOptionsOk(c)
    [] c.mc.type = "union" -> UnionOptionsOk(c)
    [] c.mc.type = "hostfs" -> c.mc.source # "none"
    [] c.mc.type \in {"ramfs", "ext2"} -> TRUE
    [] OTHER -> FALSE
do_mount(t) ==
  /\ Idle(t) /\ Call(t).op = "mount"
  /\ LET c == Call(t) IN
     IF ~from_fs_type_and_options(c) \/ c.mc.target = "/" \/ ~MountFlagsOk(c)
     THEN Return(t, "err") /\ UNCHANGED <<fs, disk, syncFaults>>
     ELSE \/ SyncFails /\ Return(t, "err") /\ UNCHANGED <<fs, disk>>
          \/ /\ Sync(Upgradable) /\ UNCHANGED syncFaults
             /\ IF DiskMetaOk(<<c.mc>>)
                THEN Goto(t, "mounting", [NoLocal EXCEPT !.root = ROOT_FS, !.todo = <<c.mc>>, !.key = c.key])
                ELSE Return(t, "err")
  /\ UNCHANGED <<scenario, roots, ROOT_FS, MOUNT_ONCE, entry_points, manager, hostStrings, late>>

\* mount_nonroot_fs_according_to, one entry at a time; what is mounted
\* before an entry that fails stays mounted.
MountOne(t) ==
  /\ rfpc[t] = "mounting" /\ rfLocal[t].todo # <<>>
  /\ LET mc == Head(rfLocal[t].todo)
         r == rfLocal[t].root
     IN \E o \in {OpenOne(Work, mc, rfLocal[t].key)} :
          /\ SetWork(o.w)
          /\ IF o.at = 0 \/ mc.target \notin DOMAIN roots[r].mounts
             THEN Return(t, "err") /\ UNCHANGED roots
             ELSE /\ roots' = [roots EXCEPT ![r].mounts[mc.target] = Append(@, o.at)]
                  /\ Goto(t, "mounting", [rfLocal[t] EXCEPT !.todo = Tail(@)])
  /\ UNCHANGED <<scenario, ROOT_FS, MOUNT_ONCE, entry_points, hostStrings, late, syncFaults>>

MountDone(t) ==
  /\ rfpc[t] = "mounting" /\ rfLocal[t].todo = <<>>
  /\ IF Call(t).op = "mount_rootfs"
     THEN Goto(t, "host_files", [rfLocal[t] EXCEPT !.todo = HostFiles])
     ELSE Return(t, "ok")
  /\ UNCHANGED <<scenario, fs, roots, ROOT_FS, MOUNT_ONCE, entry_points, manager, disk, hostStrings, late, syncFaults>>

\* write_host_file writes through ROOT_FS, then the saved text is dropped.
WriteHostFile(t) ==
  /\ rfpc[t] = "host_files"
  /\ IF rfLocal[t].todo = <<>>
     THEN Return(t, "ok") /\ UNCHANGED <<roots, hostStrings>>
     ELSE LET f == Head(rfLocal[t].todo) IN
          /\ roots' = IF f \in hostStrings THEN [roots EXCEPT ![ROOT_FS].hostFiles = @ \cup {f}] ELSE roots
          /\ hostStrings' = hostStrings \ {f}
          /\ Goto(t, "host_files", [rfLocal[t] EXCEPT !.todo = Tail(@)])
  /\ UNCHANGED <<scenario, fs, ROOT_FS, MOUNT_ONCE, entry_points, manager, disk, late, syncFaults>>

\* do_umount, all of it under the lock of the root: the SEFSes are synced,
\* MNode::umount syncs the file system again and takes it off, and the
\* references to SEFSes that are gone leave the manager.
do_umount(t) ==
  /\ Idle(t) /\ Call(t).op = "umount"
  /\ LET m == IF Call(t).target = "/" THEN <<>> ELSE roots[ROOT_FS].mounts[Call(t).target] IN
     \/ /\ Call(t).target # "/" /\ SyncFails
        /\ Return(t, "err") /\ UNCHANGED <<fs, disk, roots, manager>>
     \/ /\ m = <<>>
        /\ IF Call(t).target = "/" THEN UNCHANGED <<fs, disk>> ELSE Sync(Upgradable)
        /\ Return(t, "err") /\ UNCHANGED <<roots, manager, syncFaults>>
     \/ /\ m # <<>>
        /\ Sync(Upgradable \cup WithLayers({Last(m)}))
        /\ roots' = [roots EXCEPT ![ROOT_FS].mounts[Call(t).target] = Front(@)]
        /\ manager' = manager \cap ((InRoot(ROOT_FS) \ WithLayers({Last(m)})) \cup UNION {Held(u) : u \in RfThreads})
        /\ Return(t, "ok") /\ UNCHANGED syncFaults
  /\ UNCHANGED <<scenario, ROOT_FS, MOUNT_ONCE, entry_points, hostStrings, late>>

\* A program writes a file: it is looked up through ROOT_FS, then written.
WriteLookup(t) ==
  /\ Idle(t) /\ Call(t).op = "write"
  /\ Goto(t, "write", [NoLocal EXCEPT !.inode = WriteLayer(Place(ROOT_FS, Call(t).target))])
  /\ UNCHANGED <<scenario, fs, roots, ROOT_FS, MOUNT_ONCE, entry_points, manager, disk, hostStrings, late, syncFaults>>
WriteData(t) ==
  /\ rfpc[t] = "write"
  /\ LET i == rfLocal[t].inode
         w == <<t, Len(rfScript[t])>>
     IN /\ fs' = [fs EXCEPT ![i].cache = @ \cup {w}]
        /\ late' = IF i \in InRoot(ROOT_FS) THEN late ELSE late \cup {w}
  /\ Return(t, "ok")
  /\ UNCHANGED <<scenario, roots, ROOT_FS, MOUNT_ONCE, entry_points, manager, disk, hostStrings, syncFaults>>

\* The system call sync.
do_sync(t) ==
  /\ Idle(t) /\ Call(t).op = "sync"
  /\ \/ Fault /\ Return(t, "err") /\ UNCHANGED <<fs, disk>>
     \/ Sync(InRoot(ROOT_FS)) /\ Return(t, "ok") /\ UNCHANGED syncFaults
  /\ UNCHANGED <<scenario, roots, ROOT_FS, MOUNT_ONCE, entry_points, manager, hostStrings, late>>

\* The end of do_exec_thread: the process is over, the SEFSes that are still
\* alive are synced.
UpdateThenSync == manager' = Upgradable /\ Sync(Upgradable)
do_exec_thread(t) ==
  /\ Idle(t) /\ Call(t).op = "exit"
  /\ \/ SyncFails /\ manager' = Upgradable /\ Return(t, "err") /\ UNCHANGED <<fs, disk>>
     \/ UpdateThenSync /\ Return(t, "ok") /\ UNCHANGED syncFaults
  /\ UNCHANGED <<scenario, roots, ROOT_FS, MOUNT_ONCE, entry_points, hostStrings, late>>

\* A script may wait until another thread has finished its own.
Await(t) ==
  /\ Idle(t) /\ Call(t).op = "await"
  /\ Len(rfScript[Call(t).thread]) <= Call(t).left /\ rfpc[Call(t).thread] = "idle"
  /\ Return(t, "ok")
  /\ UNCHANGED <<scenario, fs, roots, ROOT_FS, MOUNT_ONCE, entry_points, manager, disk, hostStrings, late, syncFaults>>

----
\* init_root_fs: the boot of the LibOS, which panics when the root of "init"
\* cannot be opened or one of its file systems cannot be mounted.
MountAll(w, dirs, todo) ==
  FoldLeft(LAMBDA b, mc : LET o == OpenOne(b.w, mc, "none") IN
                            [w |-> o.w, mounts |-> [b.mounts EXCEPT ![mc.target] = Append(@, o.at)]],
           [w |-> w, mounts |-> [d \in dirs |-> <<>>]], todo)
init_root_fs(s) ==
  LET r == open_root_fs_according_to([fs |-> <<>>, manager |-> {}, disk |-> s.disk], s.init, "none")
      m == MountAll(r.w, s.dirs, MountOrder(s.init))
  IN [w |-> m.w, root |-> [union |-> r.at, mounts |-> m.mounts, hostFiles |-> {}]]

RfInit ==
  /\ scenario \in Scenarios
  /\ \E b \in {init_root_fs(scenario)} :
       /\ b.root.union # 0 /\ \A d \in scenario.dirs : 0 \notin Range(b.root.mounts[d])
       /\ fs = b.w.fs /\ manager = b.w.manager /\ disk = b.w.disk
       /\ roots = <<b.root>>
  /\ ROOT_FS = 1 /\ MOUNT_ONCE = FALSE /\ entry_points = "init"
  /\ hostStrings = Range(HostFiles)
  /\ rfpc = [t \in RfThreads |-> "idle"]
  /\ rfLocal = [t \in RfThreads |-> NoLocal]
  /\ rfScript = scenario.scripts
  /\ result = [t \in RfThreads |-> <<>>]
  /\ late = {} /\ syncFaults = 0

RfNext == \E t \in RfThreads :
  \/ RootBegin(t) \/ RootOpen(t) \/ RootSwap(t) \/ RootPanic(t) \/ MountOne(t) \/ MountDone(t)
  \/ WriteHostFile(t) \/ do_mount(t) \/ do_umount(t) \/ WriteLookup(t) \/ WriteData(t)
  \/ do_sync(t) \/ do_exec_thread(t) \/ Await(t)

----
\* SEFS_MANAGER knows every SEFS reachable from the root, except between a
\* mount_rootfs that empties it and the one that replaces the root.
Emptied == \E t \in RfThreads : rfpc[t] \in {"open_root", "swap", "panicked"} \/ <<"mount_rootfs", "err">> \in Range(result[t])
ManagerComplete ==
  MOUNT_ONCE \/ ~Emptied =>
    \A i \in InRoot(ROOT_FS) : fs[i].kind = "sefs" => i \in manager

\* What was written to a file system while it was mounted has reached the
\* host when the file system is no longer part of the root, whether it was
\* unmounted or belonged to the root that mount_rootfs replaced.
NothingStranded ==
  \A i \in DOMAIN fs : i \notin InRoot(ROOT_FS) => fs[i].cache \subseteq late

\* When do_exec_thread has returned the status of a process, what the
\* process wrote to an SEFS that is still mounted is on the host.
ExitFlushes ==
  \A t \in RfThreads : rfScript[t] = <<>> /\ result[t] # <<>> /\ Last(result[t]) = <<"exit", "ok">> =>
    \A i \in InRoot(ROOT_FS) : fs[i].kind = "sefs" => \A w \in fs[i].cache : w[1] # t

\* A mount_rootfs that reports success has installed its root: the entry
\* points are the application's, the host files are there, every configured
\* place is mounted unless it was unmounted since, and no other call has
\* succeeded.
Succeeded == {t \in RfThreads : <<"mount_rootfs", "ok">> \in Range(result[t])}
Unmounts == \E t \in RfThreads : <<"umount", "ok">> \in Range(result[t])
RootInstalled ==
  Succeeded # {} =>
    /\ Cardinality(Succeeded) = 1 /\ MOUNT_ONCE /\ entry_points = "app"
    /\ roots[ROOT_FS].hostFiles = Range(HostFiles)
    /\ Unmounts \/ \A i \in DOMAIN NonRoot(scenario.app) :
                     roots[ROOT_FS].mounts[NonRoot(scenario.app)[i].target] # <<>>

\* The root file system is replaced as a whole and loses no data.
RootFsExact == ManagerComplete /\ NothingStranded /\ ExitFlushes /\ RootInstalled

----
(***************************************************************************)
(* The files under an SEFS: src/libos/src/fs/sefs/sgx_storage.rs.          *)
(*                                                                         *)
(* SEFS keeps every inode in a protected file of the SGX SDK.  Such a file *)
(* cannot be sought past its end and cannot be cut, so write_at pads the   *)
(* gap with null bytes and set_len overwrites the tail with null bytes;    *)
(* the true length is in the inode.  Open files are cached by name: every  *)
(* opener gets the same SgxFile.                                           *)
(*                                                                         *)
(* Bytes are small numbers, 0 the null byte.  SEFS is a library, modelled  *)
(* by what it asks of the storage: `size` is the length in its inode and   *)
(* `meant` the content its user should see.                                *)
(***************************************************************************)
CONSTANTS FileIds, Bytes, MaxLen, Keys, Macs, MaxStorageOps, CacheSizes, DefaultCache

VARIABLES hostFiles, fileCache, mode, size, meant, lastRead, ops
sgVars == <<hostFiles, fileCache, mode, size, meant, lastRead, ops>>

None == "none"
Zeros(n) == [i \in 1..n |-> 0]

\* SgxStorage::check_cache_size, in pages.
check_cache_size(c) == c = 0 \/ c >= DefaultCache
\* EncryptMode::new and protect_integrity.
EncryptMode(key, mac) ==
  CASE key # None /\ mac # None -> "EncryptWithIntegrity"
    [] key # None /\ mac = None -> "Encrypt"
    [] key = None /\ mac # None -> "IntegrityOnly"
    [] OTHER -> "EncryptAutoKey"
protect_integrity == mode.type \in {"IntegrityOnly", "EncryptWithIntegrity"}

\* SgxStorage::new.
SgInit ==
  /\ \E k \in Keys \cup {None}, m \in Macs \cup {None}, c \in CacheSizes :
       mode = IF check_cache_size(c) THEN [type |-> EncryptMode(k, m), key |-> k, mac |-> m]
              ELSE [type |-> "refused", key |-> k, mac |-> m]
  \* "metadata" was written with some key when the storage was made.
  /\ \E k \in Keys \cup {None}, m \in Macs :
       hostFiles = [f \in {"metadata"} |-> [key |-> k, mac |-> m, data |-> <<>>]]
  /\ fileCache = {} /\ ops = 0 /\ lastRead = <<>>
  /\ size = [f \in FileIds |-> 0]
  /\ meant = [f \in FileIds |-> <<>>]

Usable == mode.type # "refused" /\ ops < MaxStorageOps /\ ops' = ops + 1
Fetch(f) == f \in fileCache

\* SgxStorage::open: the cached file, or the host's, which must have been
\* written with the same key; the MAC of "metadata" is compared.
MacMatches(f) == f = "metadata" /\ protect_integrity => hostFiles[f].mac = mode.mac
open(f) ==
  /\ Usable
  /\ \/ Fetch(f) /\ UNCHANGED fileCache
     \/ /\ ~Fetch(f)
        /\ f \in DOMAIN hostFiles /\ hostFiles[f].key = mode.key /\ MacMatches(f)
        /\ fileCache' = fileCache \cup {f}
  /\ UNCHANGED <<hostFiles, mode, size, meant, lastRead>>

\* SgxStorage::create; SEFS creates a file under a fresh name, which may be
\* that of a file removed before.
create(f) ==
  /\ Usable /\ f \notin DOMAIN hostFiles
  /\ hostFiles' = [g \in DOMAIN hostFiles \cup {f} |->
                     IF g = f THEN [key |-> mode.key, mac |-> None, data |-> <<>>] ELSE hostFiles[g]]
  /\ fileCache' = fileCache \cup {f}
  /\ size' = [size EXCEPT ![f] = 0] /\ meant' = [meant EXCEPT ![f] = <<>>]
  /\ UNCHANGED <<mode, lastRead>>

\* SgxStorage::remove and clear.
Evicted(f) == fileCache \ {f}
remove(f) ==
  /\ Usable /\ f \in DOMAIN hostFiles
  /\ hostFiles' = [g \in DOMAIN hostFiles \ {f} |-> hostFiles[g]]
  /\ fileCache' = Evicted(f)
  /\ UNCHANGED <<mode, size, meant, lastRead>>
clear ==
  /\ Usable /\ DOMAIN hostFiles # {}
  /\ hostFiles' = [g \in {} |-> hostFiles[g]]
  /\ fileCache' = {}
  /\ UNCHANGED <<mode, size, meant, lastRead>>

\* LockedFile::write_at: the gap up to the offset is filled with null bytes.
Padded(data, offset) == IF Len(data) < offset THEN data \o Zeros(offset - Len(data)) ELSE data
Overlaid(data, offset, buf) ==
  [i \in 1..(IF Len(data) > offset + Len(buf) THEN Len(data) ELSE offset + Len(buf)) |->
     IF i > offset /\ i <= offset + Len(buf) THEN buf[i - offset] ELSE data[i]]
WriteAt(data, offset, buf) == IF buf = <<>> THEN data ELSE Overlaid(Padded(data, offset), offset, buf)
write_at(f, offset, buf) ==
  /\ Usable /\ Fetch(f) /\ f \in DOMAIN hostFiles /\ offset + Len(buf) <= MaxLen
  /\ hostFiles' = [hostFiles EXCEPT ![f].data = WriteAt(@, offset, buf)]
  /\ LET n == IF buf = <<>> \/ size[f] > offset + Len(buf) THEN size[f] ELSE offset + Len(buf) IN
     /\ size' = [size EXCEPT ![f] = n]
     /\ meant' = [meant EXCEPT ![f] = [i \in 1..n |->
                    IF i > offset /\ i <= offset + Len(buf) THEN buf[i - offset]
                    ELSE IF i <= Len(@) THEN @[i] ELSE 0]]
  /\ UNCHANGED <<fileCache, mode, lastRead>>

\* LockedFile::set_len: grows with null bytes, and shrinks by overwriting
\* the bytes from the new length on.
GrowOnly(data, len) == IF len > Len(data) THEN data \o Zeros(len - Len(data)) ELSE data
SetLen(data, len) ==
  IF len > Len(data) THEN data \o Zeros(len - Len(data))
  ELSE [i \in DOMAIN data |-> IF i > len THEN 0 ELSE data[i]]
set_len(f, len) ==
  /\ Usable /\ Fetch(f) /\ f \in DOMAIN hostFiles
  /\ hostFiles' = [hostFiles EXCEPT ![f].data = SetLen(@, len)]
  /\ size' = [size EXCEPT ![f] = len]
  /\ meant' = [meant EXCEPT ![f] = [i \in 1..len |-> IF i <= Len(@) THEN @[i] ELSE 0]]
  /\ UNCHANGED <<fileCache, mode, lastRead>>

\* LockedFile::read_at: nothing at or past the end of the protected file.
ReadAt(data, offset, len) ==
  IF len = 0 \/ Len(data) < offset THEN <<>>
  ELSE SubSeq(data, offset + 1, IF offset + len < Len(data) THEN offset + len ELSE Len(data))
\* SEFS reads no further than the length of its inode and takes the rest as
\* what the storage returned.
read_at(f, offset, len) ==
  /\ Usable /\ Fetch(f) /\ f \in DOMAIN hostFiles /\ offset + len <= size[f]
  /\ lastRead' = <<f, offset, ReadAt(hostFiles[f].data, offset, len), SubSeq(meant[f], offset + 1, offset + len)>>
  /\ UNCHANGED <<hostFiles, fileCache, mode, size, meant>>

Buffers == {<<>>} \cup {<<b>> : b \in Bytes} \cup {<<b, b>> : b \in Bytes}
SgNext ==
  \/ \E f \in FileIds : open(f) \/ create(f) \/ remove(f)
  \/ clear
  \/ \E f \in FileIds, n \in 0..MaxLen : \E buf \in Buffers : write_at(f, n, buf)
  \/ \E f \in FileIds, n \in 0..MaxLen : set_len(f, n)
  \/ \E f \in FileIds, n \in 0..MaxLen, k \in 0..MaxLen : read_at(f, n, k)

----
\* The storage gives back what was written, and null bytes where a file was
\* cut or skipped over, whatever the order of writes and changes of length:
\* the bytes within the length agree with the inode's content and those past
\* it are null, so that growing the file again shows no old byte.
ContentExact ==
  /\ \A f \in DOMAIN hostFiles :
       LET data == hostFiles[f].data IN
       /\ Len(data) >= size[f]
       /\ \A i \in DOMAIN data : data[i] = IF i <= size[f] THEN meant[f][i] ELSE 0
  /\ lastRead # <<>> => lastRead[3] = lastRead[4]

\* A cached file is one that exists, was made with the storage's key and, for
\* the root of an integrity-protected storage that was not made here, has the
\* expected MAC.
CacheExact ==
  \A f \in fileCache : /\ f \in DOMAIN hostFiles /\ hostFiles[f].key = mode.key
                       /\ f = "metadata" /\ protect_integrity => hostFiles[f].mac \in {mode.mac, None}

StorageExact == ContentExact /\ CacheExact
====
