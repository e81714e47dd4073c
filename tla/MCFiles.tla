------------------------------ MODULE MCFiles ------------------------------
(***************************************************************************)
(* Files, for TLC: the file table of a process, the record locks and the   *)
(* flock locks of an inode, its open files, the standard files, the        *)
(* mounted file systems, the paths through them and the storage under      *)
(* them.  They share no state, so comp picks the one whose steps a         *)
(* behaviour takes; the others stay in their initial state, and a          *)
(* component's properties are checked on the behaviours that take its      *)
(* steps.                                                                  *)
(***************************************************************************)
EXTENDS Integers, Sequences, FiniteSets, TLC, FileTable

VARIABLES comp,
    list, held, asks, lwoken,
    flocks, strong, listLock, kpc, kidx, kcalls, kwoken,
    content, offset, always_append, mutex, icalls, at, consumed, appended, damaged,
    line, output, failed, unread, typed, stdMutex, refs, stdCalls, bufNo, accepted, given, short,
    scenario, fs, roots, ROOT_FS, MOUNT_ONCE, entry_points, manager, disk, hostStrings, rfpc, rfLocal,
    rfScript, result, late, syncFaults,
    inodes, cwd, fdPath, fppc, fpScript, fpLocal, returned, looped,
    hostFiles, fileCache, mode, size, meant, lastRead, ops

(***************************************************************************)
(* Two threads that open, duplicate and close descriptors; one of them     *)
(* also spawns and executes, or vforks.                                    *)
(***************************************************************************)
Open(f, cos) == [call |-> "open", file |-> f, cos |-> cos]
Pipe(f, cos) == [call |-> "pipe", file |-> f, cos |-> cos]
Dup(fd) == [call |-> "dup", fd |-> fd]
Dup2(fd, new, cos) == [call |-> "dup2", fd |-> fd, new |-> new, cos |-> cos]
DupFd(fd, min, cos) == [call |-> "dupfd", fd |-> fd, min |-> min, cos |-> cos]
SetFd(fd, cos) == [call |-> "setfd", fd |-> fd, cos |-> cos]
Close(fd) == [call |-> "close", fd |-> fd]
Simple(op) == [call |-> op]
Spawn(f) == [call |-> "spawn", actions |-> <<[action |-> "dup2", old |-> 1, new |-> 4],
                                           [action |-> "open", fd |-> 1, file |-> f, cos |-> FALSE],
                                           [action |-> "close", fd |-> 0]>>]
TablePrograms == {
    "t1" :> <<Open("f", TRUE), DupFd(0, 4, TRUE), Spawn("g"), Dup(2), Dup2(2, 3, FALSE), Close(2),
              Simple("exec"), Simple("exit")>> @@
    "t2" :> <<Close(1), Pipe("p", FALSE), Dup2(0, 5, TRUE), Open("g", FALSE), Dup(9), SetFd(2, FALSE)>>,
    "t1" :> <<Close(0), Simple("vfork"), Open("f", FALSE), Dup2(0, 5, TRUE), Close(1), Simple("vexec"),
              Open("g", TRUE), Simple("vfork"), Dup(1), Simple("vreturn"), Pipe("p", TRUE)>> @@
    "t2" :> <<Dup(1), Spawn(NoFile), DupFd(1, 3, FALSE), Dup2(1, 6, FALSE), Dup2(1, 1, FALSE)>>}

(***************************************************************************)
(* Two threads of one process and one of another, locking a file of three  *)
(* bytes.                                                                  *)
(***************************************************************************)
FileEnd == 3
Record(t, s, e) == [type |-> t, start |-> s, end |-> e]
Asked ==
    {Record("F_WRLCK", r[1], r[2]) : r \in {<<0, 1>>, <<1, 2>>, <<0, 2>>, <<1, 3>>}} \cup
    {Record("F_RDLCK", r[1], r[2]) : r \in {<<0, 2>>, <<2, 3>>, <<0, 3>>}} \cup
    {Record("F_UNLCK", r[1], r[2]) : r \in {<<0, 1>>, <<1, 2>>, <<0, 3>>}}
Waited == {Record("F_WRLCK", 1, 2), Record("F_RDLCK", 0, FileEnd)}

\* Three threads with three opens of a file, one of them without waiting.
KLock(f, t, nb) == [op |-> "lock", file |-> f, type |-> t, nonblocking |-> nb]
KUnlock(f) == [op |-> "unlock", file |-> f]
KClose(f) == [op |-> "close", file |-> f]
Three(a, b, c) == "t1" :> a @@ "t2" :> b @@ "t3" :> c
FlockPrograms == {
    Three(<<KLock("f", "EX", FALSE), KLock("f", "SH", FALSE), KUnlock("f")>>,
          <<KLock("g", "SH", FALSE), KLock("g", "EX", FALSE), KClose("g")>>,
          <<KLock("h", "EX", TRUE), KUnlock("g"), KClose("f"), KUnlock("f")>>),
    Three(<<KLock("f", "SH", FALSE), KClose("f")>>, <<KLock("g", "SH", FALSE), KClose("g")>>,
          <<KLock("h", "EX", FALSE), KUnlock("h")>>)}

\* Three threads that share an open file for reading and writing (o), one for reading (r) and
\* one for writing (w).
W(o, n) == [op |-> "write", file |-> o, bufs |-> n]
R(o, n) == [op |-> "read", file |-> o, bufs |-> n]
PW(o, pos, n) == [op |-> "pwrite", file |-> o, pos |-> pos, bufs |-> n]
PR(o, pos, n) == [op |-> "pread", file |-> o, pos |-> pos, bufs |-> n]
Seek(o, whence, pos) == [op |-> "seek", file |-> o, whence |-> whence, pos |-> pos]
SetLen(o, pos) == [op |-> "set_len", file |-> o, pos |-> pos]
SetAppend(o, on) == [op |-> "append", file |-> o, on |-> on]
OpenFilePrograms == {
    Three(<<W("o", 2), R("o", 1), W("r", 1)>>,
          <<W("o", 2), Seek("o", "start", 0), R("o", 2)>>,
          <<PW("o", 1, 2), W("w", 1), R("w", 1), SetLen("w", 1)>>),
    Three(<<R("r", 2), Seek("r", "current", -1), R("r", 1)>>,
          <<R("r", 1), Seek("r", "end", -5), PR("r", 0, 1)>>,
          <<W("w", 2), SetAppend("w", FALSE), W("w", 1), SetLen("o", 4)>>)}

\* Three processes with one standard output and input: buffers of bytes, TRUE a newline.
Out(bufs) == [op |-> "write", bufs |-> bufs]
In(sizes) == [op |-> "read", bufs |-> sizes]
SyncOut == [op |-> "sync"]
CloseIt == [op |-> "close"]
StandardPrograms == {
    Three(<<Out(<< <<FALSE>>, <<FALSE, TRUE, FALSE>> >>), Out(<< <<TRUE>> >>), CloseIt>>,
          <<Out(<< <<FALSE, FALSE>> >>), SyncOut, CloseIt>>,
          <<Out(<< <<FALSE, FALSE, FALSE>> >>), CloseIt>>),
    Three(<<In(<<1, 2>>), CloseIt>>, <<In(<<3>>), In(<<1>>), CloseIt>>, <<In(<<2, 1>>), CloseIt>>)}

(***************************************************************************)
(* Threads a, b and c that mount the root file system of the application,  *)
(* write, mount, unmount, sync and exit.                                   *)
(***************************************************************************)
Mc(type, target, source) ==
    [type |-> type, target |-> target, source |-> source, temporary |-> FALSE, mac |-> "none",
     index |-> 0, size |-> FALSE, layers |-> <<>>]
Union(target, image, container) == [Mc("union", target, "none") EXCEPT !.layers = <<image, container>>]
RootUnion(image, mac, container) ==
    Union("/", [Mc("sefs", "/", image) EXCEPT !.mac = mac, !.index = 1], Mc("sefs", "/", container))
InitApp == <<RootUnion("initimg", "none", "initcon"), Mc("hostfs", "host", "h")>>
AppRoot == RootUnion("img", "m", "con")
App == <<AppRoot, Mc("sefs", "data", "data"), Mc("hostfs", "host", "h"), Mc("procfs", "proc", "none")>>
AppExt == <<AppRoot, [Mc("ext2", "data", "disk") EXCEPT !.size = TRUE], Mc("devfs", "dev", "none"),
            [Mc("sefs", "tmp", "tmp") EXCEPT !.temporary = TRUE]>>
AppBad == <<AppRoot, Mc("ramfs", "host", "none"), Mc("sefs", "data", "locked")>>
Formatted(key, mac) == [formatted |-> TRUE, key |-> key, mac |-> mac, data |-> {}]
Unformatted == [formatted |-> FALSE, key |-> "none", mac |-> "none", data |-> {}]
Sources == {"initimg", "initcon", "img", "con", "data", "disk", "tmp", "locked", "h", "x", "y"}
Disk == ("initimg" :> Formatted("none", "i")) @@ ("img" :> Formatted("none", "m"))
        @@ ("locked" :> Formatted("other", "none")) @@ [s \in Sources |-> Unformatted]
MountScenario(app, a, b, c) ==
    [init |-> InitApp, app |-> app, disk |-> Disk, dirs |-> {"data", "host", "proc", "dev", "tmp", "mnt"},
     scripts |-> ("a" :> a) @@ ("b" :> b) @@ ("c" :> c)]
MountRootKey(key) == [op |-> "mount_rootfs", key |-> key]
MountRoot == MountRootKey("none")
WriteTo(target) == [op |-> "write", target |-> target]
Mount(mc) == [op |-> "mount", mc |-> mc, key |-> "none", remount |-> FALSE]
Umount(target) == [op |-> "umount", target |-> target]
ExitIt == [op |-> "exit"]
SyncAll == [op |-> "sync"]
Await(thread, n) == [op |-> "await", thread |-> thread, left |-> n]
TwoLayers == Union("mnt", Mc("sefs", "mnt", "x"), Mc("sefs", "mnt", "y"))
FirstScenario == MountScenario(App,
    <<WriteTo("/"), MountRootKey("bad"), MountRoot, WriteTo("data"), MountRoot, ExitIt>>,
    <<WriteTo("/"), SyncAll>>,
    <<Await("a", 3), Mount(Mc("sefs", "mnt", "x")), WriteTo("mnt"), Umount("mnt"), ExitIt>>)
MountScenarios == {
    FirstScenario,
    MountScenario(App, <<MountRoot, WriteTo("/"), ExitIt>>,
        <<Await("a", 2), Mount(TwoLayers), WriteTo("mnt"), Umount("mnt"), ExitIt>>,
        <<Await("a", 2), Mount(Mc("ramfs", "mnt", "none")), WriteTo("mnt"), Umount("mnt"), ExitIt>>),
    MountScenario(AppExt,
        <<MountRoot, WriteTo("data"), SyncAll, Mount(Mc("ext2", "mnt", "disk")), Umount("/"), Umount("mnt")>>,
        <<Await("a", 5), WriteTo("tmp"), ExitIt>>,
        <<Await("a", 4), [Mount(Mc("ramfs", "mnt", "none")) EXCEPT !.remount = TRUE],
          [Mount(TwoLayers) EXCEPT !.key = "malformed"], Mount(Mc("procfs", "mnt", "none")),
          Mount(Mc("sefs", "mnt", "none")), Mount(Mc("hostfs", "mnt", "h")), ExitIt>>),
    MountScenario(AppBad, <<MountRoot, MountRoot>>, <<WriteTo("host"), SyncAll>>,
        <<Await("a", 0), WriteTo("/"), ExitIt>>)}
\* Two threads mount the root at once; one exits while the other mounts it.
TwoMountRoots == {MountScenario(App, <<MountRoot>>, <<MountRoot>>, <<>>)}
ExitDuringMount == {MountScenario(App, <<MountRoot>>, <<WriteTo("/"), ExitIt>>, <<>>)}

(***************************************************************************)
(* Paths, for threads a and b: /d with a file and two links, /e empty, and *)
(* links to a file that does not exist, to itself and to /d.               *)
(***************************************************************************)
Ab(names) == [abs |-> TRUE, comps |-> names, slash |-> FALSE]
Re(names) == [abs |-> FALSE, comps |-> names, slash |-> FALSE]
Nowhere == Ab(<<>>)
Node(kind, entries, target, nlink) ==
    [kind |-> kind, entries |-> entries, target |-> target, nlink |-> nlink, mode |-> "rw", owner |-> "root"]
Dir(entries) == Node("dir", entries, Nowhere, 2)
LinkTo(target) == Node("link", <<>>, target, 1)
Tree == <<
    Dir(("d" :> 2) @@ ("e" :> 3) @@ ("l" :> 5) @@ ("loop" :> 7) @@ ("k" :> 8)),
    Dir(("f" :> 4) @@ ("m" :> 9) @@ ("h" :> 6)),
    Dir(<<>>),
    Node("file", <<>>, Nowhere, 1),
    LinkTo(Re(<<"e", "x">>)), LinkTo(Re(<<"..", "l">>)), LinkTo(Re(<<"loop">>)), LinkTo(Ab(<<"d">>)),
    LinkTo(Re(<<"h">>)) >>
PathScripts(a, b) == [inodes |-> Tree, scripts |-> ("a" :> a) @@ ("b" :> b)]
OpenAt(path, creat, excl) ==
    [op |-> "open", path |-> path, creat |-> creat, excl |-> excl, nofollow |-> FALSE, directory |-> FALSE,
     dirfd |-> FALSE, o_path |-> FALSE]
At(op, path) ==
    [op |-> op, path |-> path, dirfd |-> FALSE, nofollow |-> FALSE, value |-> "v", target |-> Re(<<"f">>),
     new |-> Nowhere]
FromTo(op, path, new) == [At(op, path) EXCEPT !.new = new]
FirstPaths == PathScripts(
    <<OpenAt(Ab(<<"k", "m">>), TRUE, FALSE), OpenAt(Re(<<"l">>), TRUE, TRUE),
      OpenAt(Ab(<<"loop">>), TRUE, FALSE), [OpenAt(Ab(<<"l">>), TRUE, FALSE) EXCEPT !.nofollow = TRUE],
      [OpenAt(Ab(<<"l">>), FALSE, FALSE) EXCEPT !.nofollow = TRUE, !.o_path = TRUE]>>,
    <<At("chdir", Re(<<"k">>)), OpenAt(Re(<<"..", "e", "y">>), TRUE, TRUE), At("chdir", Ab(<<"loop">>))>>)
PathScenarios == {
    FirstPaths,
    PathScripts(<<OpenAt(Re(<<"l">>), TRUE, TRUE), At("unlink", Re(<<"e", "x">>)), At("rmdir", Re(<<"e">>))>>,
                <<OpenAt(Re(<<"l">>), TRUE, TRUE), OpenAt(Ab(<<"e", "z">>), TRUE, FALSE)>>),
    PathScripts(<<At("mkdir", Re(<<"e", "n">>)), FromTo("rename", Re(<<"e">>), Re(<<"d", "e">>))>>,
                <<At("rmdir", Re(<<"e", "n">>)), At("mkdir", Re(<<"e", "n">>)), At("rmdir", Re(<<"e">>))>>),
    PathScripts(<<FromTo("rename", Re(<<"d">>), Re(<<"d", "q">>)),
                  FromTo("link", Re(<<"d", "f">>), Re(<<"e", "f">>)), At("unlink", Re(<<"d", "f">>))>>,
                <<FromTo("rename", Re(<<"d", "f">>), Re(<<"e", "f">>)), At("symlink", Re(<<"d", "s">>)),
                  At("symlink", Re(<<"d", "m">>)), FromTo("rename", Re(<<"d", "s">>), Re(<<"e", "s">>))>>),
    PathScripts(<<[OpenAt(Re(<<"d">>), FALSE, FALSE) EXCEPT !.directory = TRUE],
                  [OpenAt(Re(<<"f">>), FALSE, FALSE) EXCEPT !.dirfd = TRUE],
                  [OpenAt(Re(<<"d", "f">>), FALSE, FALSE) EXCEPT !.directory = TRUE],
                  [OpenAt(Re(<<"d", "w">>), TRUE, FALSE) EXCEPT !.directory = TRUE],
                  FromTo("link", Re(<<"d">>), Re(<<"e", "d">>))>>,
                <<At("chmod", Re(<<"k">>)), [At("chown", Re(<<"k">>)) EXCEPT !.nofollow = TRUE],
                  [At("chown", Re(<<"k">>)) EXCEPT !.value = "unchanged"], At("chmod", Re(<<"no">>))>>),
    PathScripts(<<At("chdir", Re(<<"d">>)), At("chdir", Re(<<"..", "d">>)), At("chdir", Re(<<"..", "d">>)),
                  At("mkdir", Re(<<"..", "n">>)), OpenAt(Re(<<"..", "d", "f">>), FALSE, FALSE)>>,
                <<FromTo("rename", Ab(<<"d", "f">>), Ab(<<"e", "f">>)),
                  [At("unlink", Ab(<<"e", "f">>)) EXCEPT !.path.slash = TRUE],
                  [FromTo("rename", Ab(<<"e", "f">>), Ab(<<"g">>)) EXCEPT !.path.slash = TRUE],
                  At("unlink", Ab(<<"e", "f">>))>>),
    PathScripts(<<FromTo("rename", Re(<<"d">>), Re(<<"e", "d">>)), At("mkdir", Re(<<"d">>))>>,
                <<FromTo("rename", Re(<<"e">>), Re(<<"d", "e">>))>>),
    PathScripts(<<FromTo("rename", Re(<<"d">>), Re(<<"k", "q">>)), At("mkdir", Re(<<"d">>))>>,
                <<FromTo("rename", Re(<<"e">>), Re(<<"d", "..", "e", "q">>)), OpenAt(Re(<<"k", "n">>), TRUE, TRUE)>>)}

Locks == INSTANCE FileLocks
    WITH LThreads <- {"a1", "a2", "b"}, ProcOf <- ("a1" :> "p" @@ "a2" :> "p" @@ "b" :> "q"),
         OffsetMax <- FileEnd, NowRequests <- Asked, WaitRequests <- Waited,
         KThreads <- {"t1", "t2", "t3"}, KPrograms <- FlockPrograms, KFiles <- {"f", "g", "h"},
         NobodyK <- "nobody"
Inode == INSTANCE InodeFile
    WITH IThreads <- {"t1", "t2", "t3"}, IPrograms <- OpenFilePrograms, OpenFiles <- {"o", "r", "w"},
         Readable <- {"o", "r"}, Writable <- {"o", "w"}, FreeMutex <- "nobody",
         StdPrograms <- StandardPrograms, Capacity <- 3, Input <- <<1, 2, 3, 4, 5>>

Mounts == INSTANCE RootFs
    WITH RfThreads <- {"a", "b", "c"}, Scenarios <- MountScenarios \cup TwoMountRoots \cup ExitDuringMount,
         SyncFaults <- 1,
         FileIds <- {"metadata", "f"}, Bytes <- {1}, MaxLen <- 3, Keys <- {"k"}, Macs <- {"m"},
         MaxStorageOps <- 4, CacheSizes <- {0, 1, 48}, DefaultCache <- 48
Paths == INSTANCE FsPaths
    WITH FpThreads <- {"a", "b"}, FpScenarios <- PathScenarios, MAX_SYMLINKS <- 5,
         MaxComps <- 5

recordVars == <<list, held, asks, lwoken>>
flockVars == <<flocks, strong, listLock, kpc, kidx, kcalls, kwoken>>
inodeVars == <<content, offset, always_append, mutex, icalls, at, consumed, appended, damaged>>
mountVars == <<scenario, fs, roots, ROOT_FS, MOUNT_ONCE, entry_points, manager, disk, hostStrings, rfpc,
               rfLocal, rfScript, result, late, syncFaults>>
pathVars == <<inodes, cwd, fdPath, fppc, fpScript, fpLocal, returned, looped>>
storageVars == <<hostFiles, fileCache, mode, size, meant, lastRead, ops>>
stdVars == <<line, output, failed, unread, typed, stdMutex, refs, stdCalls, bufNo, accepted, given, short>>
openVars == <<fileTableVars, recordVars, flockVars, inodeVars, stdVars>>
fsVars == <<mountVars, pathVars, storageVars>>
vars == <<comp, openVars, fsVars>>

First(programs) == CHOOSE p \in programs : TRUE

AllInit ==
    /\ FTInit /\ (comp # "table" => fcalls = First(TablePrograms))
    /\ Locks!LocksInit
    /\ Locks!FlockInit /\ (comp # "flock" => kcalls = First(FlockPrograms))
    /\ Inode!InodeInit /\ (comp # "inode" => icalls = First(OpenFilePrograms))
    /\ Inode!StdInit /\ (comp # "stdio" => stdCalls = First(StandardPrograms))
    /\ Mounts!RfInit /\ (comp # "mounts" => scenario = FirstScenario)
    /\ Paths!FpInit /\ (comp # "paths" => fpScript = FirstPaths.scripts)
    /\ Mounts!SgInit
    /\ comp # "storage" => /\ mode.type = "refused" /\ mode.key = "k" /\ mode.mac = "m"
                          /\ hostFiles["metadata"].key = "k"

Init ==
    /\ comp \in {"table", "records", "flock", "inode", "stdio", "mounts", "paths", "storage"} /\ AllInit
    /\ scenario \in MountScenarios

Next ==
    \/ comp = "table" /\ FTNext /\ UNCHANGED <<comp, recordVars, flockVars, inodeVars, stdVars, fsVars>>
    \/ comp = "records" /\ Locks!LocksNext
       /\ UNCHANGED <<comp, fileTableVars, flockVars, inodeVars, stdVars, fsVars>>
    \/ comp = "flock" /\ Locks!FlockNext
       /\ UNCHANGED <<comp, fileTableVars, recordVars, inodeVars, stdVars, fsVars>>
    \/ comp = "inode" /\ Inode!InodeNext
       /\ UNCHANGED <<comp, fileTableVars, recordVars, flockVars, stdVars, fsVars>>
    \/ comp = "stdio" /\ Inode!StdNext
       /\ UNCHANGED <<comp, fileTableVars, recordVars, flockVars, inodeVars, fsVars>>
    \/ comp = "mounts" /\ Mounts!RfNext /\ UNCHANGED <<comp, openVars, pathVars, storageVars>>
    \/ comp = "paths" /\ Paths!FpNext /\ UNCHANGED <<comp, openVars, mountVars, storageVars>>
    \/ comp = "storage" /\ Mounts!SgNext /\ UNCHANGED <<comp, openVars, mountVars, pathVars>>

Spec == Init /\ [][Next]_vars

\* The mounts that get in each other's way.
TwoMountsSpec == comp = "mounts" /\ AllInit /\ scenario \in TwoMountRoots /\ [][Next]_vars
ExitSpec == comp = "mounts" /\ AllInit /\ scenario \in ExitDuringMount /\ [][Next]_vars

(***************************************************************************)
(* Properties.                                                             *)
(***************************************************************************)
\* Every file table counts its open files exactly, so that adding one finds the free entry it
\* unwraps (file_table.rs), threads that share an open file neither read a byte twice nor append
\* over each other (inode_file.rs), and the standard files keep the order and the bytes of the
\* calls (stdio.rs).
OpenFilesExact ==
    /\ (comp = "table" => TableConsistent)
    /\ (comp = "inode" => Inode!SharedOffsetExact)
    /\ (comp = "stdio" => Inode!StdioExact)

\* The lists of record locks and of flock locks are what the calls granted amount to, and no
\* two owners hold locks that conflict (range_lock/mod.rs, flock.rs); a thread that sleeps for
\* a lock is queued at one that still stands in its way.
LocksExact ==
    /\ (comp = "records" => Locks!RangeLocksExact /\ Locks!LockWaitersServed)
    /\ (comp = "flock" => Locks!FlocksExclusive /\ Locks!FlockWaitersServed)

\* Every mounted file system is flushed and known to the manager, and what is written to the
\* storage under them is what is read back: see RootFs.tla.
FileSystemsExact ==
    /\ (comp = "mounts" => Mounts!RootFsExact)
    /\ (comp = "storage" => Mounts!StorageExact)

\* The directories stay a tree, and a path leads where the tree says: see FsPaths.tla.
PathsExact == comp = "paths" => Paths!PathsExact

\* A thread that sleeps in F_SETLKW holds up nobody else's call on a file.
NoLockHeldWhileWaiting == comp = "records" => Locks!NoLockHeldWhileWaiting
=============================================================================
