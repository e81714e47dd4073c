---- MODULE FsPaths ----
(***************************************************************************)
(* Paths and the calls that change the tree of directories:                *)
(* src/libos/src/fs/fs_view.rs, fs/file_ops/{fspath, open, mkdir, rmdir,   *)
(* unlink, link, symlink, rename, chmod, chown}.rs and fs_ops/chdir.rs.    *)
(*                                                                         *)
(* The inodes belong to the file system libraries: find, create, link,     *)
(* unlink and move_ are atomic operations on one or two directories.  What *)
(* the code here adds is everything around them: how a path is split and   *)
(* resolved, which checks come first, and that a directory looked up by    *)
(* one step is used by a later one, when other threads may have changed    *)
(* the tree.  A path is a record: absolute or not, its components, and     *)
(* whether it ends with a slash.                                           *)
(***************************************************************************)
EXTENDS Integers, Sequences, FiniteSets, SequencesExt, TLC

CONSTANTS FpThreads,     \* threads of one process: they share the directory
          FpScenarios,   \* set of [inodes, scripts]
          MAX_SYMLINKS, MaxComps  \* the limit on links; PATH_MAX in components

VARIABLES inodes, cwd, fdPath, fppc, fpScript, fpLocal, returned,
          looped   \* history: the directories a rename moved below themselves unseen
fpVars == <<inodes, cwd, fdPath, fppc, fpScript, fpLocal, returned, looped>>

ENOENT == 0
ELOOP == -1
ENOTDIR == -2
ROOT == 1

Kind(i) == inodes[i].kind
Dirs(ino) == {i \in DOMAIN ino : ino[i].kind = "dir"}
\* INode::find in a directory; "." and ".." are entries of every directory.
Parent(ino, d) == IF d = ROOT THEN ROOT
                  ELSE LET P == {p \in Dirs(ino) : d \in Range(ino[p].entries)}
                       IN IF P = {} THEN ENOENT ELSE CHOOSE p \in P : TRUE
Find(ino, d, name) ==
  CASE name = "." -> d
    [] name = ".." -> Parent(ino, d)
    [] OTHER -> IF name \in DOMAIN ino[d].entries THEN ino[d].entries[name] ELSE ENOENT

\* The directories at and below those of S.
RECURSIVE Subtree(_, _)
Subtree(ino, S) ==
  LET more == S \cup UNION {Range(ino[d].entries) \cap Dirs(ino) : d \in S}
  IN IF more = S THEN S ELSE Subtree(ino, more)

\* INode::lookup_follow: walk the components, replacing a symbolic link by
\* its content, n links at most.
RECURSIVE Walk(_, _, _, _)
Walk(ino, d, comps, n) ==
  IF comps = <<>> THEN d
  ELSE IF ino[d].kind # "dir" THEN ENOTDIR
  ELSE LET i == Find(ino, d, Head(comps)) IN
       IF i = ENOENT THEN ENOENT
       ELSE IF ino[i].kind # "link" THEN Walk(ino, i, Tail(comps), n)
       ELSE IF n = 0 THEN ELOOP
       ELSE IF ino[i].target.comps = <<>> THEN ENOENT
       ELSE Walk(ino, IF ino[i].target.abs THEN ROOT ELSE d, ino[i].target.comps \o Tail(comps), n - 1)

----
(* Paths.                                                                  *)

Path(abs, comps, slash) == [abs |-> abs, comps |-> comps, slash |-> slash]
\* convert_to_abs_path and the cases of FsPath::to_abs_path: a relative path
\* is appended to the recorded path of its directory, never normalised.
Appended(base, p) == Path(TRUE, base.comps \o p.comps, p.slash)
FsPathBase(c) == IF c.dirfd THEN fdPath ELSE cwd
to_abs_path(c, p) == IF p.abs THEN p ELSE Appended(FsPathBase(c), p)
TooLong(p) == Len(p.comps) > MaxComps

\* split_path: the directory and the last component.
DirPath(p) == Path(p.abs, IF p.comps = <<>> THEN <<>> ELSE Front(p.comps), FALSE)
FileName(p) == IF p.comps = <<>> THEN "." ELSE Last(p.comps)

\* FsView::lookup_inode and lookup_inode_no_follow.
lookup_inode(ino, p) ==
  IF p.abs THEN Walk(ino, ROOT, p.comps, MAX_SYMLINKS)
  ELSE LET d == Walk(ino, ROOT, cwd.comps, MAX_SYMLINKS) IN
       IF d <= 0 THEN d ELSE Walk(ino, d, p.comps, MAX_SYMLINKS)
lookup_inode_no_follow(ino, p) ==
  IF p.slash THEN lookup_inode(ino, p)
  ELSE LET d == lookup_inode(ino, DirPath(p)) IN
       IF d <= 0 THEN d ELSE IF ino[d].kind # "dir" THEN ENOTDIR ELSE Find(ino, d, FileName(p))

\* FsView::lookup_real_path: where a path that leads nowhere would be
\* created, through any number of links in its last component.
LinkFromRoot(p, target) == Path(TRUE, target.comps, p.slash \/ target.slash)
LinkTarget(p, target) ==
  IF target.abs THEN Path(TRUE, target.comps, p.slash \/ target.slash)
  ELSE Path(p.abs, DirPath(p).comps \o target.comps, p.slash \/ target.slash)
RECURSIVE lookup_real_path(_, _)
lookup_real_path(ino, p) ==
  LET d == lookup_inode(ino, DirPath(p)) IN
  IF d <= 0 \/ ino[d].kind # "dir" THEN [ok |-> FALSE, path |-> p]
  ELSE LET i == Find(ino, d, FileName(p)) IN
       IF i # ENOENT /\ ino[i].kind = "link"
       THEN IF ino[i].target.comps = <<>> THEN [ok |-> FALSE, path |-> p]
            ELSE lookup_real_path(ino, LinkTarget(p, ino[i].target))
       ELSE [ok |-> TRUE, path |-> p]

----
(* The operations of the libraries.  A directory that was removed takes no *)
(* new entry.                                                              *)

NewInode(kind) == [kind |-> kind, entries |-> <<>>, target |-> Path(FALSE, <<>>, FALSE),
                   nlink |-> IF kind = "dir" THEN 2 ELSE 1, mode |-> "new", owner |-> "root"]
Takes(ino, d, name) == ino[d].nlink > 0 /\ Find(ino, d, name) = ENOENT
Enter(ino, d, name, i) == [ino EXCEPT ![d].entries = (name :> i) @@ @]
Leave(ino, d, name) == [ino EXCEPT ![d].entries = [n \in DOMAIN @ \ {name} |-> @[n]]]
Unlinked(ino, i) == [ino EXCEPT ![i].nlink = IF ino[i].kind = "dir" THEN 0 ELSE @ - 1]
Removable(ino, i) == ino[i].kind = "dir" => ino[i].entries = <<>>
Created(ino, d, name, kind) == Enter(Append(ino, NewInode(kind)), d, name, Len(ino) + 1)

\* INode::move_: an entry replaced must be of the same kind, and empty.
MoveOk(ino, d, name, e, new) ==
  LET i == Find(ino, d, name)
      j == Find(ino, e, new)
  IN /\ i # ENOENT /\ ino[e].nlink > 0
     /\ j # ENOENT => (ino[j].kind = "dir") = (ino[i].kind = "dir") /\ (j # i => Removable(ino, j))
Moved(ino, d, name, e, new) ==
  LET i == Find(ino, d, name)
      j == Find(ino, e, new)
  IN IF i = j THEN ino
     ELSE Enter(Leave(IF j = ENOENT THEN ino ELSE Leave(Unlinked(ino, j), e, new), d, name), e, new, i)

----
(* The calls.                                                              *)

NoPath == Path(TRUE, <<>>, FALSE)
FpNoLocal == [dir |-> 0, dir2 |-> 0, inode |-> 0, path |-> NoPath, path2 |-> NoPath, before |-> <<>>]
FpCall(t) == Head(fpScript[t])
FpIdle(t) == fppc[t] = "idle" /\ fpScript[t] # <<>>
FpReturn(t, r) ==
  /\ returned' = [returned EXCEPT ![t] = Append(@, [call |-> FpCall(t), r |-> r, inode |-> fpLocal[t].inode])]
  /\ fpScript' = [fpScript EXCEPT ![t] = Tail(@)]
  /\ fppc' = [fppc EXCEPT ![t] = "idle"]
  /\ fpLocal' = [fpLocal EXCEPT ![t] = FpNoLocal]
FpGoto(t, l, local) ==
  /\ fppc' = [fppc EXCEPT ![t] = l]
  /\ fpLocal' = [fpLocal EXCEPT ![t] = local]
  /\ UNCHANGED <<fpScript, returned>>

\* The open that returns file i: the outcome is recorded with the path it
\* used and the tree it saw.
OpenDone(t, i, p) ==
  /\ returned' = [returned EXCEPT ![t] = Append(@, [call |-> FpCall(t), r |-> "ok", inode |-> i])]
  /\ fpScript' = [fpScript EXCEPT ![t] = Tail(@)]
  /\ fppc' = [fppc EXCEPT ![t] = "idle"]
  /\ fpLocal' = [fpLocal EXCEPT ![t] = FpNoLocal]
  /\ fdPath' = IF inodes'[i].kind = "dir" THEN p ELSE fdPath

\* FsView::open_file, the lookup and what is decided from it.
OpenLookup(t) ==
  /\ FpIdle(t) /\ FpCall(t).op = "open"
  /\ LET c == FpCall(t)
         p == to_abs_path(c, c.path)
         i == IF c.nofollow THEN lookup_inode_no_follow(inodes, p) ELSE lookup_inode(inodes, p)
     IN IF TooLong(p) THEN FpReturn(t, "ENAMETOOLONG") /\ UNCHANGED <<inodes, fdPath>>
        ELSE IF i > 0
        THEN IF Kind(i) = "link" /\ ~c.o_path THEN FpReturn(t, "ELOOP") /\ UNCHANGED <<inodes, fdPath>>
             ELSE IF c.creat /\ c.excl THEN FpReturn(t, "EEXIST") /\ UNCHANGED <<inodes, fdPath>>
             ELSE IF c.directory /\ Kind(i) # "dir" THEN FpReturn(t, "ENOTDIR") /\ UNCHANGED <<inodes, fdPath>>
             ELSE UNCHANGED inodes /\ OpenDone(t, i, p)
        ELSE IF i # ENOENT \/ ~c.creat THEN FpReturn(t, "err") /\ UNCHANGED <<inodes, fdPath>>
        ELSE IF c.directory \/ p.slash THEN FpReturn(t, "err") /\ UNCHANGED <<inodes, fdPath>>
        ELSE FpGoto(t, "real_path", [FpNoLocal EXCEPT !.path = p]) /\ UNCHANGED <<inodes, fdPath>>
  /\ UNCHANGED cwd

\* A file to be created: the links in its last component are followed
\* (unless the caller forbids it) and its directory is looked up.
OpenRealPath(t) ==
  /\ fppc[t] = "real_path"
  /\ LET p == fpLocal[t].path
         q == IF FpCall(t).nofollow THEN [ok |-> TRUE, path |-> p] ELSE lookup_real_path(inodes, p)
         d == IF q.ok THEN lookup_inode(inodes, DirPath(q.path)) ELSE ENOENT
     IN IF ~q.ok \/ q.path.slash \/ d <= 0
        THEN FpReturn(t, "err")
        ELSE FpGoto(t, "create", [fpLocal[t] EXCEPT !.dir = d, !.path2 = q.path, !.before = inodes])
  /\ UNCHANGED <<inodes, cwd, fdPath>>
OpenCreate(t) ==
  /\ fppc[t] = "create"
  /\ LET d == fpLocal[t].dir
         name == FileName(fpLocal[t].path2)
     IN IF Kind(d) = "dir" /\ Takes(inodes, d, name)
        THEN inodes' = Created(inodes, d, name, "file") /\ OpenDone(t, Len(inodes) + 1, fpLocal[t].path)
        ELSE FpReturn(t, "EEXIST") /\ UNCHANGED <<inodes, fdPath>>
  /\ UNCHANGED cwd

\* The first step of mkdir, rmdir, unlink and symlink: the directory.
NamesDir(c) == c.path.slash /\ c.op \in {"unlink", "symlink"}
LookupDir(t) ==
  /\ FpIdle(t) /\ FpCall(t).op \in {"mkdir", "rmdir", "unlink", "symlink"}
  /\ LET c == FpCall(t)
         p == to_abs_path(c, c.path)
         d == lookup_inode(inodes, DirPath(p))
     IN IF TooLong(p) \/ NamesDir(c) \/ d <= 0 \/ (d > 0 /\ Kind(d) # "dir")
        THEN FpReturn(t, "err")
        ELSE FpGoto(t, c.op, [FpNoLocal EXCEPT !.dir = d, !.path = p])
  /\ UNCHANGED <<inodes, cwd, fdPath>>

\* do_mkdirat: the name must be free; create checks it again.
do_mkdirat(t) ==
  /\ fppc[t] = "mkdir"
  /\ IF Find(inodes, fpLocal[t].dir, FileName(fpLocal[t].path)) # ENOENT
     THEN FpReturn(t, "EEXIST")
     ELSE FpGoto(t, "mkdir_create", fpLocal[t])
  /\ UNCHANGED <<inodes, cwd, fdPath>>
MkdirCreate(t) ==
  /\ fppc[t] = "mkdir_create"
  /\ LET d == fpLocal[t].dir
         name == FileName(fpLocal[t].path)
     IN IF Takes(inodes, d, name)
        THEN inodes' = Created(inodes, d, name, "dir") /\ FpReturn(t, "ok")
        ELSE FpReturn(t, "EEXIST") /\ UNCHANGED inodes
  /\ UNCHANGED <<cwd, fdPath>>

\* do_rmdir and do_unlink: the kind of the entry is checked, then whatever
\* has the name is unlinked.
RightKind(op, kind) == IF op = "rmdir" THEN kind = "dir" ELSE kind # "dir"
FindEntry(t) ==
  /\ fppc[t] \in {"rmdir", "unlink"}
  /\ LET i == Find(inodes, fpLocal[t].dir, FileName(fpLocal[t].path)) IN
     IF i = ENOENT THEN FpReturn(t, "ENOENT")
     ELSE IF ~RightKind(fppc[t], Kind(i)) THEN FpReturn(t, "err")
     ELSE FpGoto(t, "remove", fpLocal[t])
  /\ UNCHANGED <<inodes, cwd, fdPath>>
RemoveEntry(t) ==
  /\ fppc[t] = "remove"
  /\ LET d == fpLocal[t].dir
         name == FileName(fpLocal[t].path)
         i == Find(inodes, d, name)
     IN IF name \in DOMAIN inodes[d].entries /\ Removable(inodes, i)
        THEN inodes' = Leave(Unlinked(inodes, i), d, name) /\ FpReturn(t, "ok")
        ELSE FpReturn(t, "err") /\ UNCHANGED inodes
  /\ UNCHANGED <<cwd, fdPath>>

\* do_symlinkat: the link is created empty, then its content is written.
do_symlinkat(t) ==
  /\ fppc[t] = "symlink"
  /\ LET d == fpLocal[t].dir
         name == FileName(fpLocal[t].path)
     IN IF Takes(inodes, d, name)
        THEN inodes' = Created(inodes, d, name, "link")
             /\ FpGoto(t, "symlink_write", [fpLocal[t] EXCEPT !.inode = Len(inodes) + 1])
        ELSE FpReturn(t, "EEXIST") /\ UNCHANGED inodes
  /\ UNCHANGED <<cwd, fdPath>>
SymlinkWrite(t) ==
  /\ fppc[t] = "symlink_write"
  /\ inodes' = [inodes EXCEPT ![fpLocal[t].inode].target = FpCall(t).target]
  /\ FpReturn(t, "ok")
  /\ UNCHANGED <<cwd, fdPath>>

\* do_linkat: both lookups, then the link.
LinkLookup(t) ==
  /\ FpIdle(t) /\ FpCall(t).op = "link"
  /\ LET c == FpCall(t)
         new == to_abs_path(c, c.new)
         old == to_abs_path(c, c.path)
         i == IF c.nofollow THEN lookup_inode_no_follow(inodes, old) ELSE lookup_inode(inodes, old)
         d == lookup_inode(inodes, DirPath(new))
     IN IF TooLong(new) \/ TooLong(old) \/ new.slash \/ i <= 0 \/ d <= 0
        THEN FpReturn(t, "err")
        ELSE FpGoto(t, "link", [FpNoLocal EXCEPT !.inode = i, !.dir = d, !.path = new])
  /\ UNCHANGED <<inodes, cwd, fdPath>>
do_linkat(t) ==
  /\ fppc[t] = "link"
  /\ LET d == fpLocal[t].dir
         i == fpLocal[t].inode
         name == FileName(fpLocal[t].path)
     IN IF Kind(i) # "dir" /\ Kind(d) = "dir" /\ Takes(inodes, d, name)
        THEN inodes' = [Enter(inodes, d, name, i) EXCEPT ![i].nlink = @ + 1] /\ FpReturn(t, "ok")
        ELSE FpReturn(t, "err") /\ UNCHANGED inodes
  /\ UNCHANGED <<cwd, fdPath>>

\* do_renameat: a directory does not move into itself, judged by the text of
\* the paths; the kind of the source is checked, then the entry is moved.
IsBelow(new, old) == IsStrictPrefix(old.comps, new.comps)
MayMove(old, new) == TRUE
MayRename(old, new) == ~IsBelow(new, old)
RenameLookup(t) ==
  /\ FpIdle(t) /\ FpCall(t).op = "rename"
  /\ LET c == FpCall(t)
         old == to_abs_path(c, c.path)
         new == to_abs_path(c, c.new)
         d == lookup_inode(inodes, DirPath(old))
         e == lookup_inode(inodes, DirPath(new))
     IN IF TooLong(old) \/ TooLong(new) \/ ~MayRename(old, new) \/ d <= 0 \/ e <= 0
        THEN FpReturn(t, "err")
        ELSE FpGoto(t, "rename", [FpNoLocal EXCEPT !.dir = d, !.dir2 = e, !.path = old, !.path2 = new,
                                                      !.before = inodes])
  /\ UNCHANGED <<inodes, cwd, fdPath>>
RenameFind(t) ==
  /\ fppc[t] = "rename"
  /\ LET l == fpLocal[t]
         i == IF Kind(l.dir) = "dir" THEN Find(inodes, l.dir, FileName(l.path)) ELSE ENOENT
     IN IF i = ENOENT \/ Kind(l.dir2) # "dir" \/ (i # ENOENT /\ l.path.slash /\ Kind(i) # "dir")
        THEN FpReturn(t, "err")
        ELSE FpGoto(t, "move", l)
  /\ UNCHANGED <<inodes, cwd, fdPath>>
\* What the comparison of the texts cannot see: a link or ".." in the paths, or a tree that
\* changed after they were looked up.
Straight(ino, p) ==
  /\ ".." \notin Range(p.comps)
  /\ \A n \in 1..Len(p.comps) - 1 :
       LET i == lookup_inode_no_follow(ino, Path(TRUE, SubSeq(p.comps, 1, n), FALSE)) IN i > 0 /\ ino[i].kind = "dir"
Unseen(l) == inodes # l.before \/ ~Straight(inodes, l.path) \/ ~Straight(inodes, l.path2)
RenameMove(t) ==
  /\ fppc[t] = "move"
  /\ LET l == fpLocal[t]
         name == FileName(l.path)
         new == FileName(l.path2)
     IN IF MoveOk(inodes, l.dir, name, l.dir2, new)
        THEN /\ inodes' = Moved(inodes, l.dir, name, l.dir2, new)
             /\ looped' = looped \cup {i \in {Find(inodes, l.dir, name)} :
                                      Kind(i) = "dir" /\ l.dir2 \in Subtree(inodes, {i}) /\ Unseen(l)}
             /\ FpReturn(t, "ok")
        ELSE FpReturn(t, "err") /\ UNCHANGED <<inodes, looped>>
  /\ UNCHANGED <<cwd, fdPath>>

\* do_chdir: the directory is looked up; FsView::set_cwd appends the text.
ChdirLookup(t) ==
  /\ FpIdle(t) /\ FpCall(t).op = "chdir"
  /\ LET i == lookup_inode(inodes, FpCall(t).path) IN
     IF i <= 0 \/ (i > 0 /\ Kind(i) # "dir")
     THEN FpReturn(t, "err")
     ELSE FpGoto(t, "chdir", [FpNoLocal EXCEPT !.inode = i, !.before = inodes])
  /\ UNCHANGED <<inodes, cwd, fdPath>>
set_cwd(t) ==
  /\ fppc[t] = "chdir"
  /\ cwd' = LET p == FpCall(t).path IN IF p.abs THEN p ELSE Appended(cwd, p)
  /\ FpReturn(t, "ok")
  /\ UNCHANGED <<inodes, fdPath>>

\* do_fchmodat and do_fchownat: the metadata are read, one part is changed,
\* and all of them are written back.
AttrLookup(t) ==
  /\ FpIdle(t) /\ FpCall(t).op \in {"chmod", "chown"}
  /\ LET c == FpCall(t)
         p == to_abs_path(c, c.path)
         i == IF c.nofollow THEN lookup_inode_no_follow(inodes, p) ELSE lookup_inode(inodes, p)
     IN IF c.op = "chown" /\ c.value = "unchanged" THEN FpReturn(t, "ok")
        ELSE IF TooLong(p) \/ i <= 0 THEN FpReturn(t, "err")
        ELSE FpGoto(t, "set_metadata", [FpNoLocal EXCEPT !.inode = i, !.before = inodes])
  /\ UNCHANGED <<inodes, cwd, fdPath>>
SetMetadata(t) ==
  /\ fppc[t] = "set_metadata"
  /\ LET i == fpLocal[t].inode
         info == fpLocal[t].before[i]
     IN inodes' = [inodes EXCEPT ![i].mode = IF FpCall(t).op = "chmod" THEN FpCall(t).value ELSE info.mode,
                                 ![i].owner = IF FpCall(t).op = "chown" THEN FpCall(t).value ELSE info.owner]
  /\ FpReturn(t, "ok")
  /\ UNCHANGED <<cwd, fdPath>>

FpInit ==
  /\ \E s \in FpScenarios : inodes = s.inodes /\ fpScript = s.scripts
  /\ cwd = NoPath /\ fdPath = NoPath
  /\ fppc = [t \in FpThreads |-> "idle"]
  /\ fpLocal = [t \in FpThreads |-> FpNoLocal]
  /\ returned = [t \in FpThreads |-> <<>>]
  /\ looped = {}

FpNext == \E t \in FpThreads :
  \/ RenameMove(t)
  \/ /\ \/ OpenLookup(t) \/ OpenRealPath(t) \/ OpenCreate(t) \/ LookupDir(t) \/ do_mkdirat(t)
        \/ MkdirCreate(t) \/ FindEntry(t) \/ RemoveEntry(t) \/ do_symlinkat(t) \/ SymlinkWrite(t)
        \/ LinkLookup(t) \/ do_linkat(t) \/ RenameLookup(t) \/ RenameFind(t)
        \/ ChdirLookup(t) \/ set_cwd(t) \/ AttrLookup(t) \/ SetMetadata(t)
     /\ UNCHANGED looped

----
\* The directories stay a tree whatever the threads do, but for what a rename
\* moved below itself unseen: every directory that was not removed has one
\* entry and is reached from the root, a removed one is empty, and the link
\* count of a file is the number of its entries.
Entries(i) == {<<d, n>> \in (Dirs(inodes) \X UNION {DOMAIN inodes[d].entries : d \in Dirs(inodes)}) :
                 n \in DOMAIN inodes[d].entries /\ inodes[d].entries[n] = i}
TreeExact ==
  /\ \A d \in Dirs(inodes) \ {ROOT} :
       IF inodes[d].nlink = 0 THEN Entries(d) = {} /\ inodes[d].entries = <<>>
       ELSE Cardinality(Entries(d)) = 1 /\ d \in Subtree(inodes, {ROOT} \cup looped)
  /\ \A i \in DOMAIN inodes : Kind(i) # "dir" => inodes[i].nlink = Cardinality(Entries(i))

\* "newpath contains a path prefix of the oldpath" is refused: no directory is
\* moved below itself, where nothing leads to it.
NeverBelowItself == looped = {}

\* An open of O_CREAT about to create its file in the tree it looked at puts
\* it where the path leads from then on, through any symbolic links.
CreatedWhereOpened ==
  \A t \in FpThreads : fppc[t] = "create" /\ fpLocal[t].before = inodes =>
    LET d == fpLocal[t].dir
        name == FileName(fpLocal[t].path2)
    IN Kind(d) = "dir" /\ Takes(inodes, d, name) =>
         lookup_inode(Created(inodes, d, name, "file"), fpLocal[t].path) = Len(inodes) + 1

\* A chdir alone in its steps takes relative paths to the directory it named.
ChdirExact ==
  \A t \in FpThreads : fppc[t] = "chdir" /\ fpLocal[t].before = inodes /\ ~FpCall(t).path.abs
                        /\ lookup_inode(inodes, FpCall(t).path) = fpLocal[t].inode =>
    Walk(inodes, ROOT, Appended(cwd, FpCall(t).path).comps, MAX_SYMLINKS) \in {fpLocal[t].inode, ELOOP}

\* Two opens with O_CREAT and O_EXCL never return the same file.
ExclusiveOnce ==
  \A t, u \in FpThreads : \A i \in DOMAIN returned[t], j \in DOMAIN returned[u] :
    /\ <<t, i>> # <<u, j>>
    /\ \A x \in {returned[t][i], returned[u][j]} : x.call.op = "open" /\ x.r = "ok" /\ x.call.excl
    => returned[t][i].inode # returned[u][j].inode

\* Paths mean the same to every call and the tree stays one.
PathsExact == TreeExact /\ CreatedWhereOpened /\ ChdirExact /\ ExclusiveOnce
====
