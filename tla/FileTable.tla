------------------------------ MODULE FileTable ------------------------------
(***************************************************************************)
(* The file table of a process (fs/file_table.rs): a growing vector of     *)
(* entries and a count of the occupied ones, which put trusts when it      *)
(* looks for a free entry.  The table is shared by the process's threads,  *)
(* which lock it once per operation; dup(2) locks it twice.  It is cloned  *)
(* for a spawned child, for exec, and by vfork, which puts the parent's    *)
(* table aside until the child is gone.                                    *)
(***************************************************************************)
EXTENDS Integers, Sequences, FiniteSets, Folds

CONSTANTS
    FThreads,   \* threads of the process
    FPrograms,  \* the calls of each thread, one of which runs
    Files,      \* what a descriptor may stand for
    NoFile,     \* the entry (or held file) that is None
    MaxFds      \* the limit of open files, RLIMIT_NOFILE

Entry(f, cos) == [file |-> f, close_on_spawn |-> cos]

\* What posix_spawn may be told to do (to open what cannot be opened, too), and what the threads
\* may call.
FileActions ==
    [action : {"open"}, fd : Nat, file : Files \cup {NoFile}, cos : BOOLEAN]
    \cup [action : {"dup2"}, old : Nat, new : Nat] \cup [action : {"close"}, fd : Nat]
FileCalls ==
    [call : {"open", "pipe"}, file : Files, cos : BOOLEAN]
    \cup [call : {"dup", "close"}, fd : Nat] \cup [call : {"dup2"}, fd : Nat, new : Nat, cos : BOOLEAN]
    \cup [call : {"dupfd"}, fd : Nat, min : Nat, cos : BOOLEAN]
    \cup [call : {"setfd"}, fd : Nat, cos : BOOLEAN] \cup [call : {"spawn"}, actions : Seq(FileActions)]
    \cup [call : {"exec", "vfork", "vreturn", "vexec", "exit"}]

ASSUME FileTableAssumption ==
    /\ {"stdin", "stdout"} \subseteq Files /\ NoFile \notin Files
    /\ \A f \in Files, cos \in BOOLEAN : Entry(f, cos) # NoFile
    /\ \A p \in FPrograms : p \in [FThreads -> Seq(FileCalls)]

VARIABLES
    files,         \* the table in use: [table, num_fds]
    parent_files,  \* the parent's table while a vforked child runs, or NoFile
    childs,        \* the tables made for children
    dupped,        \* thread -> the file dup(2) has looked up and not yet added
    fcalls,        \* thread -> the calls still to be made
    tpanic         \* an unwrap or expect on None happened

fileTableVars == <<files, parent_files, childs, dupped, fcalls, tpanic>>

Occupied(ft) == {fd \in 0..Len(ft.table) - 1 : ft.table[fd + 1] # NoFile}

\* Calls on an invalid descriptor return EBADF and change nothing.
get_entry(ft, fd) == IF fd \in Occupied(ft) THEN ft.table[fd + 1] ELSE NoFile

FreeFrom(ft, fd) == {i \in fd..Len(ft.table) - 1 : ft.table[i + 1] = NoFile}
Least(S) == CHOOSE i \in S : \A j \in S : i <= j
Grown(ft, len) ==
    [ft EXCEPT !.table = @ \o [i \in 1..(IF len > Len(@) THEN len - Len(@) ELSE 0) |-> NoFile]]

\* put's unwrap: the count says there is a free entry and there is none.
PutPanics(ft) == ft.num_fds < Len(ft.table) /\ FreeFrom(ft, 0) = {}

put(ft, f, cos) ==
    LET room == IF ft.num_fds < Len(ft.table) THEN ft ELSE Grown(ft, Len(ft.table) + 1)
        fd == IF ft.num_fds < Len(ft.table) THEN Least(FreeFrom(ft, 0)) ELSE Len(ft.table)
    IN IF PutPanics(ft) THEN ft ELSE [room EXCEPT !.table[fd + 1] = Entry(f, cos), !.num_fds = @ + 1]

PutAtCounting(ft, fd, f, cos) ==
    [Grown(ft, fd + 1) EXCEPT !.table[fd + 1] = Entry(f, cos), !.num_fds = @ + 1]

put_at(ft, fd, f, cos) ==
    LET room == Grown(ft, fd + 1)
    IN [room EXCEPT !.table[fd + 1] = Entry(f, cos),
                    !.num_fds = IF room.table[fd + 1] = NoFile THEN @ + 1 ELSE @]

\* F_DUPFD: the least free descriptor from min_fd on.
dup(ft, fd, min_fd, cos) ==
    LET room == Grown(ft, min_fd + 1)
        free == FreeFrom(room, min_fd)
    IN put_at(room, IF free = {} THEN Len(room.table) ELSE Least(free), ft.table[fd + 1].file, cos)

del(ft, fd) ==
    IF get_entry(ft, fd) = NoFile THEN ft
    ELSE [ft EXCEPT !.table[fd + 1] = NoFile, !.num_fds = @ - 1]

del_all(ft) == [table |-> [i \in DOMAIN ft.table |-> NoFile], num_fds |-> 0]

MustClose(ft, e) == e # NoFile /\ e.close_on_spawn
close_on_spawn(ft) ==
    [table |-> [i \in DOMAIN ft.table |-> IF MustClose(ft, ft.table[i]) THEN NoFile ELSE ft.table[i]],
     num_fds |-> ft.num_fds - Cardinality({i \in DOMAIN ft.table : MustClose(ft, ft.table[i])})]

\* posix_spawn's file actions, in their order; one that fails ends the spawn.
FileActionFails(ft, a) ==
    \/ a.action = "open" /\ a.file = NoFile
    \/ a.action = "dup2" /\ get_entry(ft, a.old) = NoFile
FileActionDone(ft, a) ==
    CASE FileActionFails(ft, a) -> ft
      [] a.action = "open" /\ a.file # NoFile -> put_at(ft, a.fd, a.file, a.cos)
      [] a.action = "dup2" /\ get_entry(ft, a.old) # NoFile ->
           IF a.old = a.new THEN ft ELSE put_at(ft, a.new, get_entry(ft, a.old).file, FALSE)
      [] a.action = "close" -> del(ft, a.fd)
AfterActions(ft, acts) ==
    LET after[n \in 0..Len(acts)] == IF n = 0 THEN ft ELSE FileActionDone(after[n - 1], acts[n])
    IN after[Len(acts)]
SpawnFails(ft, acts) ==
    \E i \in 1..Len(acts) : FileActionFails(AfterActions(ft, SubSeq(acts, 1, i - 1)), acts[i])
init_files(ft, acts) == close_on_spawn(AfterActions(ft, acts))

-----------------------------------------------------------------------------
\* While a vforked child runs, only the thread that called vfork does.
Runs(t) == parent_files # NoFile => \E i \in 1..Len(fcalls[t]) : fcalls[t][i].call \in {"vreturn", "vexec"}

\* The next call of thread t, and the step that ends it.
Calls(t, name) == Runs(t) /\ fcalls[t] # <<>> /\ Head(fcalls[t]).call = name
Done(t) == fcalls' = [fcalls EXCEPT ![t] = Tail(@)]

\* openat, socket, epoll_create, eventfd, timerfd_create, accept: a new file is added.
do_open(t) ==
    /\ Calls(t, "open") /\ Done(t)
    /\ files' = put(files, Head(fcalls[t]).file, Head(fcalls[t]).cos)
    /\ tpanic' = (tpanic \/ PutPanics(files))
    /\ UNCHANGED <<parent_files, childs, dupped>>

\* pipe2 and socketpair add two files under one locking of the table.
do_pipe2(t) ==
    /\ Calls(t, "pipe") /\ Done(t)
    /\ LET c == Head(fcalls[t])
           first == put(files, c.file, c.cos)
       IN /\ files' = put(first, c.file, c.cos)
          /\ tpanic' = (tpanic \/ PutPanics(files) \/ PutPanics(first))
    /\ UNCHANGED <<parent_files, childs, dupped>>

\* dup(2): the file is looked up under one locking and added under another.
DupLookup(t) ==
    /\ Calls(t, "dup") /\ dupped[t] = NoFile
    /\ LET e == get_entry(files, Head(fcalls[t]).fd)
       IN IF e = NoFile THEN Done(t) /\ UNCHANGED dupped
          ELSE dupped' = [dupped EXCEPT ![t] = e.file] /\ UNCHANGED fcalls
    /\ UNCHANGED <<files, parent_files, childs, tpanic>>
DupAdd(t) ==
    /\ Calls(t, "dup") /\ dupped[t] # NoFile /\ Done(t)
    /\ files' = put(files, dupped[t], FALSE)
    /\ tpanic' = (tpanic \/ PutPanics(files))
    /\ dupped' = [dupped EXCEPT ![t] = NoFile]
    /\ UNCHANGED <<parent_files, childs>>

\* dup2 and dup3.  dup2 onto itself only validates; dup3 onto itself is EINVAL.
do_dup2(t) ==
    /\ Calls(t, "dup2") /\ Done(t)
    /\ LET c == Head(fcalls[t])
           e == get_entry(files, c.fd)
       IN files' = IF e = NoFile \/ c.new >= MaxFds \/ c.fd = c.new THEN files
                   ELSE put_at(files, c.new, e.file, c.cos)
    /\ UNCHANGED <<parent_files, childs, dupped, tpanic>>

\* fcntl F_DUPFD and F_DUPFD_CLOEXEC, and F_SETFD.
do_fcntl(t) ==
    /\ Calls(t, "dupfd") \/ Calls(t, "setfd")
    /\ Done(t)
    /\ LET c == Head(fcalls[t])
       IN files' = IF get_entry(files, c.fd) = NoFile THEN files
                   ELSE IF c.call = "setfd" THEN [files EXCEPT !.table[c.fd + 1].close_on_spawn = c.cos]
                   ELSE dup(files, c.fd, c.min, c.cos)
    /\ UNCHANGED <<parent_files, childs, dupped, tpanic>>

close_file(t) ==
    /\ Calls(t, "close") /\ Done(t)
    /\ files' = del(files, Head(fcalls[t]).fd)
    /\ UNCHANGED <<parent_files, childs, dupped, tpanic>>

\* posix_spawn: the child gets the clone after the file actions.
do_spawn(t) ==
    /\ Calls(t, "spawn") /\ Done(t)
    /\ childs' = IF SpawnFails(files, Head(fcalls[t]).actions) THEN childs
                 ELSE childs \cup {init_files(files, Head(fcalls[t]).actions)}
    /\ UNCHANGED <<files, parent_files, dupped, tpanic>>

\* execve: the clone without the close-on-exec files replaces the table.
do_exec(t) ==
    /\ Calls(t, "exec") /\ Done(t)
    /\ parent_files = NoFile
    /\ files' = close_on_spawn(files)
    /\ UNCHANGED <<parent_files, childs, dupped, tpanic>>

\* vfork: the other threads stand still, the child runs on a clone of the table.
vfork_save_file_table(t) ==
    /\ Calls(t, "vfork") /\ parent_files = NoFile /\ Done(t)
    /\ \A u \in FThreads \ {t} : dupped[u] = NoFile
    /\ parent_files' = files
    /\ UNCHANGED <<files, childs, dupped, tpanic>>

\* The child of vfork exits, or executes a program on a clone of its own table: what only it
\* had opened is closed, and the parent's table comes back.
OpenedByChild == {fd \in Occupied(files) : get_entry(parent_files, fd) = NoFile}
close_files_opened_by_child ==
    MapThenFoldSet(LAMBDA fd, ft : del(ft, fd), files, LAMBDA fd : fd, Least, OpenedByChild)
restore_parent_process(t) ==
    /\ Calls(t, "vreturn") \/ Calls(t, "vexec")
    /\ parent_files # NoFile /\ Done(t)
    /\ childs' = childs \cup {close_files_opened_by_child}
                        \cup (IF Calls(t, "vexec") THEN {close_on_spawn(files)} ELSE {})
    /\ files' = parent_files /\ parent_files' = NoFile
    /\ UNCHANGED <<dupped, tpanic>>

close_all_files(t) ==
    /\ Calls(t, "exit") /\ Done(t)
    /\ \A u \in FThreads \ {t} : fcalls[u] = <<>>
    /\ files' = del_all(files)
    /\ UNCHANGED <<parent_files, childs, dupped, tpanic>>

FTInit ==
    /\ files = [table |-> <<Entry("stdin", FALSE), Entry("stdout", FALSE)>>, num_fds |-> 2]
    /\ parent_files = NoFile /\ childs = {}
    /\ dupped = [t \in FThreads |-> NoFile]
    /\ fcalls \in FPrograms
    /\ tpanic = FALSE

FTNext == \E t \in FThreads :
    \/ do_open(t) \/ do_pipe2(t) \/ DupLookup(t) \/ DupAdd(t) \/ do_dup2(t) \/ do_fcntl(t)
    \/ close_file(t) \/ do_spawn(t) \/ do_exec(t) \/ close_all_files(t)
    \/ vfork_save_file_table(t) \/ restore_parent_process(t)

FTSpec == FTInit /\ [][FTNext]_fileTableVars

-----------------------------------------------------------------------------
\* The tables of the process (the one in use and the one vfork put aside) count their occupied
\* entries exactly, after any mix of opens, replacements, growth, close-on-exec and vfork; so
\* put always finds the free entry it unwraps.
TablesCounted ==
    /\ ~tpanic
    /\ \A ft \in {files} \cup ({parent_files} \ {NoFile}) : ft.num_fds = Cardinality(Occupied(ft))

\* So do the tables given to children, after their file actions and what vfork closes in them.
TableConsistent == TablesCounted /\ \A ft \in childs : ft.num_fds = Cardinality(Occupied(ft))
=============================================================================
