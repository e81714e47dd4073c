------------------------------ MODULE InodeFile ------------------------------
(***************************************************************************)
(* Open files of one inode (fs/inode_file.rs): the offset behind its       *)
(* mutex, the append flag, and read, write, their vectored and positioned  *)
(* forms, seek and set_len.  The inode itself is external: read_at,        *)
(* write_at, metadata and resize are each atomic, and nothing holds the    *)
(* inode between two of them.  Below them, the standard files              *)
(* (fs/stdio.rs): a line buffer before the host's output and a read buffer *)
(* behind its input, each with its mutex.                                  *)
(***************************************************************************)
EXTENDS Integers, Sequences, SequencesExt, FiniteSets

CONSTANTS
    IThreads,     \* threads that use the open files
    IPrograms,    \* [IThreads -> Seq(calls)], one of which runs
    OpenFiles,    \* open files of the inode
    Readable,     \* those opened for reading
    Writable,     \* those opened for writing
    FreeMutex,    \* no thread
    StdPrograms,  \* [IThreads -> Seq(calls)] on the standard files, one of which runs
    Capacity,     \* bytes in the buffers of the standard files
    Input         \* what the host's input holds, a sequence of bytes

VARIABLES
    content,    \* the inode's data, each byte marked with the call that wrote it
    offset,     \* open file -> its offset
    always_append, \* open file -> O_APPEND is among its status flags
    mutex,      \* open file -> the thread that holds the offset's mutex
    icalls,     \* thread -> the calls still to be made
    at,         \* thread -> where in its call it is: [step, pos, left, append]
    consumed,   \* history: open file -> positions read through the offset since it was last moved
    appended,   \* history: <<open file, mark>> of the bytes appended through it
    damaged     \* history: some read repeated a byte, some append destroyed one of the same open file

inodeVars == <<content, offset, always_append, mutex, icalls, at, consumed, appended, damaged>>

AtRest == [step |-> "idle", pos |-> 0, left |-> 0, append |-> FALSE]
ICall(t) == Head(icalls[t])
HasCall(t, ops) == icalls[t] # <<>> /\ ICall(t).op \in ops
Mark(t) == <<t, Len(icalls[t])>>

\* inode.write_at of one byte: what lies between the end and the position becomes a hole.
WriteAt(c, pos, mark) ==
    IF pos < Len(c) THEN [c EXCEPT ![pos + 1] = mark]
    ELSE c \o [i \in 1..(pos - Len(c)) |-> "hole"] \o <<mark>>

Returns(t) == at' = [at EXCEPT ![t] = AtRest] /\ icalls' = [icalls EXCEPT ![t] = Tail(@)]

\* A call the open file's access mode forbids (EBADF).
Forbidden(t) ==
    \/ ICall(t).op \in {"read", "pread"} /\ ICall(t).file \notin Readable
    \/ ICall(t).op \in {"write", "pwrite", "set_len"} /\ ICall(t).file \notin Writable
Refuse(t) ==
    /\ HasCall(t, {"read", "pread", "write", "pwrite", "set_len"}) /\ at[t] = AtRest
    /\ Forbidden(t) /\ Returns(t)
    /\ UNCHANGED <<content, offset, always_append, mutex, consumed, appended, damaged>>

OffsetFreeAlways(o) == TRUE
OffsetFree(o) == mutex[o] = FreeMutex

\* read and write, readv and writev lock the offset for the whole call; an appending write
\* first moves it to the end the inode then has.
LockOffset(t) ==
    /\ HasCall(t, {"read", "write"}) /\ at[t] = AtRest /\ ~Forbidden(t)
    /\ OffsetFree(ICall(t).file)
    /\ LET o == ICall(t).file
           append == ICall(t).op = "write" /\ always_append[o]
       IN /\ mutex' = [mutex EXCEPT ![o] = t]
          /\ at' = [at EXCEPT ![t] =
                       [step |-> "buf", left |-> ICall(t).bufs, append |-> append,
                        pos |-> IF append THEN Len(content) ELSE offset[o]]]
          /\ consumed' = IF append THEN [consumed EXCEPT ![o] = {}] ELSE consumed
    /\ UNCHANGED <<content, offset, always_append, icalls, appended, damaged>>

\* One buffer of write or writev; after the last one the offset is stored and unlocked.
WriteBuf(t) ==
    /\ HasCall(t, {"write"}) /\ at[t].step = "buf"
    /\ LET o == ICall(t).file
           pos == at[t].pos
           appending == at[t].append
       IN /\ content' = WriteAt(content, pos, Mark(t))
          /\ appended' = IF appending THEN appended \cup {<<o, Mark(t)>>} ELSE appended
          /\ damaged' = (damaged \/ (/\ appending /\ pos < Len(content)
                                     /\ <<o, content[pos + 1]>> \in appended))
          /\ IF at[t].left = 1
             THEN /\ Returns(t) /\ mutex' = [mutex EXCEPT ![o] = FreeMutex]
                  /\ offset' = [offset EXCEPT ![o] = pos + 1]
             ELSE /\ at' = [at EXCEPT ![t].pos = pos + 1, ![t].left = @ - 1]
                  /\ UNCHANGED <<mutex, offset, icalls>>
    /\ UNCHANGED <<always_append, consumed>>

\* One buffer of read or readv; at the end of the file it comes back empty.
ReadBuf(t) ==
    /\ HasCall(t, {"read"}) /\ at[t].step = "buf"
    /\ LET o == ICall(t).file
           pos == at[t].pos
           got == IF pos < Len(content) THEN 1 ELSE 0
       IN /\ consumed' = IF got = 1 THEN [consumed EXCEPT ![o] = @ \cup {pos}] ELSE consumed
          /\ damaged' = (damaged \/ (got = 1 /\ pos \in consumed[o]))
          /\ IF at[t].left = 1
             THEN /\ Returns(t) /\ mutex' = [mutex EXCEPT ![o] = FreeMutex]
                  /\ offset' = [offset EXCEPT ![o] = pos + got]
             ELSE /\ at' = [at EXCEPT ![t].pos = pos + got, ![t].left = @ - 1]
                  /\ UNCHANGED <<mutex, offset, icalls>>
    /\ UNCHANGED <<content, always_append, appended>>

\* pwrite and pwritev, buffer by buffer, without the offset; pread changes nothing.
PositionedBuf(t) ==
    /\ HasCall(t, {"pwrite", "pread"}) /\ ~Forbidden(t)
    /\ LET pos == ICall(t).pos + at[t].pos
       IN content' = IF ICall(t).op = "pwrite" THEN WriteAt(content, pos, Mark(t)) ELSE content
    /\ IF at[t].pos + 1 = ICall(t).bufs THEN Returns(t)
       ELSE at' = [at EXCEPT ![t].step = "buf", ![t].pos = @ + 1] /\ UNCHANGED icalls
    /\ UNCHANGED <<offset, always_append, mutex, consumed, appended, damaged>>

\* seek: a negative result is EINVAL.
seek(t) ==
    /\ HasCall(t, {"seek"}) /\ OffsetFree(ICall(t).file)
    /\ LET o == ICall(t).file
           new == CASE ICall(t).whence = "start" -> ICall(t).pos
                    [] ICall(t).whence = "end" -> Len(content) + ICall(t).pos
                    [] ICall(t).whence = "current" -> offset[o] + ICall(t).pos
       IN IF new < 0 THEN UNCHANGED <<offset, consumed>>
          ELSE /\ offset' = [offset EXCEPT ![o] = new]
               /\ consumed' = [consumed EXCEPT ![o] = {}]
    /\ Returns(t)
    /\ UNCHANGED <<content, always_append, mutex, appended, damaged>>

\* ftruncate; bytes cut off are no longer anybody's.
set_len(t) ==
    /\ HasCall(t, {"set_len"}) /\ ~Forbidden(t)
    /\ LET len == ICall(t).pos
       IN content' = IF len <= Len(content) THEN SubSeq(content, 1, len)
                     ELSE content \o [i \in 1..(len - Len(content)) |-> "hole"]
    /\ Returns(t)
    /\ UNCHANGED <<offset, always_append, mutex, consumed, appended, damaged>>

set_status_flags(t) ==
    /\ HasCall(t, {"append"})
    /\ always_append' = [always_append EXCEPT ![ICall(t).file] = ICall(t).on]
    /\ Returns(t)
    /\ UNCHANGED <<content, offset, mutex, consumed, appended, damaged>>

InodeInit ==
    /\ content = <<"hole">>
    /\ offset = [o \in OpenFiles |-> 0]
    /\ always_append = [o \in OpenFiles |-> TRUE]
    /\ mutex = [o \in OpenFiles |-> FreeMutex]
    /\ icalls \in IPrograms
    /\ at = [t \in IThreads |-> AtRest]
    /\ consumed = [o \in OpenFiles |-> {}]
    /\ appended = {} /\ damaged = FALSE

InodeNext == \E t \in IThreads :
    \/ Refuse(t) \/ LockOffset(t) \/ WriteBuf(t) \/ ReadBuf(t) \/ PositionedBuf(t)
    \/ seek(t) \/ set_len(t) \/ set_status_flags(t)

InodeSpec == InodeInit /\ [][InodeNext]_inodeVars

-----------------------------------------------------------------------------
\* Threads that share one open file share its offset exactly: none reads a byte that another
\* has read since the last seek, none appends over what another has appended.
SharedOffsetExact == ~damaged

(***************************************************************************)
(* Standard output and input.                                              *)
(***************************************************************************)
VARIABLES
    line,       \* the bytes in StdoutFile's LineWriter
    output,     \* the bytes the host's output has taken
    failed,     \* the bytes of host writes that failed
    unread,     \* the bytes in StdinFile's BufReader
    typed,      \* the bytes still in the host's input
    stdMutex,   \* "out", "in" -> the thread that holds the mutex around the buffer
    refs,       \* the processes that have StdoutFile open
    stdCalls,   \* thread -> the calls still to be made
    bufNo,      \* thread -> the buffer of its call it is at
    accepted,   \* history: the bytes reported as written, in order
    given,      \* history: [byte, by, call] for the bytes read, in order
    short       \* history: the host once took only a part of a line

stdVars == <<line, output, failed, unread, typed, stdMutex, refs, stdCalls, bufNo, accepted, given, short>>

StdCall(t) == Head(stdCalls[t])
HasStdCall(t, op) == stdCalls[t] # <<>> /\ StdCall(t).op = op
StdReturns(t) == stdCalls' = [stdCalls EXCEPT ![t] = Tail(@)] /\ bufNo' = [bufNo EXCEPT ![t] = 1]
Least2(a, b) == IF a < b THEN a ELSE b
\* A buffer of a write is given by which of its bytes are newlines.
BytesOf(t) ==
    LET b == StdCall(t).bufs[bufNo[t]]
    IN [i \in 1..Len(b) |-> [by |-> t, call |-> Len(stdCalls[t]), buf |-> bufNo[t], at |-> i, nl |-> b[i]]]

\* StdoutRaw::write: the host takes some bytes, or fails, which is reported as if it took all.
RawWrites(b) ==
    {[n |-> k, taken |-> SubSeq(b, 1, k), failed |-> {}] : k \in 1..Len(b)}
    \cup {[n |-> Len(b), taken |-> <<>>, failed |-> Range(b)]}

\* Flushing repeats it until no byte is left, so all bytes from the first failure on are gone.
Flushes(b) ==
    {[taken |-> SubSeq(b, 1, k), failed |-> Range(SubSeq(b, k + 1, Len(b)))] : k \in 0..Len(b)}

\* LineWriter::write, of which n bytes are written: without a newline the bytes join the buffer,
\* which is flushed first if it ends a line or has no room; otherwise it is flushed, the lines
\* go to the host, and what the host leaves of them, or what follows them, is buffered.
BufferBytes(b, n) ==
    LET full == (line # <<>> /\ Last(line).nl) \/ Len(line) + Len(b) > Capacity
    IN \E f \in IF full THEN Flushes(line) ELSE {[taken |-> <<>>, failed |-> {}]} :
         IF Len(b) >= Capacity
         THEN \E w \in RawWrites(b) :
                 /\ n = w.n /\ line' = <<>>
                 /\ output' = output \o f.taken \o w.taken /\ failed' = failed \cup f.failed \cup w.failed
         ELSE /\ n = Len(b) /\ line' = (IF full THEN <<>> ELSE line) \o b
              /\ output' = output \o f.taken /\ failed' = failed \cup f.failed
WriteLines(b, end, n) ==
    \E f \in Flushes(line), w \in RawWrites(SubSeq(b, 1, end)) :
        LET rest == IF w.n = end THEN SubSeq(b, end + 1, Len(b)) ELSE SubSeq(b, w.n + 1, end)
            kept == SubSeq(rest, 1, Least2(Len(rest), Capacity))
        IN /\ n = w.n + Len(kept) /\ line' = kept
           /\ output' = output \o f.taken \o w.taken /\ failed' = failed \cup f.failed \cup w.failed
           /\ short' = (short \/ w.n < end)
LineWrite(b, n) ==
    LET newlines == {i \in 1..Len(b) : b[i].nl}
    IN IF newlines = {} THEN BufferBytes(b, n) /\ UNCHANGED short
       ELSE \E end \in newlines : (\A i \in newlines : i <= end) /\ WriteLines(b, end, n)

\* StdoutFile::write and writev: one buffer after the other, under the mutex, up to the first
\* that is not written whole.
LockOut(t) ==
    /\ HasStdCall(t, "write") /\ stdMutex["out"] = FreeMutex
    /\ stdMutex' = [stdMutex EXCEPT !["out"] = t]
    /\ UNCHANGED <<line, output, failed, unread, typed, refs, stdCalls, bufNo, accepted, given, short>>
writev(t) ==
    /\ HasStdCall(t, "write") /\ stdMutex["out"] = t
    /\ LET b == BytesOf(t)
       IN \E n \in 0..Len(b) :
            /\ LineWrite(b, n)
            /\ accepted' = accepted \o SubSeq(b, 1, n)
            /\ IF n < Len(b) \/ bufNo[t] = Len(StdCall(t).bufs)
               THEN StdReturns(t) /\ stdMutex' = [stdMutex EXCEPT !["out"] = FreeMutex]
               ELSE bufNo' = [bufNo EXCEPT ![t] = @ + 1] /\ UNCHANGED <<stdCalls, stdMutex>>
    /\ UNCHANGED <<unread, typed, refs, given>>

FlushLine ==
    \E f \in Flushes(line) : line' = <<>> /\ output' = output \o f.taken /\ failed' = failed \cup f.failed
sync_data(t) ==
    /\ HasStdCall(t, "sync") /\ stdMutex["out"] = FreeMutex
    /\ FlushLine /\ StdReturns(t)
    /\ UNCHANGED <<unread, typed, stdMutex, refs, accepted, given, short>>

\* The last process to close StdoutFile drops its LineWriter, which flushes it.
CloseOut(t) ==
    /\ HasStdCall(t, "close") /\ refs' = refs - 1
    /\ IF refs = 1 THEN FlushLine ELSE UNCHANGED <<line, output, failed>>
    /\ StdReturns(t)
    /\ UNCHANGED <<unread, typed, stdMutex, accepted, given, short>>

\* StdinRaw::read: an error of the host reads as the end of the input.
RawReads(n) == {SubSeq(typed, 1, k) : k \in 0..Least2(n, Len(typed))}

\* BufReader::read of size bytes: from the buffer, which is filled if it is empty, or past it.
BufRead(size, got) ==
    IF unread # <<>>
    THEN /\ got = SubSeq(unread, 1, Least2(size, Len(unread)))
         /\ unread' = SubSeq(unread, Len(got) + 1, Len(unread)) /\ UNCHANGED typed
    ELSE \E r \in RawReads(IF size >= Capacity THEN size ELSE Capacity) :
            /\ typed' = SubSeq(typed, Len(r) + 1, Len(typed))
            /\ got = SubSeq(r, 1, Least2(size, Len(r)))
            /\ unread' = SubSeq(r, Len(got) + 1, Len(r))

\* StdinFile::read and readv, up to the first buffer that is not filled.
LockIn(t) ==
    /\ HasStdCall(t, "read") /\ stdMutex["in"] = FreeMutex
    /\ stdMutex' = [stdMutex EXCEPT !["in"] = t]
    /\ UNCHANGED <<line, output, failed, unread, typed, refs, stdCalls, bufNo, accepted, given, short>>
readv(t) ==
    /\ HasStdCall(t, "read") /\ stdMutex["in"] = t
    /\ LET size == StdCall(t).bufs[bufNo[t]]
       IN \E got \in UNION {{SubSeq(s, 1, k) : k \in 0..Least2(size, Len(s))} : s \in {unread, typed}} :
            /\ BufRead(size, got)
            /\ given' = given \o [i \in 1..Len(got) |-> [byte |-> got[i], by |-> t, call |-> Len(stdCalls[t])]]
            /\ IF Len(got) < size \/ bufNo[t] = Len(StdCall(t).bufs)
               THEN StdReturns(t) /\ stdMutex' = [stdMutex EXCEPT !["in"] = FreeMutex]
               ELSE bufNo' = [bufNo EXCEPT ![t] = @ + 1] /\ UNCHANGED <<stdCalls, stdMutex>>
    /\ UNCHANGED <<line, output, failed, refs, accepted, short>>

StdInit ==
    /\ line = <<>> /\ output = <<>> /\ failed = {} /\ unread = <<>> /\ typed = Input
    /\ stdMutex = [f \in {"out", "in"} |-> FreeMutex]
    /\ stdCalls \in StdPrograms
    /\ refs = Cardinality({t \in IThreads : \E i \in 1..Len(stdCalls[t]) : stdCalls[t][i].op = "close"})
    /\ bufNo = [t \in IThreads |-> 1]
    /\ accepted = <<>> /\ given = <<>> /\ short = FALSE

StdNext == \E t \in IThreads :
    LockOut(t) \/ writev(t) \/ sync_data(t) \/ CloseOut(t) \/ LockIn(t) \/ readv(t)

-----------------------------------------------------------------------------
\* What one call passes stays together.
Together(s) ==
    \A i, k \in 1..Len(s) : i < k /\ s[i].by = s[k].by /\ s[i].call = s[k].call =>
        \A j \in i..k : s[j].by = s[i].by /\ s[j].call = s[i].call

\* The standard files keep the order of the calls: all that was reported as written, and not lost
\* to a failing host, is in the output or waits in the buffer, a vectored call in one piece; a
\* line waits only if the host took a part of it, and nothing waits once the last process has
\* closed the file.  What was read, what is buffered and what is left are the input.
StdioExact ==
    /\ SelectSeq(accepted, LAMBDA b : b \notin failed) = output \o line
    /\ Together(accepted) /\ Together(given)
    /\ (\E i \in 1..Len(line) : line[i].nl) => short
    /\ refs = 0 => line = <<>>
    /\ [i \in 1..Len(given) |-> given[i].byte] \o unread \o typed = Input
=============================================================================
