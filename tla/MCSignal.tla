------------------------------ MODULE MCSignal ------------------------------
(***************************************************************************)
(* Instances of Signal for TLC.  Signal 1 is SIGKILL, the others below     *)
(* NumStd are standard signals with fatal default action, such as SIGTERM  *)
(* or SIGSEGV; the rest are real-time signals.                             *)
(***************************************************************************)
EXTENDS Signal, TLC

CONSTANTS t1, t2, p

KillOnly == {1}
AllFatal == Sigs

\* Handlers ask for SIGKILL to be blocked, which is ignored; that of 2 blocks 3.
BlockingHandlers == [s \in Sigs |-> IF s = 2 THEN {1, 3} ELSE {1}]
PlainHandlers == [s \in Sigs |-> {}]

\* t2 starts with the real-time signal blocked, so that it can wait for it.
OneBlocks == [t \in Threads |-> IF t = t2 THEN {3} ELSE {}]
AllBlocked == [t \in Threads |-> Sigs]

SomeActions == {<<2, "ign">>}

SomeMasks == {{1, 3}}
BlockAll == {Sigs}

\* One thread changes masks and faults, or changes dispositions, while the other waits.
MasksAndWaits ==
    {t1 :> {"sigprocmask", "fault"} @@ t2 :> {"sigtimedwait", "timeout"},
     t1 :> {"sigaction", "fault"} @@ t2 :> {"pselect", "sigsuspend"},
     t1 :> {"sigreturn"} @@ t2 :> {"sigsuspend", "fault"},
     t1 :> {"ucontext", "fault"} @@ t2 :> {"sigsuspend"},
     t1 :> {"no_stack", "wait4"} @@ t2 :> {"vfork"}}
Waiters == {[t \in Threads |-> {"sigtimedwait"}]}
Selecting == {[t \in Threads |-> {"pselect", "pselect_invalid"}]}
=============================================================================
