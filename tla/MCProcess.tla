----------------------------- MODULE MCProcess -----------------------------
(* Instances of Process for TLC.                                           *)
EXTENDS Process

\* Only the main thread waits: for the child it names, or for those of its group.
MainWaits ==
    [i \in 1 .. MaxThread |->
        IF i = 1 THEN {[by |-> "pid", id |-> 2], [by |-> "pgid", id |-> 1]} ELSE {}]

\* Two threads wait for any child.
AllWait == [i \in 1 .. MaxThread |-> {AnyPid}]
=============================================================================
