-------------------------------- MODULE Clock --------------------------------
(***************************************************************************)
(* The time (crates/vdso-time, time/mod.rs): a thread reads the host       *)
(* kernel's vDSO page without leaving the enclave.  The page has a         *)
(* sequence number, odd while the kernel rewrites it; what was read        *)
(* between two equal even numbers is one state of the clock, and the time  *)
(* is its base plus the TSC cycles since, scaled.  Before its first use    *)
(* the page is compared with the host's answers, and an OCALL is made      *)
(* instead if they disagree, or if the page cannot tell a clock.           *)
(*                                                                         *)
(* The host kernel is external: its timekeeper, and the copy it publishes  *)
(* field by field.  Loads and stores happen in program order, as x86 keeps *)
(* them.  A duration is one number of nanoseconds here, with NanosPerSec   *)
(* of them to a second; the page's seconds and shifted nanoseconds are     *)
(* kept apart.                                                             *)
(***************************************************************************)
EXTENDS Integers, Sequences, FiniteSets, FiniteSetsExt

CONSTANTS
    ClockScenarios,  \* kernel ("V4", "V5_0" or "V5_3"), IS_ENABLE_VDSO, VDSO and the calls to come
    Checked,         \* the clocks check_accuracy compares, in order
    MaxTsc,          \* bound on the TSC
    MaxPeriod,       \* the kernel updates its page at least every so many cycles
    Mults,           \* multipliers the kernel may choose, and the one it begins with
    FirstMult,
    RawMult,         \* the multiplier of CLOCK_MONOTONIC_RAW
    Shift,
    NanosPerSec,
    U32Range,        \* 2^32
    Boot,            \* the time since boot at which the model begins, shifted
    Skew,            \* how far the TSC of another socket may be behind
    MaxInaccuracy,   \* MAX_INACCURACY
    MaxRetry         \* MAX_RETRY_NUM

VARIABLES
    version, enabled,   \* the host's kernel, and IS_ENABLE_VDSO
    tsc,
    keeper,             \* the kernel's timekeeper: mode, cycle_last, mult, mono and raw
    seq, page,          \* the page: seq, and the fields
    unwritten,          \* fields the update in progress has still to write
    vdso,               \* VDSO: "lazy", "some" or "none"
    check,              \* check_accuracy: the clock and the number of the try
    rd,                 \* the thread: pc, clock, seq and fields read, and the answer
    nap,                \* the thread's sleep: flags, request, deadline and the first one, remainder
    todoCalls           \* the calls the thread has still to make

clockVars == <<version, enabled, tsc, keeper, seq, page, unwritten, vdso, check, rd, nap, todoCalls>>

Unit == 2^Shift
Even(n) == n % 2 = 0
Clocks == {"MONOTONIC", "COARSE", "RAW"}

-----------------------------------------------------------------------------
\* The host kernel.
Advanced(k) == [k EXCEPT !.mono = @ + (tsc - k.cycle_last) * k.mult,
                         !.raw = @ + (tsc - k.cycle_last) * RawMult, !.cycle_last = tsc]
Base(k, c) == IF c = "RAW" THEN k.raw ELSE k.mono

\* What the kernel publishes of its timekeeper.  Up to 5.2 it keeps no base for the raw clock.
Whole(name) == <<name, "page">>
Written == <<Whole("mode"), Whole("cycle_last"), Whole("mult"), <<"sec", "MONOTONIC">>,
             <<"nsec", "MONOTONIC">>, <<"sec", "COARSE">>, <<"nsec", "COARSE">>, <<"sec", "RAW">>,
             <<"nsec", "RAW">> >>
Fields == {Written[i] : i \in 1..Len(Written)}
Published(k) ==
    [f \in Fields |->
        IF f[2] = "page" THEN k[f[1]]
        ELSE LET base == IF f[2] = "RAW" /\ version # "V5_3" THEN 0 ELSE Base(k, f[2])
                 nsec == base % (NanosPerSec * Unit)
             IN IF f[1] = "sec" THEN base \div (NanosPerSec * Unit)
                ELSE IF f[2] = "COARSE" THEN nsec \div Unit ELSE nsec]

\* The time the host tells for a clock, now.
HostTime(c) == IF c = "COARSE" THEN keeper.mono \div Unit ELSE Base(Advanced(keeper), c) \div Unit

Tick ==
    /\ tsc < MaxTsc /\ tsc - keeper.cycle_last < MaxPeriod
    /\ tsc' = tsc + 1
    /\ UNCHANGED <<version, enabled, keeper, seq, page, unwritten, vdso, check, rd, nap, todoCalls>>

\* The kernel gives the TSC up once it finds it unreliable; set to, it takes it again.
BeginUpdate(modes) ==
    /\ Even(seq) /\ tsc > keeper.cycle_last
    /\ \E m \in Mults, mode \in modes :
          keeper' = [Advanced(keeper) EXCEPT !.mult = m, !.mode = mode]
    /\ seq' = seq + 1
    /\ LET Changed(f) == Published(keeper')[f] # page[f]
       IN unwritten' = SelectSeq(Written, Changed)
    /\ UNCHANGED <<version, enabled, tsc, page, vdso, check, rd, nap, todoCalls>>

WriteField ==
    /\ unwritten # <<>>
    /\ page' = [page EXCEPT ![Head(unwritten)] = Published(keeper)[Head(unwritten)]]
    /\ unwritten' = Tail(unwritten)
    /\ UNCHANGED <<version, enabled, tsc, keeper, seq, vdso, check, rd, nap, todoCalls>>

EndUpdate ==
    /\ ~Even(seq) /\ unwritten = <<>>
    /\ seq' = seq + 1
    /\ UNCHANGED <<version, enabled, tsc, keeper, page, unwritten, vdso, check, rd, nap, todoCalls>>

-----------------------------------------------------------------------------
\* Vdso::do_clock_gettime
IsHres(c) == c # "COARSE"
Needed(c) ==
    (IF IsHres(c) THEN <<Whole("mode"), Whole("cycles"), Whole("cycle_last"), Whole("mult")>> ELSE <<>>)
      \o << <<"sec", c>>, <<"nsec", c>> >>

\* What the structures of the page's layout cannot tell: up to 4.19 they have no such member.
NoMember(f) == version = "V4" /\ f \in {<<"sec", "RAW">>, <<"nsec", "RAW">>}

\* The multiplier of the raw clock is in a page of its own since 5.3 (vdso_data).
PageValue(f, c) == IF f[1] = "mult" /\ c = "RAW" /\ version = "V5_3" THEN RawMult ELSE page[f]

Quiet == [pc |-> "idle", clock |-> "MONOTONIC", seq |-> 0, seen |-> <<>>, lo |-> 0, time |-> 0]

Called(call) ==
    /\ rd.pc = "idle" /\ nap.flags = "awake" /\ todoCalls # <<>> /\ Head(todoCalls) = call
    /\ todoCalls' = Tail(todoCalls)

\* clock_gettime; the first call makes VDSO, and so checks the page.
Asks(c) ==
    LET behind == IF IsHres(c) THEN Skew * Max(Mults \cup {FirstMult, RawMult}) ELSE 0
    IN [Quiet EXCEPT !.clock = c, !.lo = HostTime(c) - behind]
do_clock_gettime(c) ==
    /\ Called([op |-> "get", clock |-> c])
    /\ rd' = [Asks(c) EXCEPT !.pc = IF ~enabled \/ vdso = "none" THEN "slow"
                                    ELSE IF vdso = "lazy" THEN "check" ELSE "seq"]
    /\ UNCHANGED <<version, enabled, tsc, keeper, seq, page, unwritten, vdso, check, nap>>

Asking(c) == IF vdso = "lazy" THEN Checked[check.clock] ELSE c

CheckNext ==
    /\ rd.pc = "check"
    /\ IF check.clock > Len(Checked)
       THEN vdso' = "some" /\ rd' = [rd EXCEPT !.pc = "seq"]
       ELSE rd' = [rd EXCEPT !.pc = "seq"] /\ UNCHANGED vdso
    /\ UNCHANGED <<version, enabled, tsc, keeper, seq, page, unwritten, check, nap, todoCalls>>

\* An odd number is read again.
ReadSeq ==
    /\ rd.pc = "seq" /\ Even(seq)
    /\ rd' = [rd EXCEPT !.pc = "fields", !.seq = seq, !.seen = <<>>]
    /\ UNCHANGED <<version, enabled, tsc, keeper, seq, page, unwritten, vdso, check, nap, todoCalls>>

\* The error of a field that cannot be read: the OCALL instead, or the next clock to check.
GivesUp ==
    IF vdso = "lazy" THEN /\ check' = [clock |-> check.clock + 1, try |-> 0]
                          /\ rd' = [rd EXCEPT !.pc = "check"]
    ELSE rd' = [rd EXCEPT !.pc = "slow"] /\ UNCHANGED check

Loaded(f) ==
    IF f = Whole("cycles") THEN {tsc, IF tsc >= Skew THEN tsc - Skew ELSE 0}
    ELSE {PageValue(f, Asking(rd.clock))}
ReadField ==
    /\ rd.pc = "fields" /\ Len(rd.seen) < Len(Needed(Asking(rd.clock)))
    /\ LET f == Needed(Asking(rd.clock))[Len(rd.seen) + 1]
       IN IF (f = Whole("mode") /\ page[f] # "TSC") \/ NoMember(f) THEN GivesUp
          ELSE (\E v \in Loaded(f) : rd' = [rd EXCEPT !.seen = Append(@, v)]) /\ UNCHANGED check
    /\ UNCHANGED <<version, enabled, tsc, keeper, seq, page, unwritten, vdso, nap, todoCalls>>

\* The duration, from what was read: the sum is a u64, its nanoseconds a u32.
Elapsed(cycles, cycle_last, mult) == IF cycles > cycle_last THEN (cycles - cycle_last) * mult ELSE 0
Duration(s, c) ==
    IF IsHres(c) THEN s[5] * NanosPerSec + (((s[6] + Elapsed(s[2], s[3], s[4])) \div Unit) % U32Range)
    ELSE s[1] * NanosPerSec + (s[2] % U32Range)

ReadOnce(old_seq) == FALSE
vdso_read_retry(old_seq) == old_seq # seq
ReadAgain ==
    /\ rd.pc = "fields" /\ Len(rd.seen) = Len(Needed(Asking(rd.clock)))
    /\ IF vdso_read_retry(rd.seq) THEN rd' = [rd EXCEPT !.pc = "seq", !.seen = <<>>]
       ELSE rd' = [rd EXCEPT !.pc = IF vdso = "lazy" THEN "compare" ELSE "done", !.seen = <<>>,
                             !.time = Duration(rd.seen, Asking(rd.clock))]
    /\ UNCHANGED <<version, enabled, tsc, keeper, seq, page, unwritten, vdso, check, nap, todoCalls>>

\* check_accuracy: the host's answer is later, but not much, or the try is repeated.
check_accuracy ==
    /\ rd.pc = "compare"
    /\ LET off == HostTime(Checked[check.clock]) - rd.time
       IN IF off < 0 \/ (off > MaxInaccuracy /\ check.try = MaxRetry - 1)
          THEN vdso' = "none" /\ rd' = [rd EXCEPT !.pc = "slow"] /\ UNCHANGED check
          ELSE /\ check' = IF off > MaxInaccuracy THEN [check EXCEPT !.try = @ + 1]
                           ELSE [clock |-> check.clock + 1, try |-> 0]
               /\ rd' = [rd EXCEPT !.pc = "check"]
               /\ UNCHANGED vdso
    /\ UNCHANGED <<version, enabled, tsc, keeper, seq, page, unwritten, nap, todoCalls>>

clock_gettime_slow ==
    /\ rd.pc = "slow"
    /\ rd' = [rd EXCEPT !.pc = "done", !.time = HostTime(rd.clock)]
    /\ UNCHANGED <<version, enabled, tsc, keeper, seq, page, unwritten, vdso, check, nap, todoCalls>>

Answered ==
    /\ rd.pc = "done" /\ rd' = Quiet
    /\ UNCHANGED <<version, enabled, tsc, keeper, seq, page, unwritten, vdso, check, nap, todoCalls>>

-----------------------------------------------------------------------------
\* do_clock_nanosleep, relative or TIMER_ABSTIME, in cycles.  A program whose sleep is
\* interrupted calls again, with the remainder unless the time is absolute.
Awake == [flags |-> "awake", again |-> FALSE, req |-> 0, deadline |-> 0, first |-> 0, rem |-> 0]
Deadline(flags, req) == IF flags = "relative" THEN tsc + req ELSE req
do_clock_nanosleep(flags, req) ==
    /\ Called([op |-> "sleep", flags |-> flags, req |-> req])
    /\ nap' = [flags |-> flags, again |-> FALSE, req |-> req, deadline |-> Deadline(flags, req),
               first |-> Deadline(flags, req), rem |-> 0]
    /\ UNCHANGED <<version, enabled, tsc, keeper, seq, page, unwritten, vdso, check, rd>>

Sleeping == nap.flags \in {"relative", "absolute"} /\ ~nap.again
Remainder(d) == IF d > tsc THEN d - tsc ELSE 0
KeepRem(flags, r) == 0
WriteRem(flags, r) == IF flags = "relative" THEN r ELSE 0
Interrupted ==
    /\ Sleeping /\ tsc < nap.deadline
    /\ nap' = [nap EXCEPT !.again = TRUE, !.rem = WriteRem(nap.flags, Remainder(nap.deadline))]
    /\ UNCHANGED <<version, enabled, tsc, keeper, seq, page, unwritten, vdso, check, rd, todoCalls>>

SleepsAgain ==
    /\ nap.again
    /\ LET req == IF nap.flags = "relative" THEN nap.rem ELSE nap.req
       IN nap' = [nap EXCEPT !.again = FALSE, !.req = req, !.deadline = Deadline(nap.flags, req)]
    /\ UNCHANGED <<version, enabled, tsc, keeper, seq, page, unwritten, vdso, check, rd, todoCalls>>

Slept ==
    /\ Sleeping /\ tsc >= nap.deadline
    /\ nap' = [nap EXCEPT !.flags = "slept"]
    /\ UNCHANGED <<version, enabled, tsc, keeper, seq, page, unwritten, vdso, check, rd, todoCalls>>
Wakes ==
    /\ nap.flags = "slept" /\ nap' = Awake
    /\ UNCHANGED <<version, enabled, tsc, keeper, seq, page, unwritten, vdso, check, rd, todoCalls>>

ClockInit ==
    /\ \E s \in ClockScenarios :
          version = s.version /\ enabled = s.enabled /\ vdso = s.vdso /\ todoCalls = s.calls
    /\ tsc = 1
    /\ keeper = [mode |-> "TSC", cycle_last |-> 1, mult |-> FirstMult, mono |-> Boot, raw |-> Boot]
    /\ seq = 0 /\ page = Published(keeper)
    /\ unwritten = <<>>
    /\ check = [clock |-> 1, try |-> 0]
    /\ rd = Quiet /\ nap = Awake

ReadStep ==
    \/ \E c \in Clocks : do_clock_gettime(c)
    \/ CheckNext \/ ReadSeq \/ ReadField \/ ReadAgain \/ check_accuracy \/ clock_gettime_slow \/ Answered
SleepStep ==
    \/ \E flags \in {"relative", "absolute"}, req \in 1..MaxTsc : do_clock_nanosleep(flags, req)
    \/ Interrupted \/ SleepsAgain \/ Slept \/ Wakes
KernelStep(modes) == Tick \/ BeginUpdate(modes) \/ WriteField \/ EndUpdate

ClockNext == ReadStep \/ SleepStep \/ KernelStep({keeper.mode, "OTHER"})
ReturningNext == ReadStep \/ KernelStep({"TSC", "OTHER"})

-----------------------------------------------------------------------------
\* The time a call tells is one the host's clock had while the call ran, whatever of the page
\* was rewritten meanwhile and whichever way the time was got (short of it by no more than the
\* TSCs of two sockets differ).
TimeTold == rd.pc = "done" => rd.lo <= rd.time /\ rd.time <= HostTime(rd.clock)

\* No sleep, however often it is interrupted and taken up again, ends before the time first
\* asked for.
SleptEnough == nap.flags = "slept" => tsc >= nap.first
=============================================================================
