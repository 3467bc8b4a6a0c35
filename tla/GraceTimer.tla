----------------------------- MODULE GraceTimer -----------------------------
(***************************************************************************)
(* The wait of terminateContainer for one container, from the SIGTERM on:  *)
(* a select over a 500 ms ticker, time.After(timeout) and ctx.Done(), with *)
(* discrete time.                                                          *)
(*                                                                         *)
(* time.After is an operand of the select, so every iteration of the loop  *)
(* arms a new timer for the whole grace period.  The ticker's channel      *)
(* holds one tick and drops the next.  The goroutine runs at most MaxLag   *)
(* after an operand has become ready, less than a tick period, and picks   *)
(* any ready operand; it then goes on without delay until it blocks.       *)
(***************************************************************************)
EXTENDS Naturals

CONSTANTS
  TickPeriod,  \* 500 ms, in units of the model's clock
  MaxLag,      \* scheduling delay of the waiting goroutine, at most
  Graces,      \* grace periods a caller may ask for
  Deadlines,   \* what a context may have left at the SIGTERM, 0 for no deadline
  MaxTime      \* where the clocks that only the properties read stop

ASSUME ClockAssumption ==
  /\ TickPeriod \in Nat /\ MaxLag \in Nat /\ MaxTime \in Nat
  /\ MaxLag < TickPeriod
  /\ Graces \subseteq Nat /\ Deadlines \subseteq Nat

VARIABLES
  pc,         \* "select", or how the wait ended
  proc,       \* the container's main program
  tickLeft,   \* time until the ticker fires
  ticks,      \* ticks in the ticker's channel, which holds one
  grace,      \* the grace period asked for
  graceLeft,  \* time until the timer armed last fires
  deadline,   \* the context's deadline, 0 for none
  ctxLeft,    \* time until it
  late,       \* for how long the goroutine has been ready and has not run
  elapsed,    \* time since the SIGTERM, for the properties
  since       \* time since the exit was recorded, for the properties

operands == <<tickLeft, ticks, graceLeft, ctxLeft>>
clocks == <<elapsed, since>>
vars == <<pc, proc, operands, grace, deadline, late, clocks>>

Init ==
  /\ pc = "select" /\ proc = "alive"
  /\ tickLeft = TickPeriod /\ ticks = 0
  /\ grace \in Graces /\ graceLeft = grace
  /\ deadline \in Deadlines /\ ctxLeft = deadline
  /\ late = 0 /\ elapsed = 0 /\ since = 0

\* An operator Wrong_X is no part of the specification: it is X with a plausible
\* bug, and a property that is listed for it fails when it takes X's place.
timedOut == graceLeft = 0

Wrong_done == deadline # 0 /\ ctxLeft = 0 /\ ticks = 1
done == deadline # 0 /\ ctxLeft = 0

ready == ticks = 1 \/ timedOut \/ done

plus1(n) == IF n < MaxTime THEN n + 1 ELSE n
minus1(n) == IF n = 0 THEN 0 ELSE n - 1

\* Time passes for a goroutine that is blocked, or ready and not running yet.
TimePasses ==
  /\ pc = "select"
  /\ ready => late < MaxLag
  /\ late' = IF ready THEN late + 1 ELSE 0
  /\ tickLeft' = IF tickLeft = 1 THEN TickPeriod ELSE tickLeft - 1
  /\ ticks' = IF tickLeft = 1 THEN 1 ELSE ticks
  /\ graceLeft' = minus1(graceLeft)
  /\ ctxLeft' = minus1(ctxLeft)
  /\ elapsed' = plus1(elapsed)
  /\ since' = IF proc = "recorded" THEN plus1(since) ELSE 0
  /\ UNCHANGED <<pc, proc, grace, deadline>>

Wrong_rearm(left, timeout) == left
rearm(left, timeout) == timeout

\* case <-tick.C: reads the record; the loop's next select arms a new timer.
SelectTick ==
  /\ pc = "select" /\ ticks = 1
  /\ ticks' = 0
  /\ UNCHANGED <<proc, tickLeft, ctxLeft, grace, deadline, clocks>>
  /\ \/ /\ proc = "recorded"
        /\ pc' = "exited"
        /\ UNCHANGED <<graceLeft, late>>
     \/ /\ proc # "recorded"
        /\ graceLeft' = rearm(graceLeft, grace)
        /\ late' = IF ready' THEN late ELSE 0
        /\ UNCHANGED pc

SigKill == proc' = IF proc = "alive" THEN "dead" ELSE proc

\* case <-time.After(timeout)
SelectTimeout ==
  /\ pc = "select" /\ timedOut
  /\ SigKill
  /\ pc' = "killed"
  /\ UNCHANGED <<operands, grace, deadline, late, clocks>>

\* case <-ctx.Done()
SelectDone ==
  /\ pc = "select" /\ done
  /\ SigKill
  /\ pc' = "cancelled"
  /\ UNCHANGED <<operands, grace, deadline, late, clocks>>

\* The program ends by itself, or the tracker records that it has.
ProcExits ==
  /\ proc = "alive"
  /\ proc' = "dead"
  /\ UNCHANGED <<pc, operands, grace, deadline, late, clocks>>

ExitRecorded ==
  /\ proc = "dead"
  /\ proc' = "recorded"
  /\ UNCHANGED <<pc, operands, grace, deadline, late, clocks>>

Next ==
  \/ TimePasses
  \/ SelectTick \/ SelectTimeout \/ SelectDone
  \/ ProcExits \/ ExitRecorded

Spec == Init /\ [][Next]_vars

-----------------------------------------------------------------------------
\* Every clock is a natural number and the rest is of its type.
TypeOK ==
  /\ pc \in {"select", "exited", "killed", "cancelled"}
  /\ proc \in {"alive", "dead", "recorded"}
  /\ tickLeft \in 1..TickPeriod /\ ticks \in 0..1
  /\ grace \in Graces /\ graceLeft \in 0..grace
  /\ deadline \in Deadlines /\ ctxLeft \in 0..deadline
  /\ late \in 0..MaxLag
  /\ elapsed \in Nat /\ since \in Nat

\* The grace period of a second or more that a caller asks for never runs
\* out: a tick always comes first and the timer starts again.
GraceNeverExpires == grace > TickPeriod + MaxLag => pc # "killed"

\* A caller whose context has a deadline is answered by then, however the
\* ticks and the timers fall.
DeadlineKept ==
  pc = "select" /\ deadline # 0 => elapsed <= deadline + MaxLag

\* Without a grace period (RemoveContainer, RemovePodSandbox) the program is
\* killed at once.
NoGraceKept == pc = "select" /\ grace = 0 => elapsed <= MaxLag

\* An exit that has been recorded ends the wait within one tick period.
ExitSeen == pc = "select" => since <= TickPeriod + MaxLag

\* However the ticks, the timers and the delays fall, the wait is over in time
\* after whichever comes first: the deadline, a grace period of zero, the exit.
EndsInTime == DeadlineKept /\ NoGraceKept /\ ExitSeen
=============================================================================
