-------------------------- MODULE GraceTimerProofs --------------------------
(***************************************************************************)
(* GraceTimer for any tick period, scheduling delay below it, grace        *)
(* periods and deadlines.                                                  *)
(***************************************************************************)
EXTENDS GraceTimer, TLAPS

\* The timer was armed no earlier than the last tick but one: its age is
\* bounded by the time since the last tick, or by a period and the delay
\* when that tick has not been consumed yet.
TimerYoung ==
  pc = "select" =>
    /\ ticks = 1 => grace - graceLeft <= TickPeriod + late
    /\ ticks = 0 => grace - graceLeft <= TickPeriod - tickLeft

\* The deadline is still to come, or has been ready for as long as it is past.
DeadlineAhead ==
  pc = "select" /\ deadline # 0 =>
    /\ ctxLeft > 0 => elapsed + ctxLeft <= deadline
    /\ ctxLeft = 0 => elapsed <= deadline + late

\* With no grace period the goroutine has been ready from the start.
ReadyFromStart == pc = "select" /\ grace = 0 => elapsed <= late

\* The exit was recorded after the tick that did not see it.
ExitFresh ==
  /\ proc # "recorded" => since = 0
  /\ pc = "select" =>
       /\ ticks = 1 => since <= TickPeriod + late
       /\ ticks = 0 => since <= TickPeriod - tickLeft

Inv ==
  /\ TypeOK
  /\ TimerYoung /\ GraceNeverExpires
  /\ DeadlineAhead
  /\ ReadyFromStart
  /\ ExitFresh

-----------------------------------------------------------------------------
\* The SIGTERM has just been sent: every clock starts.
LEMMA InvInit == Init => Inv
<1> SUFFICES ASSUME Init PROVE Inv  OBVIOUS
<1>1. grace \in Nat /\ deadline \in Nat
  BY ClockAssumption DEF Init
<1> QED
  BY <1>1, ClockAssumption DEF Init, Inv, TypeOK, TimerYoung, GraceNeverExpires, DeadlineAhead,
     ReadyFromStart, ExitFresh

\* No tick, timer, signal or passing of time breaks what Inv says of the clocks.
LEMMA InvStep == Inv /\ [Next]_vars => Inv'
<1> SUFFICES ASSUME Inv, [Next]_vars PROVE Inv'  OBVIOUS
<1> USE ClockAssumption
<1>a. grace \in Nat /\ deadline \in Nat
  BY DEF Inv, TypeOK
<1>1. ASSUME TimePasses PROVE Inv'
  <2> USE <1>a, <1>1 DEF TimePasses, minus1, plus1, ready, Inv
  <2>1. TypeOK'
    BY DEF TypeOK
  <2>2. TimerYoung'
    BY DEF TypeOK, TimerYoung
  <2>3. GraceNeverExpires'
    BY DEF GraceNeverExpires
  <2>4. DeadlineAhead'
    BY DEF TypeOK, DeadlineAhead, done
  <2>5. ReadyFromStart'
    BY DEF TypeOK, ReadyFromStart, timedOut
  <2>6. ExitFresh'
    BY DEF TypeOK, ExitFresh
  <2> QED  BY <2>1, <2>2, <2>3, <2>4, <2>5, <2>6
<1>2. ASSUME SelectTick PROVE Inv'
  <2> USE <1>a, <1>2 DEF SelectTick, rearm, clocks, Inv
  <2>1. TypeOK'
    BY DEF TypeOK
  <2>2. TimerYoung'
    BY DEF TypeOK, TimerYoung
  <2>3. GraceNeverExpires'
    BY DEF GraceNeverExpires
  <2>4. DeadlineAhead'
    BY DEF TypeOK, DeadlineAhead, ready, done
  <2>5. ReadyFromStart'
    BY DEF TypeOK, ReadyFromStart, ready, timedOut
  <2>6. ExitFresh'
    BY DEF TypeOK, ExitFresh
  <2> QED  BY <2>1, <2>2, <2>3, <2>4, <2>5, <2>6
<1>3. ASSUME SelectTimeout \/ SelectDone PROVE Inv'
  <2>1. /\ pc' \in {"killed", "cancelled"} /\ proc' \in {"alive", "dead", "recorded"}
        /\ proc' = "recorded" <=> proc = "recorded"
        /\ UNCHANGED <<operands, grace, deadline, late, clocks>>
    BY <1>3 DEF SelectTimeout, SelectDone, SigKill, Inv, TypeOK
  <2>2. pc' = "killed" => pc = "select" /\ graceLeft = 0
    BY <1>3 DEF SelectTimeout, SelectDone, timedOut
  <2>3. GraceNeverExpires'
    BY <1>a, <2>1, <2>2 DEF Inv, TypeOK, TimerYoung, GraceNeverExpires
  <2> QED
    BY <2>1, <2>3 DEF Inv, TypeOK, TimerYoung, DeadlineAhead, ReadyFromStart, ExitFresh,
       operands, clocks
<1>4. ASSUME ProcExits \/ ExitRecorded PROVE Inv'
  BY <1>4 DEF ProcExits, ExitRecorded, operands, clocks, Inv, TypeOK, TimerYoung,
     GraceNeverExpires, DeadlineAhead, ReadyFromStart, ExitFresh
<1>5. CASE UNCHANGED vars
  BY <1>5 DEF vars, operands, clocks, Inv, TypeOK, TimerYoung, GraceNeverExpires, DeadlineAhead,
     ReadyFromStart, ExitFresh
<1> QED  BY <1>1, <1>2, <1>3, <1>4, <1>5 DEF Next

\* The clocks and the variables of the loop keep their types.
THEOREM TypeCorrect == Spec => []TypeOK
<1>1. Inv => TypeOK
  BY DEF Inv
<1> QED  BY InvInit, InvStep, <1>1, PTL DEF Spec

\* A positive grace period never expires as long as the scheduler's delay
\* leaves room for a tick before it: 1 s against ticks of 500 ms and a delay
\* below 500 ms is always enough.
THEOREM GraceNeverExpiresCorrect == Spec => []GraceNeverExpires
<1>1. Inv => GraceNeverExpires
  BY DEF Inv
<1> QED  BY InvInit, InvStep, <1>1, PTL DEF Spec

\* A wait never outlasts its context's deadline by more than the delay.
THEOREM DeadlineKeptCorrect == Spec => []DeadlineKept
<1>1. Inv => DeadlineKept
  BY ClockAssumption DEF Inv, TypeOK, DeadlineAhead, DeadlineKept
<1> QED  BY InvInit, InvStep, <1>1, PTL DEF Spec

\* A wait without a grace period kills within the delay.
THEOREM NoGraceKeptCorrect == Spec => []NoGraceKept
<1>1. Inv => NoGraceKept
  BY ClockAssumption DEF Inv, TypeOK, ReadyFromStart, NoGraceKept
<1> QED  BY InvInit, InvStep, <1>1, PTL DEF Spec

\* A recorded exit ends the wait within a tick period and the delay.
THEOREM ExitSeenCorrect == Spec => []ExitSeen
<1>1. Inv => ExitSeen
  BY ClockAssumption DEF Inv, TypeOK, ExitFresh, ExitSeen
<1> QED  BY InvInit, InvStep, <1>1, PTL DEF Spec

\* The wait ends in time after the deadline, without a grace period, and after
\* a recorded exit.
THEOREM EndsInTimeCorrect == Spec => []EndsInTime
<1> QED  BY DeadlineKeptCorrect, NoGraceKeptCorrect, ExitSeenCorrect, PTL DEF EndsInTime
=============================================================================
