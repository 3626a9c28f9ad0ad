------------------------ MODULE ArduinoTimer_proofs ------------------------
(***************************************************************************)
(* The timer arithmetic is right for a clock of any width.                 *)
(*                                                                         *)
(* The invariant says where the clock stands: `elapsed` after `start`,     *)
(* counted around the clock, for as long as that is less than one round.   *)
(* Everything else follows from it by arithmetic.                          *)
(***************************************************************************)
EXTENDS ArduinoTimer, TLAPS

\* The place on the clock `elapsed` after `start`.
ClockInv ==
  /\ now \in 0..(Range32 - 1)
  /\ start \in 0..(Range32 - 1)
  /\ timeout \in Timeouts
  /\ elapsed \in 0..Horizon
  /\ elapsed < Range32 =>
       now = IF start + elapsed < Range32 THEN start + elapsed ELSE start + elapsed - Range32

LEMMA ClockInit == Init => ClockInv
  BY TimerAssumption DEF Init, ClockInv, Range32

LEMMA ClockNext == ClockInv /\ [Next]_vars => ClockInv'
<1> SUFFICES ASSUME ClockInv, [Next]_vars PROVE ClockInv'
  OBVIOUS
<1> USE TimerAssumption DEF ClockInv, Range32
<1>1. CASE Tick
  BY <1>1 DEF Tick
<1>2. ASSUME NEW limit \in Timeouts, Set(limit) PROVE ClockInv'
  BY <1>2 DEF Set
<1>3. CASE UNCHANGED vars
  BY <1>3 DEF vars
<1> QED
  BY <1>1, <1>2, <1>3 DEF Next

\* The clock and the timer keep to their ranges, and the time since the timer
\* was set is what separates them on the clock.
THEOREM ClockCorrect == Spec => []ClockInv
  BY ClockInit, ClockNext, PTL DEF Spec

\* Clock, start and timeout are values of the variables of the code, the first
\* two 32 bits wide.
THEOREM TimerTypeCorrect == Spec => []TimerTypeOK
<1>1. ClockInv => TimerTypeOK
  BY DEF ClockInv, TimerTypeOK
<1> QED
  BY <1>1, ClockCorrect, PTL

\* What lwmqtt_arduino_timer_get computes as a difference is the time that has
\* passed, or one less across a roll-over.
LEMMA DiffValue ==
  ASSUME ClockInv, elapsed < Range32
  PROVE Diff \in Nat /\ Diff < Range32 /\ (Diff = elapsed \/ (elapsed > 0 /\ Diff = elapsed - 1))
  BY TimerAssumption DEF ClockInv, Range32, Diff

\* The value of the timer before and after its end, in plain arithmetic.
LEMMA GetValue ==
  ASSUME ClockInv, Diff \in Nat, Diff < Range32
  PROVE /\ Diff <= timeout => Get = timeout - Diff
        /\ Diff > timeout /\ Diff - timeout <= Half => Get = timeout - Diff
  BY TimerAssumption DEF ClockInv, Range32, Get, Minus, Signed

\* A timer never says expired too early.
THEOREM TimerNeverEarly == Spec => []NeverEarly
<1>1. ClockInv => NeverEarly
  <2> SUFFICES ASSUME ClockInv, Get <= 0 PROVE elapsed >= timeout
    BY DEF NeverEarly
  <2>1. CASE elapsed < Range32
    BY <2>1, DiffValue, GetValue, TimerAssumption DEF ClockInv, Range32
  <2>2. CASE elapsed >= Range32
    BY <2>2, TimerAssumption DEF ClockInv, Range32
  <2> QED
    BY <2>1, <2>2, TimerAssumption DEF ClockInv, Range32
<1> QED
  BY <1>1, ClockCorrect, PTL

\* An expired timer says so one millisecond late at most, and for half a round
\* of the clock.
THEOREM TimerExpires == Spec => []ExpiredIsSeen
<1>1. ClockInv => ExpiredIsSeen
  BY DiffValue, GetValue, TimerAssumption DEF ExpiredIsSeen, ClockInv, Range32
<1> QED
  BY <1>1, ClockCorrect, PTL

\* What is handed on as the remaining time is the true one or one more.
THEOREM TimerRemaining == Spec => []RemainingIsTrue
<1>1. ClockInv => RemainingIsTrue
  BY DiffValue, GetValue, TimerAssumption DEF RemainingIsTrue, ClockInv, Range32
<1> QED
  BY <1>1, ClockCorrect, PTL

\* The waiting loops are exact.
THEOREM WaitingExact == Spec => []WaitsExactly
<1>1. ClockInv => WaitsExactly
  BY TimerAssumption DEF WaitsExactly, StillWaiting, Minus, ClockInv, Range32
<1> QED
  BY <1>1, ClockCorrect, PTL

=============================================================================
