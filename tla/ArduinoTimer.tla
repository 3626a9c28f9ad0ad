---------------------------- MODULE ArduinoTimer ----------------------------
(***************************************************************************)
(* The timers of MQTTClient.cpp on a clock of milliseconds that rolls      *)
(* over: lwmqtt_arduino_timer_set and lwmqtt_arduino_timer_get, and the    *)
(* `millis() - start < timeout` of lwmqtt_arduino_network_read and of the  *)
(* facade's waiting loops.  The arithmetic is that of uint32_t and int32_t *)
(* with 2 * Half in the place of 2^32.                                     *)
(***************************************************************************)
EXTENDS Integers

CONSTANTS
  Half,         \* 2^31
  Timeouts,     \* the timeouts a timer is set to
  Horizon       \* the longest time a timer is not set again

ASSUME TimerAssumption ==
  /\ Half \in Nat \ {0}
  /\ Timeouts \subseteq 0..(Half - 1)
  /\ Horizon \in Nat

Range32 == 2 * Half

VARIABLES
  now,      \* millis()
  start,    \* t->start
  timeout,  \* t->timeout
  elapsed   \* history: the time that has passed since the timer was set

vars == <<now, start, timeout, elapsed>>

\* A difference of two values, computed as uint32_t.
Minus(a, b) == IF a < b THEN a - b + Range32 ELSE a - b

\* A uint32_t converted to int32_t.
Signed(a) == IF a < Half THEN a ELSE a - Range32

\* Fault: a roll-over is not accounted for.
DiffNoRollOver == IF now < start THEN start - now ELSE now - start

\* UINT32_MAX is one less than the range of the clock.
Diff == IF now < start THEN (Range32 - 1) - start + now ELSE now - start

\* Fault: the time since the end is returned as if it were left.
GetUnnegated ==
  IF Diff > timeout THEN Signed(Minus(Diff, timeout))
                    ELSE Signed(Minus(timeout, Diff))

\* lwmqtt_arduino_timer_get
Get ==
  IF Diff > timeout THEN Signed(Minus(0, Minus(Diff, timeout)))
                    ELSE Signed(Minus(timeout, Diff))

\* Fault: the end is compared: start + limit > now.
StillWaitingByDeadline(limit) == start + limit > now

\* millis() - start < limit
StillWaiting(limit) == Minus(now, start) < limit

-----------------------------------------------------------------------------

Init ==
  /\ now \in 0..(Range32 - 1)
  /\ start = now
  /\ timeout \in Timeouts
  /\ elapsed = 0

\* Fault: the end of the time is stored instead of its length.
SetDeadline(limit) ==
  /\ timeout' = now + limit
  /\ start' = now
  /\ elapsed' = 0
  /\ UNCHANGED now

\* lwmqtt_arduino_timer_set
Set(limit) ==
  /\ timeout' = limit
  /\ start' = now
  /\ elapsed' = 0
  /\ UNCHANGED now

Tick ==
  /\ elapsed < Horizon
  /\ now' = IF now = Range32 - 1 THEN 0 ELSE now + 1
  /\ elapsed' = elapsed + 1
  /\ UNCHANGED <<start, timeout>>

Next == Tick \/ \E limit \in Timeouts : Set(limit)

Spec == Init /\ [][Next]_vars

-----------------------------------------------------------------------------

TimerTypeOK ==
  /\ now \in 0..(Range32 - 1)
  /\ start \in 0..(Range32 - 1)
  /\ timeout \in Timeouts
  /\ elapsed \in 0..Horizon

\* A timer does not say expired before its time has come, wherever on the
\* clock it was set: no command gives up early and no ping is sent early.
NeverEarly == Get <= 0 => elapsed >= timeout

\* A timer that has expired says so, at most one millisecond late (the price
\* of UINT32_MAX in the difference), and goes on saying so until half of the
\* clock's range later.
ExpiredIsSeen ==
  elapsed > timeout /\ elapsed < timeout + Half => Get <= 0

\* lwmqtt_read_from_network hands what is left of the command timer to
\* network_read as an unsigned number of milliseconds: it is the true rest or
\* one more, across a roll-over too, never a huge number.
RemainingIsTrue ==
  elapsed <= timeout => Get - (timeout - elapsed) \in {0, 1}

\* The waiting loops wait exactly as long as they say, across a roll-over,
\* for a limit up to the timeout of the timer that was set at their start.
WaitsExactly ==
  elapsed < Range32 =>
    \A limit \in Timeouts : StillWaiting(limit) <=> elapsed < limit

=============================================================================
