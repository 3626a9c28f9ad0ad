-------------------------- MODULE DeliveryService --------------------------
(***************************************************************************)
(* What MQTTClient promises of each message, without a word of packets: on *)
(* clean sessions an outbound message is routed by the broker at most      *)
(* once, and only after publish() was called; publish() at QoS 1 or 2      *)
(* returns true only after the message was routed, and what it returned    *)
(* stands.  An inbound message, on sessions of either kind, is settled     *)
(* between broker and client only after the callback had it, and not       *)
(* delivered again once it is settled.                                     *)
(***************************************************************************)
EXTENDS Integers

CONSTANTS
  Out,      \* outbound messages
  In,       \* inbound messages
  AckedOut  \* the outbound messages published at QoS 1 or 2

VARIABLES
  result,     \* what publish() returned: "none", "pending", "ok", "failed"
  routed,     \* how often the broker routed the message
  calls,      \* how often the callback got the message (2: more)
  settlement  \* "open", "settled", or "dropped" with the session

deliveryVars == <<result, routed, calls, settlement>>

DeliveryInit ==
  /\ result = [m \in Out |-> "none"]
  /\ routed = [m \in Out |-> 0]
  /\ calls = [m \in In |-> 0]
  /\ settlement = [m \in In |-> "open"]

Publish(m) ==
  /\ result[m] = "none"
  /\ \/ result' = [result EXCEPT ![m] = "pending"]
     \/ result' = [result EXCEPT ![m] = "failed"]
     \/ m \notin AckedOut /\ result' = [result EXCEPT ![m] = "ok"]
  /\ UNCHANGED <<routed, calls, settlement>>

Route(m) ==
  /\ result[m] # "none"
  /\ routed[m] = 0
  /\ routed' = [routed EXCEPT ![m] = 1]
  /\ UNCHANGED <<result, calls, settlement>>

PublishReturns(m, ok) ==
  /\ result[m] = "pending"
  /\ ok => routed[m] = 1
  /\ result' = [result EXCEPT ![m] = IF ok THEN "ok" ELSE "failed"]
  /\ UNCHANGED <<routed, calls, settlement>>

Receive(m) ==
  /\ settlement[m] = "open"
  /\ calls' = [calls EXCEPT ![m] = IF @ = 0 THEN 1 ELSE 2]
  /\ UNCHANGED <<result, routed, settlement>>

Settle(m) ==
  /\ settlement[m] = "open"
  /\ calls[m] >= 1
  /\ settlement' = [settlement EXCEPT ![m] = "settled"]
  /\ UNCHANGED <<result, routed, calls>>

\* A CONNECT asked for a clean session: the broker drops what is unfinished.
NewSession ==
  /\ settlement' \in [In -> {"open", "settled", "dropped"}]
  /\ \A m \in In : settlement'[m] \in {settlement[m], "dropped"}
  /\ UNCHANGED <<result, routed, calls>>

DeliveryNext ==
  \/ \E m \in Out : Publish(m)
  \/ \E m \in Out : Route(m)
  \/ \E m \in Out, ok \in BOOLEAN : PublishReturns(m, ok)
  \/ \E m \in In : Receive(m)
  \/ \E m \in In : Settle(m)
  \/ NewSession

DeliverySpec == DeliveryInit /\ [][DeliveryNext]_deliveryVars

=============================================================================
