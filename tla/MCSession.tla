------------------------------ MODULE MCSession ------------------------------
(***************************************************************************)
(* Small instances of MQTTSession and its refinements.  The cfg files pick *)
(* the message sets; the QoS of a message is fixed by its name.            *)
(***************************************************************************)
EXTENDS SessionRefinement

CONSTANTS p0, p1, p2, q2, i0, i1, i2, t1

\* p1 is published at QoS 1, p2 and q2 at QoS 2, any other message at QoS 0.
MCOutQoS == [m \in Msgs |-> IF m = p1 THEN 1 ELSE IF m \in {p2, q2} THEN 2 ELSE 0]

\* i0, i1 and i2 come at QoS 0, 1 and 2.
MCInQoS == [m \in InMsgs |-> IF m = i1 THEN 1 ELSE IF m = i2 THEN 2 ELSE 0]

=============================================================================
