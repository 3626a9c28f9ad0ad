------------------------------ MODULE MCFacade ------------------------------
(***************************************************************************)
(* Small instances of AViShaMQTT: two filters, one subscribed to at QoS 0  *)
(* and one at QoS 1.  Both are short enough for a slot, but for MCStoredCut *)
(* each is too long and has t for its first 63 characters.                 *)
(***************************************************************************)
EXTENDS AViShaMQTT

CONSTANTS t, u, m1, c1

MCLevelsOf == [f \in Filters |-> IF f = t THEN {0} ELSE {1}]
MCStored == [f \in Filters |-> f]
MCStoredCut == [f \in Filters |-> t]

=============================================================================
