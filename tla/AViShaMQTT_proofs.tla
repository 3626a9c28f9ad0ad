-------------------------- MODULE AViShaMQTT_proofs --------------------------
(***************************************************************************)
(* The facade: its type invariant, the truth of state() and the only way   *)
(* to a client without network for every sketch; and, on clean sessions,   *)
(* for a sketch that subscribes to no filter twice and to filters that fit *)
(* into the table, that the table is what the sketch subscribed to and     *)
(* that the session of the broker is restored from it.                     *)
(***************************************************************************)
EXTENDS AViShaMQTT, FiniteSetTheorems, TLAPS

-----------------------------------------------------------------------------
(* The first slot                                                          *)

\* The least element of a set of slots, by the well-foundedness of inclusion
\* between the intervals 1..i.
LEMMA FirstSlot ==
  ASSUME NEW n \in Nat, NEW S \in SUBSET (1..n), S # {}
  PROVE Min(S) \in S /\ \A i \in S : Min(S) <= i
<1> DEFINE Upto == {1..i : i \in S}
<1>1. Upto # {}
  OBVIOUS
<1>2. ASSUME NEW i \in S PROVE 1..i \in FiniteSubsetsOf(Nat)
  <2>1. i \in Int /\ 1..i \subseteq Nat
    OBVIOUS
  <2> QED
    BY <2>1, FS_Interval DEF FiniteSubsetsOf
<1>3. Upto \subseteq FiniteSubsetsOf(Nat)
  BY <1>2
<1>4. PICK U \in Upto : \A V \in Upto : ~(<<V, U>> \in StrictSubsetOrdering(Nat))
  BY <1>1, <1>3, FS_StrictSubsetOrderingWellFounded, WFMin
<1>5. PICK first \in S : U = 1..first
  BY <1>4
<1>6. ASSUME NEW i \in S, i < first PROVE FALSE
  <2>1. (1..i) \subseteq (1..first) /\ (1..i) # (1..first)
    BY <1>6
  <2>2. <<1..i, 1..first>> \in StrictSubsetOrdering(Nat)
    BY <2>1 DEF StrictSubsetOrdering
  <2> QED
    BY <1>4, <1>5, <2>2
<1>7. \A i \in S : first <= i
  BY <1>6
<1> QED
  BY <1>7 DEF Min

-----------------------------------------------------------------------------
(* Types, and what runs at each point                                      *)

Calls ==
  {NoCall} \cup {CallOf(op, None, NoQoS) : op \in {"connect", "loop", "publish"}}
    \cup {CallOf("subscribe", t, q) : t \in Topics, q \in QoSLevels}
    \cup {CallOf("unsubscribe", t, NoQoS) : t \in Topics}

\* The points of the facade itself; at the others it is inside of the client.
OwnPoints == {"idle", "joining", "attempt", "pause", "looped", "restoring", "crashed"}

\* The method of the client that runs is the one that the point is named for.
MethodAtPoint ==
  /\ request \in Calls
  /\ at \in OwnPoints => method = NoCall
  /\ at = "connecting" => method = CallOf("connect", None, NoQoS)
  /\ at = "looping" => method = CallOf("loop", None, NoQoS)
  /\ at = "publishing" => method = CallOf("publish", None, NoQoS)
  /\ at = "subscribing" =>
       \E f \in Filters : \E q \in LevelsOf[f] :
         method = CallOf("subscribe", f, q) /\ MaySubscribe(f)
  /\ at = "unsubscribing" =>
       \E f \in Filters : method = CallOf("unsubscribe", f, NoQoS)
  /\ at = "restoring" => index >= 1
  /\ at = "resubscribing" =>
       /\ index \in 1..MaxSubs
       /\ table[index] # FreeSlot
       /\ method = CallOf("subscribe", table[index].topic, table[index].qos)

FacadeTypes == TypeOK /\ MethodAtPoint

LEMMA CallsThere ==
  /\ NoCall \in Calls
  /\ CallOf("connect", None, NoQoS) \in Calls
  /\ \A t \in Topics, q \in QoSLevels : CallOf("subscribe", t, q) \in Calls
  /\ \A t \in Topics : CallOf("unsubscribe", t, NoQoS) \in Calls
  BY DEF Calls

\* What the fields of a call are.
LEMMA CallFields ==
  ASSUME NEW op, NEW t, NEW q
  PROVE /\ CallOf(op, t, q).op = op
        /\ CallOf(op, t, q).topic = t
        /\ CallOf(op, t, q).qos = q
  BY DEF CallOf

\* A request is the CONNECT, or names a filter and a level.
LEMMA RequestFields ==
  ASSUME request \in Calls
  PROVE /\ request.op \in {"subscribe", "unsubscribe"} =>
             request.topic \in Topics /\ request.qos \in QoSLevels \cup {NoQoS}
        /\ request.op = "connect" => request = CallOf("connect", None, NoQoS)
        /\ request.op = "none" => request = NoCall
  BY CallFields DEF Calls, NoCall

\* A slot in use holds a filter and a level.
LEMMA SlotInUse ==
  ASSUME table \in [1..MaxSubs -> [topic : Topics, qos : QoSLevels] \cup {FreeSlot}],
         NEW i \in 1..MaxSubs, table[i] # FreeSlot
  PROVE table[i] \in [topic : Topics, qos : QoSLevels]
  OBVIOUS

LEMMA SlotRange == 1 \in 1..MaxSubs /\ \A from \in Nat \ {0} : ActiveSlots(from) \in SUBSET (1..MaxSubs)
  BY FacadeAssumption DEF ActiveSlots

LEMMA InitTypes == Init => FacadeTypes
<1> SUFFICES ASSUME Init PROVE FacadeTypes
  OBVIOUS
<1>1. (CHOOSE id \in ClientIds : TRUE) \in ClientIds
  BY ContractAssumption
<1>2. TypeOK
  <2>1. session \in [ClientIds -> [Topics -> QoSLevels \cup {NoQoS}]]
    BY DEF Init, ContractInit, EmptySession
  <2>2. delivered \in [InMsgs -> 0..2] /\ wanted \in [Topics -> QoSLevels \cup {NoQoS}]
    BY DEF Init, ContractInit, EmptySession
  <2>3. table \in [1..MaxSubs -> [topic : Topics, qos : QoSLevels] \cup {FreeSlot}]
    BY DEF Init, EmptyTable
  <2>4. index \in 0..(MaxSubs + 1)
    BY FacadeAssumption DEF Init
  <2> QED
    BY <1>1, <2>1, <2>2, <2>3, <2>4 DEF Init, ContractInit, TypeOK, States, Points
<1>3. MethodAtPoint
  BY DEF Init, ContractInit, MethodAtPoint, OwnPoints, Calls
<1> QED
  BY <1>2, <1>3 DEF FacadeTypes

\* The slot that RestoreNext takes.
LEMMA NextSlot ==
  ASSUME FacadeTypes, RestoreNext, NEW i, i = Min(ActiveSlots(index))
  PROVE /\ i \in 1..MaxSubs
        /\ i >= index
        /\ table[i] \in [topic : Topics, qos : QoSLevels]
        /\ table[i] # FreeSlot
        /\ \A j \in ActiveSlots(index) : i <= j
<1>1. index \in Nat \ {0} /\ ActiveSlots(index) # {}
  BY DEF FacadeTypes, TypeOK, MethodAtPoint, RestoreNext
<1>2. i \in ActiveSlots(index) /\ \A j \in ActiveSlots(index) : i <= j
  BY <1>1, SlotRange, FirstSlot, FacadeAssumption
<1>3. i \in 1..MaxSubs /\ i >= index /\ table[i] # FreeSlot
  BY <1>1, <1>2 DEF ActiveSlots
<1> QED
  BY <1>2, <1>3, SlotInUse DEF FacadeTypes, TypeOK

\* Whatever the facade does to the client is a step of its contract.
LEMMA StepOfContract ==
  ASSUME FacadeTypes, [Next]_vars PROVE [Methods \/ Surroundings]_contractVars
<1> USE DEF Methods, Surroundings
<1>1. CASE Sketch
  <2>1. CASE \/ BeginCall \/ LoopWithoutWiFi \/ StateCall \/ TakeIncoming
    BY <2>1 DEF BeginCall, LoopWithoutWiFi, StateCall, TakeIncoming
  <2>2. CASE LoopCall
    BY <2>2 DEF LoopCall
  <2>3. CASE PublishCall
    BY <2>3 DEF PublishCall
  <2>4. CASE DisconnectCall
    BY <2>4 DEF DisconnectCall, Disconnect
  <2>5. ASSUME NEW f \in Filters, NEW q \in LevelsOf[f], SubscribeCall(f, q)
        PROVE Methods
    <3>1. f \in Topics /\ q \in QoSLevels
      BY FacadeAssumption
    <3> QED
      BY <2>5, <3>1 DEF SubscribeCall
  <2>6. ASSUME NEW f \in Filters, UnsubscribeCall(f) PROVE Methods
    BY <2>6, FacadeAssumption DEF UnsubscribeCall
  <2> QED
    BY <1>1, <2>1, <2>2, <2>3, <2>4, <2>5, <2>6 DEF Sketch
<1>2. CASE Run
  <2>1. CASE \/ Joined \/ JoinTimesOut \/ Crash \/ TryAgain \/ TimeOut
             \/ LoopEnds \/ LoopDisconnected \/ RestoreEnds
    BY <2>1 DEF Joined, JoinTimesOut, Crash, TryAgain, TimeOut, LoopEnds,
                LoopDisconnected, RestoreEnds
  <2>2. CASE AttemptRefused \/ AttemptFails \/ AttemptSent
    BY <2>2 DEF AttemptRefused, AttemptFails, AttemptSent
  <2>3. CASE ConnectSucceeds \/ ConnectReturnsFalse
    BY <2>3 DEF ConnectSucceeds, ConnectReturnsFalse
  <2>4. CASE \/ LoopReturns \/ RestoreReturns \/ SubscribeFails \/ UnsubscribeFails
             \/ SubscribeSucceeds \/ UnsubscribeSucceeds \/ PublishReturns
    BY <2>4 DEF LoopReturns, RestoreReturns, SubscribeFails, UnsubscribeFails,
                SubscribeSucceeds, UnsubscribeSucceeds, PublishReturns
  <2>5. CASE RestoreNext
    <3> DEFINE i == Min(ActiveSlots(index))
    <3>1. table[i].topic \in Topics /\ table[i].qos \in QoSLevels
      BY <2>5, NextSlot
    <3>2. SubscribeStart(table[i].topic, table[i].qos)
      BY <2>5 DEF RestoreNext
    <3> HIDE DEF i
    <3> QED
      BY <3>1, <3>2
  <2> QED
    BY <1>2, <2>1, <2>2, <2>3, <2>4, <2>5 DEF Run
<1>3. CASE Environment
  <2>1. CASE WiFiDrops \/ WiFiComesUp \/ CalmBegins \/ RetryTimer
    BY <2>1 DEF WiFiDrops, WiFiComesUp, CalmBegins, RetryTimer
  <2>2. CASE LinkBreaks \/ Broker \/ Reboot
    BY <2>2 DEF LinkBreaks, Broker, Reboot
  <2>3. ASSUME NEW m \in InMsgs, OnMessage(m) PROVE Methods
    BY <2>3 DEF OnMessage
  <2> QED
    BY <1>3, <2>1, <2>2, <2>3 DEF Environment
<1>4. CASE UNCHANGED vars
  BY <1>4 DEF vars
<1> QED
  BY <1>1, <1>2, <1>3, <1>4 DEF Next

\* The variables of the contract.
ContractTypes ==
  /\ {socket, connected, attached} \subseteq BOOLEAN
  /\ returnCode \in {"accepted", "unknown"} \cup Refusals
  /\ clientId \in ClientIds
  /\ session \in [ClientIds -> [Topics -> QoSLevels \cup {NoQoS}]]
  /\ delivered \in [InMsgs -> 0..2]
  /\ request \in Calls

LEMMA NextContractTypes ==
  ASSUME ContractTypes, [Methods \/ Surroundings]_contractVars PROVE ContractTypes'
<1> USE CallsThere DEF ContractTypes
<1>1. CASE Methods
  <2>1. CASE ConnectRefused \/ ConnectFails \/ ConnectReturnsTrue \/ ConnectUnanswered
    <3>1. {socket', connected', attached'} \subseteq BOOLEAN
      BY <2>1 DEF ConnectRefused, ConnectFails, ConnectReturnsTrue, ConnectUnanswered,
                  CloseAndReturn
    <3>2. returnCode' \in {"accepted", "unknown"} \cup Refusals
      BY <2>1 DEF ConnectRefused, ConnectFails, ConnectReturnsTrue, ConnectUnanswered
    <3>3. request' \in Calls
      BY <2>1 DEF ConnectRefused, ConnectFails, ConnectReturnsTrue, ConnectUnanswered,
                  CloseAndReturn
    <3>4. UNCHANGED <<clientId, session, delivered>>
      BY <2>1 DEF ConnectRefused, ConnectFails, ConnectReturnsTrue, ConnectUnanswered,
                  CloseAndReturn
    <3> QED
      BY <3>1, <3>2, <3>3, <3>4
  <2>2. ASSUME NEW id \in ClientIds, ConnectStart(id) PROVE ContractTypes'
    BY <2>2 DEF ConnectStart
  <2>3. ASSUME NEW rc \in Refusals, ConnectDenied(rc) PROVE ContractTypes'
    BY <2>3 DEF ConnectDenied, CloseAndReturn
  <2>4. ASSUME NEW t \in Topics, NEW q \in QoSLevels, SubscribeStart(t, q)
        PROVE ContractTypes'
    BY <2>4 DEF SubscribeStart, MethodStart
  <2>5. ASSUME NEW t \in Topics, UnsubscribeStart(t) PROVE ContractTypes'
    BY <2>5 DEF UnsubscribeStart, MethodStart
  <2>6. CASE PublishStart \/ LoopStart
    BY <2>6 DEF PublishStart, LoopStart, MethodStart
  <2>7. CASE MethodReturnsTrue \/ MethodReturnsFalse \/ FailsAtOnce \/ PowerCycle
    BY <2>7 DEF MethodReturnsTrue, MethodReturnsFalse, FailsAtOnce, PowerCycle,
                CloseAndReturn
  <2>8. ASSUME NEW m \in InMsgs, Deliver(m) PROVE ContractTypes'
    BY <2>8 DEF Deliver
  <2> QED
    BY <1>1, <2>1, <2>2, <2>3, <2>4, <2>5, <2>6, <2>7, <2>8 DEF Methods
<1>2. CASE Surroundings
  <2>1. CASE LinkLost \/ BrokerForgets
    BY <2>1 DEF LinkLost, BrokerForgets
  <2>2. ASSUME NEW ok \in BOOLEAN, BrokerConnect(ok) PROVE ContractTypes'
    <3>1. EmptySession \in [Topics -> QoSLevels \cup {NoQoS}]
      BY DEF EmptySession
    <3> QED
      BY <2>2, <3>1 DEF BrokerConnect
  <2>3. ASSUME NEW granted \in BOOLEAN, BrokerApplies(granted) PROVE ContractTypes'
    <3>1. request.topic \in Topics /\ request.qos \in QoSLevels \cup {NoQoS}
      BY <2>3, RequestFields DEF BrokerApplies
    <3> QED
      BY <2>3, <3>1 DEF BrokerApplies
  <2> QED
    BY <1>2, <2>1, <2>2, <2>3 DEF Surroundings
<1>3. CASE UNCHANGED contractVars
  BY <1>3 DEF contractVars
<1> QED
  BY <1>1, <1>2, <1>3

Slots == [topic : Topics, qos : QoSLevels] \cup {FreeSlot}

\* The variables of the facade.
FacadeFields ==
  /\ wifi \in {"up", "down"}
  /\ {calm, begun, retryDue} \subseteq BOOLEAN
  /\ setup \in {"before", "failed", "done"}
  /\ state \in States
  /\ table \in [1..MaxSubs -> Slots]
  /\ incoming \in InMsgs \cup {None}
  /\ at \in Points
  /\ caller \in {"begin", "loop"}
  /\ index \in 0..(MaxSubs + 1)
  /\ wanted \in [Topics -> QoSLevels \cup {NoQoS}]

LEMMA TypeParts == FacadeTypes <=> ContractTypes /\ FacadeFields /\ MethodAtPoint
  BY DEF FacadeTypes, TypeOK, ContractTypes, FacadeFields, MethodAtPoint, Slots

LEMMA RecordTypes ==
  ASSUME table \in [1..MaxSubs -> Slots], NEW f \in Filters, NEW q \in QoSLevels,
         Record(f, q)
  PROVE table' \in [1..MaxSubs -> Slots]
  BY FacadeAssumption DEF Record, Slots

LEMMA ForgetTypes ==
  ASSUME table \in [1..MaxSubs -> Slots], NEW f, Forget(f)
  PROVE table' \in [1..MaxSubs -> Slots]
  BY DEF Forget, Slots

LEMMA StepsOfSketch ==
  ASSUME FacadeTypes, ContractTypes', Sketch PROVE FacadeTypes'
<1> USE DEF FacadeFields, MethodAtPoint, OwnPoints, Points, States
<1>0. ContractTypes /\ FacadeFields /\ MethodAtPoint
  BY TypeParts
<1>1. SUFFICES FacadeFields' /\ MethodAtPoint'
  BY TypeParts, PTL
<1>2. CASE BeginCall \/ LoopWithoutWiFi
  BY <1>0, <1>2, FacadeAssumption
  DEF BeginCall, LoopWithoutWiFi, StartJoining, Lost, contractVars, environmentVars,
      ContractTypes
<1>3. CASE StateCall \/ TakeIncoming
  BY <1>0, <1>3 DEF StateCall, TakeIncoming, Lost, contractVars, environmentVars,
                    ContractTypes
<1>4. CASE LoopCall
  BY <1>0, <1>4 DEF LoopCall, LoopStart, MethodStart, contractVars, environmentVars,
                    facadeVars, ContractTypes
<1>5. CASE PublishCall
  BY <1>0, <1>5 DEF PublishCall, PublishStart, MethodStart, environmentVars, facadeVars,
                    ContractTypes
<1>6. CASE DisconnectCall
  BY <1>0, <1>6 DEF DisconnectCall, Disconnect, FailsAtOnce, CloseAndReturn, contractVars,
                    environmentVars, ContractTypes
<1>7. ASSUME NEW f \in Filters, NEW q \in LevelsOf[f], SubscribeCall(f, q)
      PROVE FacadeFields' /\ MethodAtPoint'
  BY <1>0, <1>7 DEF SubscribeCall, MaySubscribe, SubscribeStart, MethodStart,
                    environmentVars, facadeVars, ContractTypes
<1>8. ASSUME NEW f \in Filters, UnsubscribeCall(f)
      PROVE FacadeFields' /\ MethodAtPoint'
  BY <1>0, <1>8 DEF UnsubscribeCall, UnsubscribeStart, MethodStart, environmentVars,
                    facadeVars, ContractTypes
<1> QED
  BY <1>2, <1>3, <1>4, <1>5, <1>6, <1>7, <1>8 DEF Sketch

LEMMA StepsOfRun ==
  ASSUME FacadeTypes, ContractTypes', Run PROVE FacadeTypes'
<1> USE DEF FacadeFields, MethodAtPoint, OwnPoints, Points, States
<1>0. ContractTypes /\ FacadeFields /\ MethodAtPoint
  BY TypeParts
<1>1. SUFFICES FacadeFields' /\ MethodAtPoint'
  BY TypeParts, PTL
<1>2. CASE Joined
  <2>1. index' \in 0..(MaxSubs + 1) /\ at' \in {"idle", "attempt"} /\ caller' \in {"begin", "loop"}
    BY <1>0, <1>2, FacadeAssumption DEF Joined, Return
  <2> QED
    BY <1>0, <1>2, <2>1 DEF Joined, contractVars, environmentVars, ContractTypes
<1>3. CASE JoinTimesOut \/ TimeOut
  BY <1>0, <1>3, FacadeAssumption
  DEF JoinTimesOut, TimeOut, GiveUp, Return, contractVars, environmentVars, ContractTypes
<1>4. CASE Crash \/ TryAgain
  BY <1>0, <1>4 DEF Crash, TryAgain, contractVars, environmentVars, facadeVars,
                    ContractTypes
<1>5. CASE AttemptRefused \/ AttemptFails
  BY <1>0, <1>5, FacadeAssumption
  DEF AttemptRefused, AttemptFails, ConnectRefused, ConnectFails, Judge, GiveUp, Return,
      environmentVars, ContractTypes
<1>6. CASE AttemptSent
  BY <1>0, <1>6 DEF AttemptSent, ConnectStart, environmentVars, facadeVars, ContractTypes
<1>7. CASE ConnectSucceeds
  BY <1>0, <1>7, FacadeAssumption
  DEF ConnectSucceeds, ConnectReturnsTrue, Reconnected, Return, environmentVars,
      ContractTypes
<1>8. CASE ConnectReturnsFalse
  BY <1>0, <1>8, FacadeAssumption
  DEF ConnectReturnsFalse, ConnectUnanswered, ConnectDenied, CloseAndReturn, Judge,
      GiveUp, Return, environmentVars, ContractTypes
<1>9. CASE LoopReturns
  BY <1>0, <1>9 DEF LoopReturns, MethodReturnsTrue, MethodReturnsFalse, CloseAndReturn,
                    environmentVars, facadeVars, ContractTypes
<1>10. CASE LoopEnds \/ LoopDisconnected
  <2>1. index' \in 0..(MaxSubs + 1) /\ at' \in {"idle", "attempt"} /\ caller' \in {"begin", "loop"}
    BY <1>0, <1>10, FacadeAssumption DEF LoopEnds, LoopDisconnected, Retry, Return
  <2>2. state' \in States /\ retryDue' \in BOOLEAN
    BY <1>0, <1>10 DEF LoopEnds, LoopDisconnected, Lost, Retry
  <2> QED
    BY <1>0, <1>10, <2>1, <2>2 DEF LoopEnds, LoopDisconnected, contractVars,
       environmentVars, ContractTypes
<1>11. CASE RestoreNext
  <2> DEFINE i == Min(ActiveSlots(index))
  <2>1. i \in 1..MaxSubs /\ table[i] # FreeSlot
    BY <1>11, NextSlot
  <2>2. /\ SubscribeStart(table[i].topic, table[i].qos)
        /\ index' = i
        /\ at' = "resubscribing"
        /\ UNCHANGED <<environmentVars, setup, begun, state, retryDue, table, incoming,
                       caller, wanted>>
    BY <1>11 DEF RestoreNext
  <2> HIDE DEF i
  <2> QED
    BY <1>0, <2>1, <2>2, FacadeAssumption
    DEF SubscribeStart, MethodStart, environmentVars, ContractTypes
<1>12. CASE RestoreReturns
  BY <1>0, <1>12, FacadeAssumption
  DEF RestoreReturns, MethodReturnsTrue, MethodReturnsFalse, CloseAndReturn,
      environmentVars, ContractTypes
<1>13. CASE RestoreEnds
  BY <1>0, <1>13, FacadeAssumption
  DEF RestoreEnds, Return, contractVars, environmentVars, ContractTypes
<1>14. CASE SubscribeSucceeds
  <2>0. PICK f \in Filters : \E q \in LevelsOf[f] : method = CallOf("subscribe", f, q)
    BY <1>0, <1>14 DEF SubscribeSucceeds
  <2>1. PICK q \in LevelsOf[f] : method = CallOf("subscribe", f, q)
    BY <2>0
  <2>2. method.topic = f /\ method.qos = q /\ f \in Topics /\ q \in QoSLevels
    BY <2>1, CallFields, FacadeAssumption
  <2>3. table' \in [1..MaxSubs -> Slots]
    BY <1>0, <1>14, <2>2, RecordTypes DEF SubscribeSucceeds
  <2>4. wanted' \in [Topics -> QoSLevels \cup {NoQoS}]
    BY <1>0, <1>14, <2>2 DEF SubscribeSucceeds
  <2> QED
    BY <1>0, <1>14, <2>3, <2>4, FacadeAssumption
    DEF SubscribeSucceeds, MethodReturnsTrue, Return, environmentVars, ContractTypes
<1>15. CASE UnsubscribeSucceeds
  <2>1. PICK f \in Filters : method = CallOf("unsubscribe", f, NoQoS)
    BY <1>0, <1>15 DEF UnsubscribeSucceeds
  <2>2. method.topic = f /\ f \in Topics
    BY <2>1, CallFields, FacadeAssumption
  <2>3. table' \in [1..MaxSubs -> Slots]
    BY <1>0, <1>15, <2>2, ForgetTypes DEF UnsubscribeSucceeds
  <2>4. wanted' \in [Topics -> QoSLevels \cup {NoQoS}]
    BY <1>0, <1>15, <2>2 DEF UnsubscribeSucceeds
  <2> QED
    BY <1>0, <1>15, <2>3, <2>4, FacadeAssumption
    DEF UnsubscribeSucceeds, MethodReturnsTrue, Return, environmentVars, ContractTypes
<1>16. CASE SubscribeFails \/ UnsubscribeFails \/ PublishReturns
  BY <1>0, <1>16, FacadeAssumption
  DEF SubscribeFails, UnsubscribeFails, PublishReturns, MethodReturnsTrue,
      MethodReturnsFalse, CloseAndReturn, Return, environmentVars, ContractTypes
<1> QED
  BY <1>2, <1>3, <1>4, <1>5, <1>6, <1>7, <1>8, <1>9, <1>10, <1>11, <1>12, <1>13,
     <1>14, <1>15, <1>16 DEF Run

LEMMA StepsOfEnvironment ==
  ASSUME FacadeTypes, ContractTypes', Environment PROVE FacadeTypes'
<1> USE DEF FacadeFields, MethodAtPoint, MaySubscribe, OwnPoints, Points, States
<1>0. ContractTypes /\ FacadeFields /\ MethodAtPoint
  BY TypeParts
<1>1. SUFFICES FacadeFields' /\ MethodAtPoint'
  BY TypeParts, PTL
<1>2. CASE WiFiDrops \/ WiFiComesUp \/ CalmBegins \/ RetryTimer
  <2>1. /\ wifi' \in {"up", "down"} /\ {calm', retryDue'} \subseteq BOOLEAN
        /\ UNCHANGED <<setup, begun, state, table, incoming, at, caller, index, wanted>>
        /\ UNCHANGED <<method, request>>
    BY <1>0, <1>2 DEF WiFiDrops, WiFiComesUp, CalmBegins, RetryTimer, contractVars,
                      environmentVars, facadeVars
  <2> QED
    BY <1>0, <2>1 DEF ContractTypes
<1>3. CASE LinkBreaks
  BY <1>0, <1>3 DEF LinkBreaks, LinkLost, environmentVars, facadeVars, ContractTypes
<1>4. CASE Broker
  <2>1. UNCHANGED <<environmentVars, facadeVars, at, wanted, method>>
    BY <1>4 DEF Broker, BrokerConnect, BrokerApplies, BrokerForgets
  <2> QED
    BY <1>0, <2>1 DEF environmentVars, facadeVars, ContractTypes
<1>5. CASE Reboot
  <2>1. EmptyTable \in [1..MaxSubs -> Slots]
    BY DEF EmptyTable, Slots
  <2>2. wanted' \in [Topics -> QoSLevels \cup {NoQoS}]
    BY <1>0, <1>5 DEF Reboot, EmptySession
  <2>3. /\ index' \in 0..(MaxSubs + 1) /\ at' = "idle" /\ caller' = "loop"
        /\ method' = NoCall
    BY <1>5, FacadeAssumption DEF Reboot, PowerCycle, Return
  <2>4. FacadeFields'
    BY <1>0, <1>5, <2>1, <2>2, <2>3 DEF Reboot
  <2> QED
    BY <2>3, <2>4 DEF ContractTypes
<1>6. ASSUME NEW m \in InMsgs, OnMessage(m) PROVE FacadeFields' /\ MethodAtPoint'
  BY <1>0, <1>6 DEF OnMessage, Deliver, environmentVars, ContractTypes
<1> QED
  BY <1>2, <1>3, <1>4, <1>5, <1>6 DEF Environment

LEMMA NextTypes == FacadeTypes /\ [Next]_vars => FacadeTypes'
<1> SUFFICES ASSUME FacadeTypes, [Next]_vars PROVE FacadeTypes'
  OBVIOUS
<1>1. ContractTypes'
  BY TypeParts, StepOfContract, NextContractTypes
<1>2. CASE UNCHANGED vars
  BY <1>2 DEF vars, contractVars, environmentVars, facadeVars, FacadeTypes, TypeOK,
              MethodAtPoint, MaySubscribe
<1> QED
  BY <1>1, <1>2, StepsOfSketch, StepsOfRun, StepsOfEnvironment DEF Next

LEMMA Types == Spec => []FacadeTypes
  BY InitTypes, NextTypes, PTL DEF Spec

\* Every variable has its type, whatever the sketch, the network and the broker
\* do; the index of restoreSubscriptions never leaves the table.
THEOREM FacadeTypeCorrect == Spec => []TypeOK
<1>1. FacadeTypes => TypeOK
  BY DEF FacadeTypes
<1> QED
  BY <1>1, Types, PTL

\* The facade asks of the client only what the contract of the client allows:
\* it never calls a method while another one runs, and never a method that
\* needs a connection without one.
THEOREM FacadeKeepsContract == Spec => ContractSpec
<1>1. Init => ContractInit
  BY DEF Init
<1>2. FacadeTypes /\ [Next]_vars => [Methods \/ Surroundings]_contractVars
  BY StepOfContract
<1> QED
  BY <1>1, <1>2, Types, PTL DEF Spec, ContractSpec

-----------------------------------------------------------------------------
(* The state that is reported                                              *)

\* What the points say of the connection and of who waits.  The flag
\* _connected may be an old one while connect() runs, and at no other point.
PointInv ==
  /\ socket /\ at # "connecting" => connected
  /\ socket /\ at # "connecting" => MayCallLoop /\ at \notin {"attempt", "pause"}
  /\ caller = "begin" =>
       /\ MayCallBegin
       /\ at \in {"joining", "attempt", "connecting", "pause", "crashed"}
  /\ caller = "loop" /\ at # "idle" => MayCallLoop

GoodStates == {"CONNECTED", "CONNECTION_LOST", "CONNECT_FAILED"}

StateInv == socket /\ at # "connecting" => state \in GoodStates

LEMMA InitPoint == Init => PointInv /\ StateInv
  BY DEF Init, ContractInit, PointInv, StateInv

LEMMA NextPoint == FacadeTypes /\ PointInv /\ StateInv /\ [Next]_vars => PointInv' /\ StateInv'
<1> SUFFICES ASSUME FacadeTypes, PointInv, StateInv, [Next]_vars PROVE PointInv' /\ StateInv'
  OBVIOUS
<1> USE DEF PointInv, StateInv, GoodStates, MayCallLoop, MayCallBegin
<1>0. /\ BeginChecked \in BOOLEAN
      /\ setup \in {"before", "failed", "done"}
      /\ caller \in {"begin", "loop"}
      /\ {socket, connected} \subseteq BOOLEAN
  BY FacadeAssumption DEF FacadeTypes, TypeOK
<1>1. CASE Sketch
  <2>1. CASE BeginCall \/ LoopWithoutWiFi
    BY <1>0, <2>1 DEF BeginCall, LoopWithoutWiFi, StartJoining, Lost, contractVars,
                      environmentVars
  <2>2. CASE StateCall \/ TakeIncoming
    BY <1>0, <2>2 DEF StateCall, TakeIncoming, Lost, Connected, contractVars
  <2>3. CASE LoopCall
    BY <1>0, <2>3 DEF LoopCall, LoopStart, MethodStart, Connected, contractVars, facadeVars
  <2>4. CASE PublishCall
    BY <1>0, <2>4 DEF PublishCall, PublishStart, MethodStart, Connected, facadeVars
  <2>5. CASE DisconnectCall
    BY <1>0, <2>5 DEF DisconnectCall, Disconnect, FailsAtOnce, CloseAndReturn, Connected,
                      contractVars
  <2>6. ASSUME NEW f \in Filters, NEW q \in LevelsOf[f], SubscribeCall(f, q)
        PROVE PointInv' /\ StateInv'
    BY <1>0, <2>6 DEF SubscribeCall, SubscribeStart, MethodStart, Connected, facadeVars
  <2>7. ASSUME NEW f \in Filters, UnsubscribeCall(f) PROVE PointInv' /\ StateInv'
    BY <1>0, <2>7 DEF UnsubscribeCall, UnsubscribeStart, MethodStart, Connected, facadeVars
  <2> QED
    BY <1>1, <2>1, <2>2, <2>3, <2>4, <2>5, <2>6, <2>7 DEF Sketch
<1>2. CASE Run
  <2>1. CASE Joined
    BY <1>0, <2>1 DEF Joined, Return, contractVars
  <2>2. CASE JoinTimesOut
    BY <1>0, <2>2 DEF JoinTimesOut, GiveUp, Return, contractVars
  <2>3. CASE TimeOut
    BY <1>0, <2>3 DEF TimeOut, GiveUp, Return, contractVars
  <2>4. CASE Crash \/ TryAgain
    BY <1>0, <2>4 DEF Crash, TryAgain, contractVars, facadeVars
  <2>5. CASE AttemptRefused \/ AttemptFails
    BY <1>0, <2>5 DEF AttemptRefused, AttemptFails, ConnectRefused, ConnectFails, Judge,
                      GiveUp, Return
  <2>6. CASE AttemptSent
    BY <1>0, <2>6 DEF AttemptSent, ConnectStart, facadeVars
  <2>7. CASE ConnectSucceeds
    BY <1>0, <2>7 DEF ConnectSucceeds, ConnectReturnsTrue, Reconnected, Return
  <2>8. CASE ConnectReturnsFalse
    BY <1>0, <2>8 DEF ConnectReturnsFalse, ConnectUnanswered, ConnectDenied,
                      CloseAndReturn, Judge, GiveUp, Return
  <2>9. CASE LoopReturns
    BY <1>0, <2>9 DEF LoopReturns, MethodReturnsTrue, MethodReturnsFalse, CloseAndReturn,
                      facadeVars
  <2>10. CASE LoopEnds
    BY <1>0, <2>10 DEF LoopEnds, Return, contractVars
  <2>11. CASE LoopDisconnected
    BY <1>0, <2>11 DEF LoopDisconnected, Retry, Return, Lost, Connected, contractVars
  <2>12. CASE RestoreNext
    <3>1. /\ at = "restoring" /\ at' = "resubscribing"
          /\ UNCHANGED <<setup, state, caller, socket, connected>>
      BY <2>12 DEF RestoreNext, SubscribeStart, MethodStart
    <3> QED
      BY <1>0, <3>1
  <2>13. CASE RestoreReturns
    BY <1>0, <2>13 DEF RestoreReturns, MethodReturnsTrue, MethodReturnsFalse, CloseAndReturn
  <2>14. CASE RestoreEnds
    BY <1>0, <2>14 DEF RestoreEnds, Return, contractVars
  <2>15. CASE SubscribeSucceeds \/ UnsubscribeSucceeds
    BY <1>0, <2>15 DEF SubscribeSucceeds, UnsubscribeSucceeds, MethodReturnsTrue, Return
  <2>16. CASE SubscribeFails \/ UnsubscribeFails \/ PublishReturns
    BY <1>0, <2>16 DEF SubscribeFails, UnsubscribeFails, PublishReturns,
                       MethodReturnsTrue, MethodReturnsFalse, CloseAndReturn, Return
  <2> QED
    BY <1>2, <2>1, <2>2, <2>3, <2>4, <2>5, <2>6, <2>7, <2>8, <2>9, <2>10, <2>11, <2>12,
       <2>13, <2>14, <2>15, <2>16 DEF Run
<1>3. CASE Environment
  <2>1. CASE WiFiDrops \/ WiFiComesUp \/ CalmBegins \/ RetryTimer
    BY <1>0, <2>1 DEF WiFiDrops, WiFiComesUp, CalmBegins, RetryTimer, contractVars,
                      facadeVars
  <2>2. CASE LinkBreaks \/ Broker
    BY <1>0, <2>2 DEF LinkBreaks, LinkLost, Broker, BrokerConnect, BrokerApplies,
                      BrokerForgets, facadeVars
  <2>3. CASE Reboot
    BY <2>3 DEF Reboot, PowerCycle, Return
  <2>4. ASSUME NEW m \in InMsgs, OnMessage(m) PROVE PointInv' /\ StateInv'
    BY <1>0, <2>4 DEF OnMessage, Deliver
  <2> QED
    BY <1>3, <2>1, <2>2, <2>3, <2>4 DEF Environment
<1>4. CASE UNCHANGED vars
  BY <1>4 DEF vars, contractVars, facadeVars
<1> QED
  BY <1>1, <1>2, <1>3, <1>4 DEF Next

LEMMA Reported == Spec => [](PointInv /\ StateInv)
  BY InitPoint, NextPoint, Types, PTL DEF Spec

\* state() never reports a refusal, a time out or a disconnect() to a sketch
\* whose client is connected, over any calls, losses, refusals and restarts.
THEOREM StateIsTruthful == Spec => []NoVerdictWhileConnected
<1>1. StateInv => NoVerdictWhileConnected
  BY DEF StateInv, GoodStates, NoVerdictWhileConnected, Connected
<1> QED
  BY <1>1, Reported, PTL

\* begin() connects only after it has given the client its network object,
\* and has done so when it succeeded.
BegunInv ==
  /\ setup = "done" => begun
  /\ caller = "begin" /\ at # "joining" => begun
  /\ CrashNeedsFailedBegin

\* connect() is called of a client without a network object by loop() only, and
\* only in a sketch that went on after a begin() that could not join WiFi: in
\* any order of calls, faults, retries and restarts.
THEOREM CrashIsFailedBegin == Spec => []CrashNeedsFailedBegin
<1>1. Init => BegunInv
  BY DEF Init, BegunInv, CrashNeedsFailedBegin
<1>2. ASSUME FacadeTypes, PointInv, BegunInv, [Next]_vars PROVE BegunInv'
  <2> USE DEF BegunInv, CrashNeedsFailedBegin, PointInv, MayCallLoop, MayCallBegin
  <2>0. setup \in {"before", "failed", "done"} /\ caller \in {"begin", "loop"}
    BY <1>2 DEF FacadeTypes, TypeOK
  <2>1. CASE Sketch
    <3>1. CASE \/ BeginCall \/ LoopWithoutWiFi \/ StateCall \/ TakeIncoming \/ LoopCall
               \/ PublishCall \/ DisconnectCall
      BY <1>2, <2>0, <3>1
      DEF BeginCall, LoopWithoutWiFi, StartJoining, StateCall, TakeIncoming, LoopCall,
          PublishCall, DisconnectCall, facadeVars
    <3>2. ASSUME NEW f \in Filters, NEW q \in LevelsOf[f], SubscribeCall(f, q)
          PROVE BegunInv'
      BY <1>2, <2>0, <3>2 DEF SubscribeCall, facadeVars
    <3>3. ASSUME NEW f \in Filters, UnsubscribeCall(f) PROVE BegunInv'
      BY <1>2, <2>0, <3>3 DEF UnsubscribeCall, facadeVars
    <3> QED
      BY <2>1, <3>1, <3>2, <3>3 DEF Sketch
  <2>2. CASE Run
    <3>1. CASE Joined
      BY <1>2, <2>0, <3>1 DEF Joined, Return
    <3>2. CASE JoinTimesOut \/ TimeOut
      BY <1>2, <2>0, <3>2 DEF JoinTimesOut, TimeOut, GiveUp, Return
    <3>3. CASE Crash \/ TryAgain \/ AttemptSent
      BY <1>2, <2>0, <3>3 DEF Crash, TryAgain, AttemptSent, facadeVars
    <3>4. CASE AttemptRefused \/ AttemptFails
      BY <1>2, <2>0, <3>4 DEF AttemptRefused, AttemptFails, Judge, GiveUp, Return
    <3>5. CASE ConnectSucceeds
      BY <1>2, <2>0, <3>5 DEF ConnectSucceeds, Reconnected, Return
    <3>6. CASE ConnectReturnsFalse
      BY <1>2, <2>0, <3>6 DEF ConnectReturnsFalse, Judge, GiveUp, Return
    <3>7. CASE LoopReturns \/ LoopEnds \/ LoopDisconnected
      BY <1>2, <2>0, <3>7 DEF LoopReturns, LoopEnds, LoopDisconnected, Retry, Return,
                              facadeVars
    <3>8. CASE RestoreNext \/ RestoreReturns \/ RestoreEnds
      BY <1>2, <2>0, <3>8 DEF RestoreNext, RestoreReturns, RestoreEnds, Return
    <3>9. CASE \/ SubscribeSucceeds \/ SubscribeFails \/ UnsubscribeSucceeds
               \/ UnsubscribeFails \/ PublishReturns
      BY <1>2, <2>0, <3>9 DEF SubscribeSucceeds, SubscribeFails, UnsubscribeSucceeds,
                              UnsubscribeFails, PublishReturns, Return
    <3> QED
      BY <2>2, <3>1, <3>2, <3>3, <3>4, <3>5, <3>6, <3>7, <3>8, <3>9 DEF Run
  <2>3. CASE Environment
    <3>1. CASE Reboot
      BY <3>1 DEF Reboot, Return
    <3>2. CASE ~Reboot
      <4>1. UNCHANGED <<setup, begun, caller, at>>
        BY <2>3, <3>2 DEF Environment, WiFiDrops, WiFiComesUp, CalmBegins, RetryTimer,
                          LinkBreaks, Broker, OnMessage, facadeVars
      <4> QED
        BY <1>2, <4>1
    <3> QED
      BY <3>1, <3>2
  <2>4. CASE UNCHANGED vars
    BY <1>2, <2>4 DEF vars, facadeVars
  <2> QED
    BY <1>2, <2>1, <2>2, <2>3, <2>4 DEF Next
<1>3. BegunInv => CrashNeedsFailedBegin
  BY DEF BegunInv
<1> QED
  BY <1>1, <1>2, <1>3, Types, Reported, PTL DEF Spec

-----------------------------------------------------------------------------
(* The table                                                               *)

\* There are no more filters than slots, and each is short enough for a slot.
FiltersFit ==
  /\ IsFiniteSet(Filters)
  /\ Cardinality(Filters) <= MaxSubs
  /\ \A f \in Filters : Stored[f] = f

\* TableMatchesWanted, slot by slot and filter by filter.
TableInv ==
  /\ \A i \in 1..MaxSubs :
       table[i] # FreeSlot => wanted[table[i].topic] = table[i].qos
  /\ \A i, j \in 1..MaxSubs :
       table[i] # FreeSlot /\ table[j] # FreeSlot /\ table[i].topic = table[j].topic
         => i = j
  /\ \A t \in Topics :
       wanted[t] # NoQoS =>
         t \in Filters /\ \E i \in 1..MaxSubs : table[i] # FreeSlot /\ table[i].topic = t

LEMMA LevelIsWanted == NoQoS \notin QoSLevels /\ NoQoS = -1
  BY ContractAssumption DEF NoQoS

LEMMA TableInvMatches == FacadeTypes /\ TableInv => TableMatchesWanted
<1> SUFFICES ASSUME FacadeTypes, TableInv PROVE TableMatchesWanted
  OBVIOUS
<1>1. ActiveSlots(1) = {i \in 1..MaxSubs : table[i] # FreeSlot}
  BY DEF ActiveSlots
<1>2. ASSUME NEW i \in ActiveSlots(1)
      PROVE /\ table[i].topic \in Topics
            /\ wanted[table[i].topic] = table[i].qos
            /\ wanted[table[i].topic] # NoQoS
  BY <1>1, SlotInUse, LevelIsWanted DEF FacadeTypes, TypeOK, TableInv
<1>3. ASSUME NEW t \in Topics, wanted[t] # NoQoS
      PROVE \E i \in ActiveSlots(1) : table[i].topic = t /\ table[i].qos = wanted[t]
  BY <1>1, <1>2, <1>3 DEF TableInv
<1>4. {<<table[i].topic, table[i].qos>> : i \in ActiveSlots(1)}
        = {<<t, wanted[t]>> : t \in {t \in Topics : wanted[t] # NoQoS}}
  BY <1>2, <1>3
<1>5. \A i, j \in ActiveSlots(1) : table[i].topic = table[j].topic => i = j
  BY <1>1 DEF TableInv
<1> QED
  BY <1>4, <1>5 DEF TableMatchesWanted

\* There is a slot for a filter that is not subscribed to.
LEMMA RoomInTable ==
  ASSUME FiltersFit, FacadeTypes, TableInv, NEW f \in Filters, wanted[f] = NoQoS
  PROVE \E i \in 1..MaxSubs : table[i] = FreeSlot
<1> SUFFICES ASSUME \A i \in 1..MaxSubs : table[i] # FreeSlot PROVE FALSE
  OBVIOUS
<1> DEFINE topicOf == [i \in 1..MaxSubs |-> table[i].topic]
<1>1. ASSUME NEW i \in 1..MaxSubs PROVE table[i].topic \in Filters \ {f}
  <2>1. table[i] \in [topic : Topics, qos : QoSLevels]
    BY SlotInUse DEF FacadeTypes, TypeOK
  <2>2. wanted[table[i].topic] # NoQoS
    BY <2>1, LevelIsWanted DEF TableInv
  <2> QED
    BY <2>1, <2>2 DEF TableInv
<1>2. topicOf \in [1..MaxSubs -> Filters \ {f}]
  BY <1>1
<1>3. /\ IsFiniteSet(Filters \ {f})
      /\ Cardinality(Filters \ {f}) = Cardinality(Filters) - 1
  BY FS_RemoveElement DEF FiltersFit
<1>4. IsFiniteSet(1..MaxSubs) /\ Cardinality(1..MaxSubs) = MaxSubs
  BY FS_Interval, FacadeAssumption
<1>5. Cardinality(Filters) \in Nat /\ Cardinality(Filters) <= MaxSubs
  BY FS_CardinalityType DEF FiltersFit
<1>6. Cardinality(Filters \ {f}) < Cardinality(1..MaxSubs)
  BY <1>3, <1>4, <1>5, FacadeAssumption
<1>7. \E i, j \in 1..MaxSubs : i # j /\ topicOf[i] = topicOf[j]
  <2> DEFINE S == 1..MaxSubs
             T == Filters \ {f}
  <2>1. IsFiniteSet(S) /\ IsFiniteSet(T) /\ Cardinality(T) < Cardinality(S)
    BY <1>3, <1>4, <1>6
  <2>2. topicOf \in [S -> T]
    BY <1>2
  <2> HIDE DEF S, T, topicOf
  <2>3. \E i, j \in S : i # j /\ topicOf[i] = topicOf[j]
    BY <2>1, <2>2, FS_PigeonHole
  <2> QED
    BY <2>3 DEF S
<1> QED
  BY <1>7 DEF topicOf, TableInv

\* Only the ends of subscribe() and unsubscribe() and a restart change the table
\* or what the sketch is subscribed to.
LEMMA TableStays ==
  ASSUME Next, ~SubscribeSucceeds, ~UnsubscribeSucceeds, ~Reboot
  PROVE UNCHANGED <<table, wanted>>
<1>1. CASE Sketch
  BY <1>1 DEF Sketch, BeginCall, LoopWithoutWiFi, StateCall, TakeIncoming, LoopCall,
              PublishCall, DisconnectCall, SubscribeCall, UnsubscribeCall, facadeVars
<1>2. CASE Run
  BY <1>2 DEF Run, Joined, JoinTimesOut, Crash, TryAgain, TimeOut, AttemptRefused,
              AttemptFails, AttemptSent, ConnectSucceeds, ConnectReturnsFalse,
              LoopReturns, LoopEnds, LoopDisconnected, RestoreNext, RestoreReturns,
              RestoreEnds, SubscribeFails, UnsubscribeFails, PublishReturns, facadeVars
<1>3. CASE Environment
  BY <1>3 DEF Environment, WiFiDrops, WiFiComesUp, CalmBegins, RetryTimer, LinkBreaks,
              Broker, OnMessage, facadeVars
<1> QED
  BY <1>1, <1>2, <1>3 DEF Next

\* A filter that is in no slot takes a free one.
LEMMA Recorded ==
  ASSUME FiltersFit, FacadeTypes, TableInv,
         NEW f \in Filters, NEW q \in QoSLevels, wanted[f] = NoQoS,
         Record(f, q), wanted' = [wanted EXCEPT ![f] = q]
  PROVE TableInv'
<1> DEFINE free == {i \in 1..MaxSubs : table[i] = FreeSlot}
           slot == [topic |-> f, qos |-> q]
<1>0. /\ f \in Topics /\ q # NoQoS /\ Stored[f] = f
      /\ table \in [1..MaxSubs -> Slots]
      /\ wanted \in [Topics -> QoSLevels \cup {NoQoS}]
      /\ MaxSubs \in Nat
  BY FacadeAssumption, LevelIsWanted, TypeParts DEF FiltersFit, FacadeFields
<1>1. PICK i \in 1..MaxSubs :
        table[i] = FreeSlot /\ table' = [table EXCEPT ![i] = slot]
  <2>1. free # {} /\ free \in SUBSET (1..MaxSubs)
    BY RoomInTable
  <2>2. Min(free) \in free
    BY <1>0, <2>1, FirstSlot
  <2>3. table' = [table EXCEPT ![Min(free)] = slot]
    BY <1>0, <2>1 DEF Record
  <2> HIDE DEF slot
  <2> QED
    BY <2>2, <2>3
<1>2. slot # FreeSlot /\ slot.topic = f /\ slot.qos = q
  BY <1>0, LevelIsWanted DEF FreeSlot
<1>3. \A j \in 1..MaxSubs : table[j] # FreeSlot => table[j].topic # f /\ table[j].topic \in Topics
  BY <1>0, SlotInUse, LevelIsWanted DEF TableInv, Slots
<1> HIDE DEF slot
<1>4. /\ (table')[i] = slot
      /\ \A j \in 1..MaxSubs : j # i => (table')[j] = table[j]
  BY <1>0, <1>1
<1>5. /\ (wanted')[f] = q
      /\ \A t \in Topics : t # f => (wanted')[t] = wanted[t]
  BY <1>0
<1>6. \A j \in 1..MaxSubs : (table')[j] # FreeSlot => (wanted')[(table')[j].topic] = (table')[j].qos
  BY <1>2, <1>3, <1>4, <1>5 DEF TableInv
<1>7. \A j, k \in 1..MaxSubs :
        /\ (table')[j] # FreeSlot /\ (table')[k] # FreeSlot
        /\ (table')[j].topic = (table')[k].topic
        => j = k
  BY <1>2, <1>3, <1>4 DEF TableInv
<1>8. ASSUME NEW t \in Topics, (wanted')[t] # NoQoS
      PROVE t \in Filters /\ \E j \in 1..MaxSubs : (table')[j] # FreeSlot /\ (table')[j].topic = t
  <2>1. CASE t = f
    BY <1>2, <1>4, <2>1
  <2>2. CASE t # f
    <3>1. t \in Filters
      BY <1>5, <1>8, <2>2 DEF TableInv
    <3>2. PICK j \in 1..MaxSubs : table[j] # FreeSlot /\ table[j].topic = t
      BY <1>5, <1>8, <2>2 DEF TableInv
    <3> QED
      BY <1>1, <1>4, <3>1, <3>2
  <2> QED
    BY <2>1, <2>2
<1> QED
  BY <1>6, <1>7, <1>8 DEF TableInv

\* The only slot that holds the filter is freed.
LEMMA Forgotten ==
  ASSUME FacadeTypes, TableInv, NEW f \in Topics,
         Forget(f), wanted' = [wanted EXCEPT ![f] = NoQoS]
  PROVE TableInv'
<1> DEFINE held == {i \in ActiveSlots(1) : table[i].topic = f}
<1>0. /\ table \in [1..MaxSubs -> Slots]
      /\ wanted \in [Topics -> QoSLevels \cup {NoQoS}]
      /\ MaxSubs \in Nat
  BY FacadeAssumption, TypeParts DEF FacadeFields
<1>1. \A j \in 1..MaxSubs : table[j] # FreeSlot => table[j].topic \in Topics
  BY <1>0, SlotInUse DEF Slots
<1>2. \A j \in 1..MaxSubs :
        (table')[j] = IF table[j] # FreeSlot /\ table[j].topic = f THEN FreeSlot ELSE table[j]
  <2>1. held = {j \in 1..MaxSubs : table[j] # FreeSlot /\ table[j].topic = f}
    BY DEF ActiveSlots
  <2>2. CASE held = {}
    <3>1. table' = table
      BY <2>2 DEF Forget
    <3> QED
      BY <2>1, <2>2, <3>1
  <2>3. CASE held # {}
    <3>1. Min(held) \in held
      BY <1>0, <2>1, <2>3, FirstSlot
    <3>2. table' = [table EXCEPT ![Min(held)] = FreeSlot]
      BY <2>3 DEF Forget
    <3>3. \A j \in held : j = Min(held)
      BY <2>1, <3>1 DEF TableInv
    <3> HIDE DEF held
    <3> QED
      BY <1>0, <2>1, <3>1, <3>2, <3>3
  <2> QED
    BY <2>2, <2>3
<1>3. /\ (wanted')[f] = NoQoS
      /\ \A t \in Topics : t # f => (wanted')[t] = wanted[t]
  BY <1>0
<1>4. \A j \in 1..MaxSubs : (table')[j] # FreeSlot => (wanted')[(table')[j].topic] = (table')[j].qos
  BY <1>1, <1>2, <1>3 DEF TableInv
<1>5. \A j, k \in 1..MaxSubs :
        /\ (table')[j] # FreeSlot /\ (table')[k] # FreeSlot
        /\ (table')[j].topic = (table')[k].topic
        => j = k
  BY <1>2 DEF TableInv
<1>6. ASSUME NEW t \in Topics, (wanted')[t] # NoQoS
      PROVE t \in Filters /\ \E j \in 1..MaxSubs : (table')[j] # FreeSlot /\ (table')[j].topic = t
  <2>1. t # f /\ wanted[t] # NoQoS
    BY <1>3, <1>6
  <2>2. t \in Filters
    BY <2>1 DEF TableInv
  <2>3. PICK j \in 1..MaxSubs : table[j] # FreeSlot /\ table[j].topic = t
    BY <2>1 DEF TableInv
  <2> QED
    BY <1>2, <2>1, <2>2, <2>3
<1> QED
  BY <1>4, <1>5, <1>6 DEF TableInv

LEMMA NextTable ==
  ASSUME Disciplined, FiltersFit, PowerCycles => CleanSession
  PROVE FacadeTypes /\ TableInv /\ [Next]_vars => TableInv'
<1> SUFFICES ASSUME FacadeTypes, TableInv, [Next]_vars PROVE TableInv'
  OBVIOUS
<1>1. CASE SubscribeSucceeds
  <2>1. PICK f \in Filters : \E q \in LevelsOf[f] :
               method = CallOf("subscribe", f, q) /\ MaySubscribe(f)
    BY <1>1 DEF SubscribeSucceeds, FacadeTypes, MethodAtPoint
  <2>2. PICK q \in LevelsOf[f] : method = CallOf("subscribe", f, q)
    BY <2>1
  <2>3. /\ method.topic = f /\ method.qos = q /\ q \in QoSLevels
        /\ wanted[f] = NoQoS
    BY <2>1, <2>2, CallFields, FacadeAssumption DEF MaySubscribe
  <2>4. Record(f, q) /\ wanted' = [wanted EXCEPT ![f] = q]
    BY <1>1, <2>3 DEF SubscribeSucceeds
  <2> QED
    BY <2>3, <2>4, Recorded
<1>2. CASE UnsubscribeSucceeds
  <2>1. PICK f \in Filters : method = CallOf("unsubscribe", f, NoQoS)
    BY <1>2 DEF UnsubscribeSucceeds, FacadeTypes, MethodAtPoint
  <2>2. method.topic = f /\ f \in Topics
    BY <2>1, CallFields, FacadeAssumption
  <2>3. Forget(f) /\ wanted' = [wanted EXCEPT ![f] = NoQoS]
    BY <1>2, <2>2 DEF UnsubscribeSucceeds
  <2> QED
    BY <2>2, <2>3, Forgotten
<1>3. CASE Reboot
  <2>1. table' = EmptyTable /\ wanted' = EmptySession
    BY <1>3 DEF Reboot
  <2> QED
    BY <2>1 DEF TableInv, EmptyTable, EmptySession
<1>4. CASE UNCHANGED <<table, wanted>>
  BY <1>4 DEF TableInv
<1> QED
  BY <1>1, <1>2, <1>3, <1>4, TableStays DEF vars, facadeVars

LEMMA InitTable == Init => TableInv
  BY DEF Init, TableInv, EmptyTable, EmptySession

\* The table is what the sketch is subscribed to, filter by filter and level by
\* level, each in one slot, for any number of slots, when no filter is subscribed
\* to twice and all fit; a restart may not meet a session that outlives it.
THEOREM TableIsWanted ==
  ASSUME Disciplined, FiltersFit, PowerCycles => CleanSession
  PROVE Spec => []TableMatchesWanted
  BY InitTable, NextTable, TableInvMatches, Types, PTL DEF Spec

-----------------------------------------------------------------------------
(* The subscriptions after a new connection                                *)

\* What the broker holds for this connection.
Mine(t) == session[clientId][t]

\* The filter is in a slot that restoreSubscriptions is past.
Past(t, i) ==
  \E j \in 1..MaxSubs : j < i /\ table[j] # FreeSlot /\ table[j].topic = t

\* At what points the session is what the sketch wants, and what is missing of
\* it at the others: all of it until the CONNACK, the slots to come while they
\* are restored, one filter while a request for it is under way.
RestoreInv ==
  /\ MayCallBegin => \A t \in Topics : wanted[t] = NoQoS
  /\ at = "connecting" =>
       \/ request = CallOf("connect", None, NoQoS) /\ ~attached
       \/ request = NoCall /\ (attached => \A t \in Topics : Mine(t) = NoQoS)
  /\ socket /\ at \in {"idle", "joining", "looping", "looped", "publishing"} =>
       request = NoCall /\ \A t \in Topics : Mine(t) = wanted[t]
  /\ socket /\ at \in {"subscribing", "unsubscribing"} =>
       /\ request \in {NoCall, method}
       /\ \A t \in Topics \ {method.topic} : Mine(t) = wanted[t]
  /\ socket /\ at = "restoring" =>
       /\ request = NoCall
       /\ \A t \in Topics : Mine(t) = IF Past(t, index) THEN wanted[t] ELSE NoQoS
  /\ socket /\ at = "resubscribing" =>
       /\ request \in {NoCall, method}
       /\ \A t \in Topics \ {method.topic} :
            Mine(t) = IF Past(t, index) THEN wanted[t] ELSE NoQoS

LEMMA InitRestore == Init => RestoreInv
  BY DEF Init, ContractInit, RestoreInv, EmptySession

\* What the broker does to the session of the connection.
LEMMA BrokerRestores ==
  ASSUME CleanSession, FacadeTypes, RestoreInv, Broker PROVE RestoreInv'
<1>0. /\ UNCHANGED <<wifi, calm, setup, begun, state, retryDue, table, incoming, caller,
                    index, at, wanted, method, socket, clientId>>
      /\ MethodAtPoint
      /\ clientId \in ClientIds
      /\ session \in [ClientIds -> [Topics -> QoSLevels \cup {NoQoS}]]
      /\ at \in Points
  BY DEF Broker, BrokerConnect, BrokerApplies, BrokerForgets, environmentVars, facadeVars,
         FacadeTypes, TypeOK
<1>1. ASSUME NEW ok \in BOOLEAN, BrokerConnect(ok) PROVE RestoreInv'
  <2>1. /\ request.op = "connect" /\ request' = NoCall /\ attached' = ok
        /\ session' = IF ok THEN [session EXCEPT ![clientId] = EmptySession] ELSE session
    BY <1>1 DEF BrokerConnect
  <2>2. request # NoCall /\ (socket => at = "connecting" \/ request # method)
    BY <1>0, <2>1, CallFields DEF NoCall, MethodAtPoint, Points, OwnPoints
  <2>3. ok => \A t \in Topics : (session')[clientId][t] = NoQoS
    BY <1>0, <2>1 DEF EmptySession
  <2> QED
    BY <1>0, <2>1, <2>2, <2>3 DEF RestoreInv, Mine, Past, MayCallBegin, Points
<1>2. ASSUME NEW granted \in BOOLEAN, BrokerApplies(granted) PROVE RestoreInv'
  <2>1. /\ request.op \in {"subscribe", "unsubscribe"} /\ request' = NoCall
        /\ UNCHANGED attached
        /\ session' = IF granted
                        THEN [session EXCEPT ![clientId][request.topic] = request.qos]
                        ELSE session
    BY <1>2 DEF BrokerApplies
  <2>2. request # NoCall /\ request # CallOf("connect", None, NoQoS)
    BY <2>1, CallFields DEF NoCall
  <2>3. \A t \in Topics : t # request.topic => Mine(t)' = Mine(t)
    BY <1>0, <2>1 DEF Mine
  <2> QED
    BY <1>0, <2>1, <2>2, <2>3 DEF RestoreInv, Past, MayCallBegin, Points
<1>3. CASE BrokerForgets
  <2>1. ~socket /\ attached' = FALSE /\ UNCHANGED <<request, session>>
    BY <1>3 DEF BrokerForgets
  <2> QED
    BY <1>0, <2>1 DEF RestoreInv, Mine, MayCallBegin
<1> QED
  BY <1>1, <1>2, <1>3 DEF Broker

\* Nothing of what RestoreInv speaks of changes but perhaps the point, between
\* points where it says the same.
LEMMA SketchRestores ==
  ASSUME FacadeTypes, PointInv, RestoreInv, Sketch PROVE RestoreInv'
<1> USE DEF RestoreInv, Mine, Past, MayCallBegin, MayCallLoop
<1>0. BeginChecked \in BOOLEAN /\ setup \in {"before", "failed", "done"} /\ MethodAtPoint
  BY FacadeAssumption DEF FacadeTypes, TypeOK
<1>1. CASE BeginCall \/ LoopWithoutWiFi
  BY <1>0, <1>1 DEF BeginCall, LoopWithoutWiFi, StartJoining, contractVars, environmentVars
<1>2. CASE StateCall \/ TakeIncoming
  BY <1>0, <1>2 DEF StateCall, TakeIncoming, contractVars
<1>3. CASE LoopCall
  BY <1>0, <1>3 DEF LoopCall, LoopStart, MethodStart, contractVars, facadeVars
<1>4. CASE PublishCall
  BY <1>0, <1>4 DEF PublishCall, PublishStart, MethodStart, facadeVars
<1>5. CASE DisconnectCall
  BY <1>0, <1>5 DEF DisconnectCall, Disconnect, FailsAtOnce, CloseAndReturn, contractVars
<1>6. ASSUME NEW f \in Filters, NEW q \in LevelsOf[f], SubscribeCall(f, q)
      PROVE RestoreInv'
  BY <1>0, <1>6 DEF SubscribeCall, SubscribeStart, MethodStart, facadeVars
<1>7. ASSUME NEW f \in Filters, UnsubscribeCall(f) PROVE RestoreInv'
  BY <1>0, <1>7 DEF UnsubscribeCall, UnsubscribeStart, MethodStart, facadeVars
<1> QED
  BY <1>1, <1>2, <1>3, <1>4, <1>5, <1>6, <1>7 DEF Sketch

\* restoreSubscriptions takes the next slot in use: no filter is passed over.
LEMMA RestoreGoesOn ==
  ASSUME FacadeTypes, RestoreInv, RestoreNext PROVE RestoreInv'
<1> DEFINE i == Min(ActiveSlots(index))
<1>1. /\ i \in 1..MaxSubs /\ i >= index
      /\ \A j \in ActiveSlots(index) : i <= j
  BY NextSlot
<1>2. index \in Nat \ {0} /\ MaxSubs \in Nat
  BY FacadeAssumption DEF RestoreNext, FacadeTypes, TypeOK, MethodAtPoint
<1>3. /\ at = "restoring" /\ at' = "resubscribing" /\ index' = i
      /\ SubscribeStart(table[i].topic, table[i].qos)
      /\ UNCHANGED <<setup, table, wanted>>
  BY DEF RestoreNext
<1> HIDE DEF i
<1>4. \A t \in Topics : Past(t, i) <=> Past(t, index)
  BY <1>1, <1>2 DEF Past, ActiveSlots
<1>5. /\ socket /\ request' = method'
      /\ UNCHANGED <<socket, session, clientId>>
  BY <1>3 DEF SubscribeStart, MethodStart, Connected
<1>6. \A t \in Topics : Mine(t)' = Mine(t) /\ (Past(t, index)' <=> Past(t, i))
  BY <1>3, <1>5 DEF Mine, Past
<1>7. \A t \in Topics : Mine(t)' = IF Past(t, index)' THEN (wanted')[t] ELSE NoQoS
  BY <1>3, <1>4, <1>5, <1>6 DEF RestoreInv
<1> QED
  BY <1>3, <1>5, <1>7 DEF RestoreInv, MayCallBegin

\* subscribe() of a slot that returned true, or closed the connection.
LEMMA SlotRestored ==
  ASSUME FacadeTypes, TableInv, RestoreInv, RestoreReturns PROVE RestoreInv'
<1>1. /\ at = "resubscribing" /\ at' = "restoring" /\ index' = index + 1
      /\ UNCHANGED <<setup, table, wanted>>
  BY DEF RestoreReturns
<1>2. CASE ~socket'
  BY <1>1, <1>2 DEF RestoreInv, MayCallBegin
<1>3. CASE MethodReturnsTrue
  <2>1. /\ index \in 1..MaxSubs /\ table[index] # FreeSlot
        /\ method = CallOf("subscribe", table[index].topic, table[index].qos)
        /\ table[index] \in [topic : Topics, qos : QoSLevels]
        /\ MaxSubs \in Nat
    BY <1>1, SlotInUse, FacadeAssumption DEF FacadeTypes, TypeOK, MethodAtPoint
  <2>2. method.op = "subscribe" /\ method.topic = table[index].topic /\ method.qos = table[index].qos
    BY <2>1, CallFields
  <2>3. /\ request = NoCall /\ Mine(method.topic) = method.qos
        /\ UNCHANGED <<request, session, clientId, socket>>
    BY <1>3, <2>2 DEF MethodReturnsTrue, Granted, Mine
  <2>4. \A t \in Topics : Past(t, index + 1) <=> Past(t, index) \/ t = method.topic
    BY <2>1, <2>2 DEF Past
  <2>5. \A t \in Topics : Mine(t)' = Mine(t) /\ (Past(t, index)' <=> Past(t, index + 1))
    BY <1>1, <2>3 DEF Mine, Past
  <2>6. wanted[method.topic] = method.qos
    BY <2>1, <2>2 DEF TableInv
  <2>7. socket => \A t \in Topics : Mine(t) = IF Past(t, index + 1) THEN wanted[t] ELSE NoQoS
    BY <1>1, <2>3, <2>4, <2>6 DEF RestoreInv
  <2> QED
    BY <1>1, <2>3, <2>5, <2>7 DEF RestoreInv, MayCallBegin
<1> QED
  BY <1>2, <1>3 DEF RestoreReturns, MethodReturnsFalse, CloseAndReturn

\* When no slot is left the session is what the sketch wants.
LEMMA AllRestored ==
  ASSUME FacadeTypes, PointInv, TableInv, RestoreInv, RestoreEnds PROVE RestoreInv'
<1>1. /\ at = "restoring" /\ at' = "idle"
      /\ UNCHANGED <<setup, table, wanted, socket, connected, request, session, clientId>>
      /\ ActiveSlots(index) = {} \/ ~Connected
  BY DEF RestoreEnds, Return, contractVars
<1>2. index \in Nat \ {0} /\ MaxSubs \in Nat /\ wanted \in [Topics -> QoSLevels \cup {NoQoS}]
  BY <1>1, FacadeAssumption DEF FacadeTypes, TypeOK, MethodAtPoint
<1>3. ASSUME ActiveSlots(index) = {}, NEW t \in Topics PROVE Past(t, index) <=> wanted[t] # NoQoS
  <2>1. \A j \in 1..MaxSubs : table[j] # FreeSlot => j < index
    BY <1>2, <1>3 DEF ActiveSlots
  <2>2. ASSUME Past(t, index) PROVE wanted[t] # NoQoS
    BY <2>2, SlotInUse, LevelIsWanted DEF Past, TableInv, FacadeTypes, TypeOK
  <2>3. ASSUME wanted[t] # NoQoS PROVE Past(t, index)
    BY <2>1, <2>3 DEF Past, TableInv
  <2> QED
    BY <2>2, <2>3
<1>4. ASSUME socket, ActiveSlots(index) = {}, NEW t \in Topics PROVE Mine(t) = wanted[t]
  BY <1>1, <1>3, <1>4 DEF RestoreInv
<1>5. \A t \in Topics : Mine(t)' = Mine(t)
  BY <1>1 DEF Mine
<1>6. socket => ActiveSlots(index) = {}
  BY <1>1 DEF Connected, PointInv
<1>7. request' = request /\ (socket => request = NoCall)
  BY <1>1 DEF RestoreInv
<1> QED
  BY <1>1, <1>4, <1>5, <1>6, <1>7 DEF RestoreInv, MayCallBegin

LEMMA RunRestores ==
  ASSUME FacadeTypes, PointInv, TableInv, RestoreInv, Run PROVE RestoreInv'
<1> USE DEF MayCallBegin, MayCallLoop
<1>0. /\ BeginChecked \in BOOLEAN
      /\ setup \in {"before", "failed", "done"} /\ caller \in {"begin", "loop"}
      /\ MethodAtPoint
      /\ wanted \in [Topics -> QoSLevels \cup {NoQoS}]
  BY FacadeAssumption DEF FacadeTypes, TypeOK
<1>1. CASE Joined
  BY <1>0, <1>1 DEF Joined, Return, contractVars, PointInv, RestoreInv, Mine
<1>2. CASE JoinTimesOut \/ TimeOut
  BY <1>0, <1>2 DEF JoinTimesOut, TimeOut, GiveUp, Return, contractVars, PointInv,
                    RestoreInv, Mine
<1>3. CASE Crash \/ TryAgain
  BY <1>0, <1>3 DEF Crash, TryAgain, contractVars, facadeVars, RestoreInv
<1>4. CASE AttemptRefused \/ AttemptFails
  BY <1>0, <1>4 DEF AttemptRefused, AttemptFails, ConnectRefused, ConnectFails, Judge,
                    GiveUp, Return, PointInv, RestoreInv
<1>5. CASE AttemptSent
  BY <1>0, <1>5 DEF AttemptSent, ConnectStart, facadeVars, RestoreInv
<1>6. CASE ConnectSucceeds
  <2>1. /\ at = "connecting" /\ setup' \in {setup, "done"} /\ UNCHANGED <<table, wanted>>
        /\ caller = "begin" => at' = "idle"
        /\ caller = "loop" => at' = "restoring" /\ index' = 1
        /\ request = NoCall /\ attached
        /\ UNCHANGED <<request, session, clientId>>
    BY <1>0, <1>6 DEF ConnectSucceeds, ConnectReturnsTrue, Reconnected, Return
  <2>2. \A t \in Topics : Mine(t) = NoQoS /\ Mine(t)' = NoQoS
    BY <2>1, CallFields DEF RestoreInv, Mine, NoCall
  <2>3. ASSUME caller = "loop", NEW t \in Topics PROVE ~Past(t, index)'
    BY <2>1, <2>3, FacadeAssumption DEF Past
  <2>4. CASE caller = "begin"
    BY <1>0, <2>1, <2>2, <2>4 DEF RestoreInv, PointInv
  <2>5. CASE caller = "loop"
    BY <1>0, <2>1, <2>2, <2>3, <2>5 DEF RestoreInv, PointInv
  <2> QED
    BY <1>0, <2>4, <2>5
<1>7. CASE ConnectReturnsFalse
  BY <1>0, <1>7 DEF ConnectReturnsFalse, ConnectUnanswered, ConnectDenied, CloseAndReturn,
                    Judge, GiveUp, Return, PointInv, RestoreInv
<1>8. CASE LoopReturns
  BY <1>0, <1>8 DEF LoopReturns, MethodReturnsTrue, MethodReturnsFalse, CloseAndReturn,
                    facadeVars, RestoreInv, Mine
<1>9. CASE LoopEnds \/ LoopDisconnected
  BY <1>0, <1>9 DEF LoopEnds, LoopDisconnected, Retry, Return, contractVars, Connected,
                    PointInv, RestoreInv, Mine
<1>10. CASE SubscribeSucceeds \/ UnsubscribeSucceeds
  <2>1. /\ at \in {"subscribing", "unsubscribing"} /\ at' = "idle"
        /\ caller = "loop" /\ UNCHANGED setup
        /\ MethodReturnsTrue
    BY <1>0, <1>10 DEF SubscribeSucceeds, UnsubscribeSucceeds, Return, PointInv
  <2>2. /\ method.op \in {"subscribe", "unsubscribe"}
        /\ method.op = "unsubscribe" => method.qos = NoQoS
    BY <1>0, <2>1, CallFields DEF MethodAtPoint
  <2>3. /\ request = NoCall /\ Mine(method.topic) = method.qos
        /\ UNCHANGED <<request, session, clientId, socket>>
    BY <2>1, <2>2 DEF MethodReturnsTrue, Granted, Mine
  <2>4. wanted' = [wanted EXCEPT ![method.topic] = method.qos]
    BY <1>0, <1>10, <2>1, CallFields DEF SubscribeSucceeds, UnsubscribeSucceeds, MethodAtPoint
  <2>5. \A t \in Topics : Mine(t)' = Mine(t)
    BY <2>3 DEF Mine
  <2>6. MayCallLoop /\ ~MayCallBegin'
    BY <1>0, <2>1 DEF PointInv
  <2>7. socket => \A t \in Topics : Mine(t)' = (wanted')[t]
    BY <1>0, <2>1, <2>3, <2>4, <2>5 DEF RestoreInv
  <2> QED
    BY <2>1, <2>3, <2>6, <2>7 DEF RestoreInv
<1>11. CASE SubscribeFails \/ UnsubscribeFails
  BY <1>0, <1>11 DEF SubscribeFails, UnsubscribeFails, MethodReturnsFalse, CloseAndReturn,
                     Return, RestoreInv
<1>12. CASE PublishReturns
  BY <1>0, <1>12 DEF PublishReturns, MethodReturnsTrue, MethodReturnsFalse, CloseAndReturn,
                     Return, RestoreInv, Mine
<1> QED
  BY <1>1, <1>2, <1>3, <1>4, <1>5, <1>6, <1>7, <1>8, <1>9, <1>10, <1>11, <1>12,
     RestoreGoesOn, SlotRestored, AllRestored DEF Run

LEMMA NextRestore ==
  ASSUME CleanSession
  PROVE FacadeTypes /\ PointInv /\ TableInv /\ RestoreInv /\ [Next]_vars => RestoreInv'
<1> SUFFICES ASSUME FacadeTypes, PointInv, TableInv, RestoreInv, [Next]_vars
             PROVE RestoreInv'
  OBVIOUS
<1>1. CASE Environment
  <2>1. CASE WiFiDrops \/ WiFiComesUp \/ CalmBegins \/ RetryTimer
    BY <2>1 DEF WiFiDrops, WiFiComesUp, CalmBegins, RetryTimer, contractVars, facadeVars,
                RestoreInv, Mine, Past, MayCallBegin
  <2>2. CASE LinkBreaks
    BY <2>2 DEF LinkBreaks, LinkLost, facadeVars, RestoreInv, Mine, MayCallBegin
  <2>3. CASE Reboot
    BY <2>3 DEF Reboot, PowerCycle, Return, EmptySession, RestoreInv
  <2>4. ASSUME NEW m \in InMsgs, OnMessage(m) PROVE RestoreInv'
    BY <2>4 DEF OnMessage, Deliver, RestoreInv, Mine, Past, MayCallBegin
  <2> QED
    BY <1>1, <2>1, <2>2, <2>3, <2>4, BrokerRestores DEF Environment
<1>2. CASE UNCHANGED vars
  BY <1>2 DEF vars, contractVars, facadeVars, RestoreInv, Mine, Past, MayCallBegin
<1> QED
  BY <1>1, <1>2, SketchRestores, RunRestores DEF Next

\* Whenever the sketch has the thread and the client is connected, the broker
\* holds for this connection exactly what the sketch subscribed to: after any
\* losses, refused or unanswered attempts, refused or cut off restorations,
\* restarts, and for any number of filters that fit into the table, none of them
\* subscribed to twice.
THEOREM RestoredForSure ==
  ASSUME CleanSession, Disciplined, FiltersFit
  PROVE Spec => []SubscriptionsRestored
<1>1. Init => TableInv /\ RestoreInv
  BY InitTable, InitRestore
<1>2. FacadeTypes /\ TableInv /\ [Next]_vars => TableInv'
  BY NextTable
<1>3. FacadeTypes /\ PointInv /\ TableInv /\ RestoreInv /\ [Next]_vars => RestoreInv'
  BY NextRestore
<1>4. ASSUME FacadeTypes, RestoreInv PROVE SubscriptionsRestored
  <2> SUFFICES ASSUME at = "idle", Connected PROVE session[clientId] = wanted
    BY DEF SubscriptionsRestored
  <2>1. \A t \in Topics : session[clientId][t] = wanted[t]
    BY <1>4 DEF RestoreInv, Mine, Connected
  <2>2. /\ session[clientId] \in [Topics -> QoSLevels \cup {NoQoS}]
        /\ wanted \in [Topics -> QoSLevels \cup {NoQoS}]
    BY <1>4 DEF FacadeTypes, TypeOK
  <2> QED
    BY <2>1, <2>2
<1> QED
  BY <1>1, <1>2, <1>3, <1>4, Types, Reported, PTL DEF Spec

=============================================================================
