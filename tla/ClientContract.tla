--------------------------- MODULE ClientContract ---------------------------
(***************************************************************************)
(* What the class MQTTClient (MQTTClient.cpp), with a network and a broker *)
(* behind it, promises to the code that calls it: which methods may return *)
(* what, and what the broker then holds.  Packets, ids, timers and retries *)
(* are gone; what is left of the link is whether the socket is open,       *)
(* whether the broker accepted a CONNECT on it, and the one request that   *)
(* changes the broker's session and may still be under way.                *)
(*                                                                         *)
(* SessionRefinement shows that the client in detail implements this; the  *)
(* facade (module AViShaMQTT) is built on it.                              *)
(***************************************************************************)
EXTENDS Integers

CONSTANTS
  ClientIds,     \* client ids connect() may be called with
  Topics,        \* topic filters
  QoSLevels,     \* levels at which filters are subscribed to
  Refusals,      \* return codes of a CONNACK that refuses
  InMsgs,        \* messages the broker has for the client
  CleanSession,  \* the clean_session flag every CONNECT carries
  None           \* no filter, no message

ASSUME ContractAssumption ==
  /\ CleanSession \in BOOLEAN
  /\ QoSLevels \subseteq 0..2
  /\ ClientIds # {}
  /\ None \notin Topics \cup InMsgs
  /\ Refusals \cap {"accepted", "unknown"} = {}

VARIABLES
  socket,      \* netClient->connected()
  connected,   \* MQTTClient::_connected
  attached,    \* the broker accepted a CONNECT on this connection
  returnCode,  \* MQTTClient::_returnCode
  method,      \* the method that is running
  request,     \* the CONNECT, SUBSCRIBE or UNSUBSCRIBE under way
  clientId,    \* the client id of the last CONNECT
  session,     \* the QoS of each filter in the session of each client id
  delivered    \* how often the callback got each message (2: more)

contractVars == <<socket, connected, attached, returnCode, method, request,
                  clientId, session, delivered>>

NoQoS == -1      \* not subscribed to

\* A running method, or the packet it sent.
CallOf(op, topic, qos) == [op |-> op, topic |-> topic, qos |-> qos]

NoCall == CallOf("none", None, NoQoS)

EmptySession == [t \in Topics |-> NoQoS]

ContractInit ==
  /\ socket = FALSE
  /\ connected = FALSE
  /\ attached = FALSE
  /\ returnCode = "accepted"
  /\ method = NoCall
  /\ request = NoCall
  /\ clientId = CHOOSE id \in ClientIds : TRUE
  /\ session = [id \in ClientIds |-> EmptySession]
  /\ delivered = [m \in InMsgs |-> 0]

\* MQTTClient::connected()
Connected == socket /\ connected

NoMethod == method = NoCall

-----------------------------------------------------------------------------
(* connect()                                                               *)

\* The TCP connection is refused; the return code is that of another connect().
ConnectRefused ==
  /\ NoMethod
  /\ socket' = FALSE
  /\ connected' = (connected /\ ~socket)
  /\ UNCHANGED <<attached, returnCode, method, request, clientId, session, delivered>>

\* The CONNECT is on its way on a fresh connection.
ConnectStart(id) ==
  /\ NoMethod
  /\ socket' = TRUE
  /\ connected' = (connected /\ ~socket)
  /\ attached' = FALSE
  /\ method' = CallOf("connect", None, NoQoS)
  /\ request' = CallOf("connect", None, NoQoS)
  /\ clientId' = id
  /\ UNCHANGED <<returnCode, session, delivered>>

\* The connection was opened, the CONNECT could not be sent.
ConnectFails ==
  /\ NoMethod
  /\ socket' = FALSE
  /\ connected' = FALSE
  /\ returnCode' = "unknown"
  /\ request' = NoCall
  /\ UNCHANGED <<attached, method, clientId, session, delivered>>

ConnectReturnsTrue ==
  /\ method.op = "connect"
  /\ request = NoCall
  /\ attached
  /\ connected' = TRUE
  /\ returnCode' = "accepted"
  /\ method' = NoCall
  /\ UNCHANGED <<socket, attached, request, clientId, session, delivered>>

\* MQTTClient::close() as a failing method calls it.
CloseAndReturn ==
  /\ socket' = FALSE
  /\ connected' = FALSE
  /\ method' = NoCall
  /\ UNCHANGED <<attached, request, clientId, session, delivered>>

\* The CONNACK refuses with code rc.
ConnectDenied(rc) ==
  /\ method.op = "connect"
  /\ request = NoCall
  /\ ~attached
  /\ returnCode' = rc
  /\ CloseAndReturn

\* No CONNACK, or none that can be read.
ConnectUnanswered ==
  /\ method.op = "connect"
  /\ returnCode' = "unknown"
  /\ CloseAndReturn

-----------------------------------------------------------------------------
(* The other methods                                                       *)

MethodStart(c) ==
  /\ NoMethod
  /\ Connected
  /\ method' = c
  /\ UNCHANGED <<socket, connected, attached, returnCode, clientId, session, delivered>>

SubscribeStart(t, q) ==
  /\ MethodStart(CallOf("subscribe", t, q))
  /\ request' = CallOf("subscribe", t, q)

UnsubscribeStart(t) ==
  /\ MethodStart(CallOf("unsubscribe", t, NoQoS))
  /\ request' = CallOf("unsubscribe", t, NoQoS)

PublishStart == MethodStart(CallOf("publish", None, NoQoS)) /\ UNCHANGED request
LoopStart == MethodStart(CallOf("loop", None, NoQoS)) /\ UNCHANGED request

\* The session of this connection is what the running subscribe() or
\* unsubscribe() wants it to be.
Granted == request = NoCall /\ session[clientId][method.topic] = method.qos

MethodReturnsTrue ==
  /\ method.op \in {"subscribe", "unsubscribe", "publish", "loop"}
  /\ method.op \in {"subscribe", "unsubscribe"} => Granted
  /\ method' = NoCall
  /\ UNCHANGED <<socket, connected, attached, returnCode, request, clientId,
                 session, delivered>>

\* Whatever went wrong, the connection is closed; the request may still
\* reach the broker.
MethodReturnsFalse ==
  /\ method.op \in {"subscribe", "unsubscribe", "publish", "loop"}
  /\ CloseAndReturn
  /\ UNCHANGED returnCode

\* A method that fails before it waits for anything, and disconnect().
FailsAtOnce ==
  /\ NoMethod
  /\ Connected
  /\ CloseAndReturn
  /\ UNCHANGED returnCode

Disconnect == FailsAtOnce

\* The message callback runs inside of a method of a connected client.
Deliver(m) ==
  /\ method.op \in {"subscribe", "unsubscribe", "publish", "loop"}
  /\ socket
  /\ attached
  /\ delivered' = [delivered EXCEPT ![m] = IF @ = 0 THEN 1 ELSE 2]
  /\ UNCHANGED <<socket, connected, attached, returnCode, method, request,
                 clientId, session>>

\* The board restarts and begin() is called.
PowerCycle ==
  /\ socket' = FALSE
  /\ connected' = FALSE
  /\ returnCode' = "accepted"
  /\ method' = NoCall
  /\ UNCHANGED <<attached, request, clientId, session, delivered>>

-----------------------------------------------------------------------------
(* The network and the broker                                              *)

LinkLost ==
  /\ socket
  /\ socket' = FALSE
  /\ UNCHANGED <<connected, attached, returnCode, method, request, clientId,
                 session, delivered>>

\* The CONNECT arrives, be the client still waiting for the answer or not.
BrokerConnect(ok) ==
  /\ request.op = "connect"
  /\ request' = NoCall
  /\ attached' = ok
  /\ session' = IF ok /\ CleanSession
                  THEN [session EXCEPT ![clientId] = EmptySession]
                  ELSE session
  /\ UNCHANGED <<socket, connected, returnCode, method, clientId, delivered>>

\* The SUBSCRIBE or UNSUBSCRIBE arrives.
BrokerApplies(granted) ==
  /\ request.op \in {"subscribe", "unsubscribe"}
  /\ request.op = "unsubscribe" => granted
  /\ attached
  /\ request' = NoCall
  /\ session' = IF granted
                  THEN [session EXCEPT ![clientId][request.topic] = request.qos]
                  ELSE session
  /\ UNCHANGED <<socket, connected, attached, returnCode, method, clientId, delivered>>

\* The broker learns that the client has closed the connection.
BrokerForgets ==
  /\ ~socket
  /\ attached
  /\ attached' = FALSE
  /\ UNCHANGED <<socket, connected, returnCode, method, request, clientId,
                 session, delivered>>

-----------------------------------------------------------------------------

Methods ==
  \/ ConnectRefused
  \/ \E id \in ClientIds : ConnectStart(id)
  \/ ConnectFails
  \/ ConnectReturnsTrue
  \/ \E rc \in Refusals : ConnectDenied(rc)
  \/ ConnectUnanswered
  \/ \E t \in Topics, q \in QoSLevels : SubscribeStart(t, q)
  \/ \E t \in Topics : UnsubscribeStart(t)
  \/ PublishStart
  \/ LoopStart
  \/ MethodReturnsTrue
  \/ MethodReturnsFalse
  \/ FailsAtOnce
  \/ \E m \in InMsgs : Deliver(m)
  \/ PowerCycle

Surroundings ==
  \/ LinkLost
  \/ \E ok \in BOOLEAN : BrokerConnect(ok)
  \/ \E granted \in BOOLEAN : BrokerApplies(granted)
  \/ BrokerForgets

ContractSpec == ContractInit /\ [][Methods \/ Surroundings]_contractVars

=============================================================================
