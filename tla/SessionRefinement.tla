------------------------- MODULE SessionRefinement -------------------------
(***************************************************************************)
(* MQTTSession implements the two specifications of what a client is for:  *)
(* ClientContract, what its methods mean to their caller, and              *)
(* DeliveryService, what becomes of the messages.                          *)
(***************************************************************************)
EXTENDS MQTTSession

\* The methods that are a call of the contract, with the filter they name.
FilterOf(c) == IF c.op \in {"subscribe", "unsubscribe"} THEN c.msg ELSE NoMsg

\* The model of the session has no levels: a filter is subscribed to at 0.
LevelOf(op) == IF op = "subscribe" THEN 0 ELSE -1

CallView(op, filter) == [op |-> op, topic |-> filter, qos |-> LevelOf(op)]

\* The requests the broker has not read, by their place in the queue.
RequestNames == [CONNECT |-> "connect", SUBSCRIBE |-> "subscribe",
                 UNSUBSCRIBE |-> "unsubscribe"]

Requests == { i \in DOMAIN toBroker : toBroker[i].type \in DOMAIN RequestNames }

RequestView ==
  IF Requests = {} THEN CallView("none", NoMsg)
  ELSE LET p == toBroker[CHOOSE i \in Requests : TRUE] IN
         CallView(RequestNames[p.type], p.msg)

SessionView == [t \in Topics |-> IF t \in subs THEN 0 ELSE -1]

Contract == INSTANCE ClientContract WITH
  ClientIds <- {"client"},
  QoSLevels <- {0},
  Refusals <- {"denied"},
  None <- NoMsg,
  socket <- SocketConnected,
  method <- CallView(cmd.op, FilterOf(cmd)),
  request <- RequestView,
  clientId <- "client",
  session <- [id \in {"client"} |-> SessionView]

\* Every step of client, network and broker is a step of the contract or
\* changes nothing the caller of MQTTClient can tell: connect() returns true
\* only to an attached client, subscribe() only when the broker holds the
\* filter, a refused TCP connection leaves the old return code, a request of a
\* method that failed is applied late but only on its own connection, and the
\* callback runs only inside of a method of an attached client.
ImplementsContract == Contract!ContractSpec

-----------------------------------------------------------------------------

Settlement(m) ==
  CASE inflight[m] \in {"new", "published"} -> "open"
    [] inflight[m] \in {"released", "done"} -> "settled"
    [] inflight[m] = "dropped" -> "dropped"

Delivery == INSTANCE DeliveryService WITH
  Out <- Msgs,
  In <- InMsgs,
  AckedOut <- {m \in Msgs : OutQoS[m] > 0},
  result <- outcome,
  routed <- accepted,
  calls <- delivered,
  settlement <- [m \in InMsgs |-> Settlement(m)]

\* The handshakes of all QoS amount to the delivery service, over lost links,
\* late packets, restarts and reused packet ids: on clean sessions one routing
\* for one publish(), and true only after it; on any session the callback
\* before the settlement and never after.
ImplementsDelivery == Delivery!DeliverySpec

=============================================================================
