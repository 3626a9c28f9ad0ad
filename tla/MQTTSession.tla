----------------------------- MODULE MQTTSession -----------------------------
(***************************************************************************)
(* One MQTTClient, the network and a broker, and what the three together   *)
(* must keep.  Every step is one step of one of them.                      *)
(***************************************************************************)
EXTENDS MQTTClient, MQTTBroker, FiniteSets

vars == <<networkVars, brokerVars, clientVars>>

Init == NetworkInit /\ BrokerInit /\ ClientInit

\* A call of the application.
Call ==
  \/ ConnectRefused /\ UNCHANGED brokerVars
  \/ ConnectStart /\ UNCHANGED brokerVars
  \/ ConnectFails /\ UNCHANGED brokerVars
  \/ \E m \in Msgs : PublishQoS0(m) /\ UNCHANGED brokerVars
  \/ \E m \in Msgs : PublishStart(m) /\ UNCHANGED brokerVars
  \/ \E m \in Msgs : PublishFails(m) /\ UNCHANGED brokerVars
  \/ PrepareDuplicate /\ UNCHANGED brokerVars
  \/ \E t \in Topics : SubscribeStart(t) /\ UNCHANGED brokerVars
  \/ \E t \in Topics : UnsubscribeStart(t) /\ UNCHANGED brokerVars
  \/ \E t \in Topics : RequestFails(t) /\ UNCHANGED brokerVars
  \/ Disconnect /\ UNCHANGED brokerVars
  \/ LoopYields /\ UNCHANGED brokerVars
  \/ LoopSkipsYield /\ UNCHANGED brokerVars

\* A step of the method that is running.
Run ==
  \/ ReceivePublish /\ UNCHANGED brokerVars
  \/ ReceiveAckToAnswer /\ UNCHANGED brokerVars
  \/ ReceivePingresp /\ UNCHANGED brokerVars
  \/ ReceiveOther /\ UNCHANGED brokerVars
  \/ SendAck /\ UNCHANGED brokerVars
  \/ SendAckFails /\ UNCHANGED brokerVars
  \/ DropPacket /\ UNCHANGED brokerVars
  \/ ReadPacketFails /\ UNCHANGED brokerVars
  \/ ReadFails /\ UNCHANGED brokerVars
  \/ ReadNothing /\ UNCHANGED brokerVars
  \/ NextCycle /\ UNCHANGED brokerVars
  \/ CommandAcked /\ UNCHANGED brokerVars
  \/ CommandRejected /\ UNCHANGED brokerVars
  \/ CommandTimesOut /\ UNCHANGED brokerVars
  \/ YieldEnds /\ UNCHANGED brokerVars
  \/ NoPingDue /\ UNCHANGED brokerVars
  \/ PongTimeout /\ UNCHANGED brokerVars
  \/ SendPing /\ UNCHANGED brokerVars
  \/ SendPingFails /\ UNCHANGED brokerVars

\* The clock, the board and the link.
Environment ==
  \/ CommandTimerExpires /\ UNCHANGED brokerVars
  \/ KeepAliveTimerExpires /\ UNCHANGED brokerVars
  \/ PowerCycle /\ UNCHANGED brokerVars
  \/ LinkReset /\ UNCHANGED <<brokerVars, clientVars>>
  \/ LinkStall /\ UNCHANGED <<brokerVars, clientVars>>

BrokerReads ==
  \/ \E ok \in BOOLEAN : BrokerConnect(ok) /\ UNCHANGED clientVars
  \/ BrokerPublishQoS0 /\ UNCHANGED clientVars
  \/ BrokerPublishQoS1 /\ UNCHANGED clientVars
  \/ BrokerPublishQoS2 /\ UNCHANGED clientVars
  \/ BrokerPubrel /\ UNCHANGED clientVars
  \/ \E ok \in BOOLEAN : BrokerSubscribe(ok) /\ UNCHANGED clientVars
  \/ BrokerUnsubscribe /\ UNCHANGED clientVars
  \/ BrokerPingreq /\ UNCHANGED clientVars
  \/ BrokerDisconnect /\ UNCHANGED clientVars
  \/ BrokerPuback /\ UNCHANGED clientVars
  \/ BrokerPubrec /\ UNCHANGED clientVars
  \/ BrokerPubcomp /\ UNCHANGED clientVars

BrokerSends ==
  \/ \E m \in InMsgs : BrokerPush(m) /\ UNCHANGED clientVars
  \/ \E m \in InMsgs : BrokerResend(m) /\ UNCHANGED clientVars

Next == Call \/ Run \/ Environment \/ BrokerReads \/ BrokerSends

Spec == Init /\ [][Next]_vars

-----------------------------------------------------------------------------

\* What the scheduling grants: a running method gets on (it owns the thread),
\* the clock runs, sketches call loop() for ever and in time it finds what has
\* arrived, and a broker reads a link that works.  No call but loop() is ever
\* promised, nor is anything of the network.
Fairness ==
  /\ WF_vars(Run)
  /\ WF_vars(CommandTimerExpires /\ UNCHANGED brokerVars)
  /\ WF_vars(KeepAliveTimerExpires /\ UNCHANGED brokerVars)
  /\ WF_vars(LoopSkipsYield /\ UNCHANGED brokerVars)
  /\ SF_vars(LoopYields /\ UNCHANGED brokerVars)
  /\ WF_vars(net = "open" /\ BrokerReads)

FairSpec == Spec /\ Fairness

-----------------------------------------------------------------------------

\* The packets each side sends: the client publishes its own messages and
\* names filters; an inbound message travels under the id that stands for it.
ClientPacket ==
  { p \in Packet :
      /\ p.type \in { "CONNECT", "PUBLISH", "PUBACK", "PUBREC", "PUBREL", "PUBCOMP",
                      "SUBSCRIBE", "UNSUBSCRIBE", "PINGREQ", "DISCONNECT" }
      /\ p.type = "PUBLISH" => p.msg \in Msgs
      /\ p.type = "SUBSCRIBE" => p.msg \in Topics }

BrokerPacket ==
  { p \in Packet :
      /\ p.type \in { "CONNACK", "PUBLISH", "PUBACK", "PUBREC", "PUBREL", "PUBCOMP",
                      "SUBACK", "UNSUBACK", "PINGRESP" }
      /\ p.type = "PUBLISH" => p.msg \in InMsgs /\ (p.qos > 0 => p.id = p.msg) }

Commands ==
  [ op : {"none", "connect", "publish", "subscribe", "unsubscribe", "loop"},
    needle : PacketTypes, id : 0..MaxPacketId, msg : Payloads, available : Nat ]

NetworkTypeOK ==
  /\ net \in {"closed", "open", "half"}
  /\ toBroker \in Seq(ClientPacket)
  /\ toClient \in Seq(BrokerPacket)
  /\ attached \in BOOLEAN

BrokerTypeOK ==
  /\ subs \subseteq Topics
  /\ awaitRel \in [1..MaxPacketId -> Msgs \cup {NoMsg}]
  /\ accepted \in [Msgs -> 0..2]
  /\ inflight \in [InMsgs -> Progress]
  /\ onLink \subseteq InMsgs

\* The part of the client that outlives a method call.
SessionTypeOK ==
  /\ lastPacketId \in 0..MaxPacketId
  /\ pongPending \in BOOLEAN
  /\ keepAliveDue \in BOOLEAN
  /\ nextDup \in 0..MaxPacketId

\* cycle_once answers only the packets it has an answer for.
MethodTypeOK ==
  /\ connected \in BOOLEAN
  /\ expired \in BOOLEAN
  /\ returnCode \in {"accepted", "unknown", "denied"}
  /\ lastError \in Errors
  /\ pc \in {"idle", "wait", "ack", "check", "ping"}
  /\ cmd \in Commands
  /\ readBuf \in BrokerPacket \cup {EncodeZero(NoPacket)}
  /\ pc = "ack" => readBuf.type \in {"PUBLISH", "PUBREC", "PUBREL"}
  /\ outcome \in [Msgs -> {"none", "pending", "ok", "failed"}]

\* The types of all variables.
TypeOK ==
  /\ NetworkTypeOK
  /\ BrokerTypeOK
  /\ SessionTypeOK
  /\ MethodTypeOK
  /\ delivered \in [InMsgs -> 0..2]

-----------------------------------------------------------------------------
(* Safety                                                                  *)

Connecting == pc # "idle" /\ cmd.op = "connect"

\* When connected() says so, the broker accepted a CONNECT on this very TCP
\* connection, although _connected survives a lost link and a refused TCP
\* connection and is TRUE again before the next CONNACK has come.
ConnectedMeansAttached == Connected /\ ~Connecting => attached

\* A publish() at QoS 1 or 2 that returned true was routed by the broker: at
\* QoS 2 exactly once, because publish() waits for the PUBCOMP.
AckedMeansAccepted ==
  \A m \in Msgs : outcome[m] = "ok" =>
    /\ OutQoS[m] = 1 => accepted[m] >= 1
    /\ OutQoS[m] = 2 => accepted[m] = 1

\* An acknowledgement on its way to the client belongs to the method that is
\* running: a method that gives up closes the connection, so its late answer
\* can never be taken for the answer to the next one.
AckForCurrentCommand ==
  SocketConnected =>
    \A i \in DOMAIN toClient :
      toClient[i].type \in {"PUBACK", "PUBREC", "PUBCOMP", "SUBACK", "UNSUBACK"} =>
        /\ pc \in {"wait", "ack", "check"}
        /\ toClient[i].id = cmd.id
        /\ toClient[i].type \in {cmd.needle, "PUBREC"}

\* pong_pending mirrors the link: one PINGREQ or PINGRESP is under way when it
\* is set, none when it is clear, so PONG_TIMEOUT is never the echo of an
\* earlier ping or an earlier connection.
PingsUnderWay ==
  {<<"toBroker", i>> : i \in {j \in DOMAIN toBroker : toBroker[j].type = "PINGREQ"}}
    \cup {<<"toClient", i>> : i \in {j \in DOMAIN toClient : toClient[j].type = "PINGRESP"}}

PongPendingMirrorsLink ==
  /\ SocketConnected /\ ~pongPending => PingsUnderWay = {}
  /\ net = "open" /\ pongPending => Cardinality(PingsUnderWay) = 1

\* An inbound message the broker is done with reached the callback: the
\* callback precedes the acknowledgement, and no acknowledgement is sent for a
\* message that did not fit.
DoneMeansDelivered == \A m \in InMsgs : inflight[m] = "done" => delivered[m] >= 1

\* While the link lives no handshake of an inbound message gets stuck: its next
\* packet is in one of the two directions or in the hands of cycle_once.
Underway(m, sent, answers) ==
  \/ \E i \in DOMAIN toClient : toClient[i].type = sent /\ toClient[i].id = m
  \/ pc = "ack" /\ readBuf.type = sent /\ readBuf.id = m
  \/ \E i \in DOMAIN toBroker : toBroker[i].type \in answers /\ toBroker[i].id = m

HandshakeUnderway ==
  net = "open" /\ attached =>
    \A m \in onLink \ Oversized :
      /\ inflight[m] = "published" => Underway(m, "PUBLISH", {"PUBACK", "PUBREC"})
      /\ inflight[m] = "released" => Underway(m, "PUBREL", {"PUBCOMP"})

\* No packet that needs an id carries 0, across the wrap at MaxPacketId.
PacketIdsNonZero ==
  \A i \in DOMAIN toBroker :
    \/ toBroker[i].type \in {"SUBSCRIBE", "UNSUBSCRIBE", "PUBREL"}
    \/ toBroker[i].type = "PUBLISH" /\ toBroker[i].qos > 0
    => toBroker[i].id # 0

\* subscribe() returns true only if the broker holds the subscription at that
\* moment, unsubscribe() only if it does not.
SubscriptionHonoured ==
  [][ pc = "check" /\ pc' = "idle" /\ connected' /\ lastError' = "SUCCESS" =>
        /\ cmd.op = "subscribe" => cmd.msg \in subs
        /\ cmd.op = "unsubscribe" => cmd.msg \notin subs ]_vars

-----------------------------------------------------------------------------
(* Liveness                                                                *)

\* Every method returns, whatever the broker keeps sending and whatever the
\* network loses: each wait is bounded by the command timer.
MethodReturns == pc # "idle" ~> pc = "idle"

\* A link that died without a sign is found out by the keep alive: the ping
\* that is never answered, or the write or the wait of another method, closes
\* the connection.
DeadLinkFound == net = "half" ~> net # "half"

\* On a link that lasts, an inbound message at QoS 1 or 2 is acknowledged in
\* full.
InboundCompletes ==
  \A m \in InMsgs \ Oversized :
    inflight[m] = "published" ~> inflight[m] \in {"done", "dropped"} \/ net # "open"

-----------------------------------------------------------------------------
(* What the documentation promises and the code does not keep; each is the *)
(* property of a run that ends in a counterexample.                        *)

\* "2 - Exactly once (four-step handshake)", docs/02-subscribe.md: cycle_once
\* keeps no packet ids, so a QoS 2 message that the broker sends again after a
\* reconnect is handed to the callback again.
QoS2DeliveredOnce == \A m \in InMsgs : InQoS[m] = 2 => delivered[m] <= 1

=============================================================================
