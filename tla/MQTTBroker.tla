----------------------------- MODULE MQTTBroker -----------------------------
(***************************************************************************)
(* An MQTT 3.1.1 broker as the client of src/ meets it.  It is external:   *)
(* nothing here is code of the repository.  It keeps a session (the        *)
(* subscriptions, the QoS 2 messages received and not released, its own    *)
(* messages not acknowledged), drops it when a CONNECT asks for a clean    *)
(* session, and otherwise sends again what was not acknowledged.  A QoS 2  *)
(* message is routed when its PUBREL arrives (method A of the standard).   *)
(***************************************************************************)
EXTENDS MQTTNetwork

CONSTANTS
  CleanSession,   \* the clean_session flag every CONNECT carries
  MaxQueue        \* bound on toClient for the messages the broker pushes

ASSUME BrokerAssumption == CleanSession \in BOOLEAN /\ MaxQueue \in Nat

VARIABLES
  subs,       \* the filters this session is subscribed to
  awaitRel,   \* packet id -> the QoS 2 message received under it
  accepted,   \* how often each message was routed (2 stands for more)
  inflight,   \* progress of each inbound message
  onLink      \* inbound messages already sent on this connection

brokerVars == <<subs, awaitRel, accepted, inflight, onLink>>

Progress == {"new", "published", "released", "done", "dropped"}

BrokerInit ==
  /\ subs = {}
  /\ awaitRel = [id \in 1..MaxPacketId |-> NoMsg]
  /\ accepted = [m \in Msgs |-> 0]
  /\ inflight = [m \in InMsgs |-> "new"]
  /\ onLink = {}

\* One more occurrence, saturating at two.
OneMore(n) == IF n = 0 THEN 1 ELSE 2

\* The broker takes the next packet of the client and answers with `answers`;
\* after the client closed its end the answers go nowhere.
Consume(type, answers) ==
  /\ attached
  /\ toBroker # <<>>
  /\ Head(toBroker).type = type
  /\ toBroker' = Tail(toBroker)
  /\ toClient' = IF net = "open" THEN toClient \o answers ELSE toClient
  /\ UNCHANGED net

-----------------------------------------------------------------------------

BrokerConnect(ok) ==
  /\ toBroker # <<>>
  /\ Head(toBroker).type = "CONNECT"
  /\ toBroker' = Tail(toBroker)
  /\ toClient' = IF net = "open" THEN Append(toClient, Connack(ok)) ELSE toClient
  /\ attached' = ok
  /\ onLink' = {}
  /\ IF ok /\ CleanSession
       THEN /\ subs' = {}
            /\ awaitRel' = [id \in 1..MaxPacketId |-> NoMsg]
            /\ inflight' = [m \in InMsgs |->
                 IF inflight[m] \in {"published", "released"}
                   THEN "dropped" ELSE inflight[m]]
       ELSE UNCHANGED <<subs, awaitRel, inflight>>
  /\ UNCHANGED <<net, accepted>>

BrokerPublishQoS0 ==
  /\ Consume("PUBLISH", <<>>)
  /\ Head(toBroker).qos = 0
  /\ accepted' = [accepted EXCEPT ![Head(toBroker).msg] = OneMore(@)]
  /\ UNCHANGED <<attached, subs, awaitRel, inflight, onLink>>

BrokerPublishQoS1 ==
  /\ toBroker # <<>>
  /\ Consume("PUBLISH", <<EncodeAck("PUBACK", Head(toBroker).id)>>)
  /\ Head(toBroker).qos = 1
  /\ accepted' = [accepted EXCEPT ![Head(toBroker).msg] = OneMore(@)]
  /\ UNCHANGED <<attached, subs, awaitRel, inflight, onLink>>

\* A PUBLISH under an id that still waits for its PUBREL is a duplicate.
BrokerPublishQoS2 ==
  /\ toBroker # <<>>
  /\ Consume("PUBLISH", <<EncodeAck("PUBREC", Head(toBroker).id)>>)
  /\ Head(toBroker).qos = 2
  /\ awaitRel' = [awaitRel EXCEPT ![Head(toBroker).id] =
                    IF @ = NoMsg THEN Head(toBroker).msg ELSE @]
  /\ UNCHANGED <<attached, subs, accepted, inflight, onLink>>

BrokerPubrel ==
  /\ toBroker # <<>>
  /\ Consume("PUBREL", <<EncodeAck("PUBCOMP", Head(toBroker).id)>>)
  /\ LET id == Head(toBroker).id IN
       /\ awaitRel' = [awaitRel EXCEPT ![id] = NoMsg]
       /\ accepted' = IF awaitRel[id] = NoMsg THEN accepted
                      ELSE [accepted EXCEPT ![awaitRel[id]] = OneMore(@)]
  /\ UNCHANGED <<attached, subs, inflight, onLink>>

BrokerSubscribe(ok) ==
  /\ toBroker # <<>>
  /\ Consume("SUBSCRIBE", <<Suback(Head(toBroker).id, ok)>>)
  /\ subs' = IF ok THEN subs \cup {Head(toBroker).msg} ELSE subs
  /\ UNCHANGED <<attached, awaitRel, accepted, inflight, onLink>>

BrokerUnsubscribe ==
  /\ toBroker # <<>>
  /\ Consume("UNSUBSCRIBE", <<EncodeAck("UNSUBACK", Head(toBroker).id)>>)
  /\ subs' = subs \ {Head(toBroker).msg}
  /\ UNCHANGED <<attached, awaitRel, accepted, inflight, onLink>>

BrokerPingreq ==
  /\ Consume("PINGREQ", <<EncodeZero("PINGRESP")>>)
  /\ UNCHANGED <<attached, brokerVars>>

BrokerDisconnect ==
  /\ Consume("DISCONNECT", <<>>)
  /\ attached' = FALSE
  /\ UNCHANGED brokerVars

-----------------------------------------------------------------------------

\* The broker sends a message that matches a subscription for the first time;
\* a QoS 0 message may come again and again.
BrokerPush(m) ==
  /\ attached
  /\ net = "open"
  /\ subs # {}
  /\ inflight[m] = "new"
  /\ Len(toClient) < MaxQueue
  /\ toClient' = Append(toClient,
       EncodePublish(FALSE, IF InQoS[m] = 0 THEN 0 ELSE m, InQoS[m], m))
  /\ IF InQoS[m] = 0
       THEN UNCHANGED <<inflight, onLink>>
       ELSE /\ inflight' = [inflight EXCEPT ![m] = "published"]
            /\ onLink' = onLink \cup {m}
  /\ UNCHANGED <<net, toBroker, attached, subs, awaitRel, accepted>>

\* A resumed session: what was not acknowledged is sent again, once per
\* connection.
BrokerResend(m) ==
  /\ attached
  /\ net = "open"
  /\ inflight[m] \in {"published", "released"}
  /\ m \notin onLink
  /\ toClient' = Append(toClient,
       IF inflight[m] = "published" THEN EncodePublish(TRUE, m, InQoS[m], m)
       ELSE EncodeAck("PUBREL", m))
  /\ onLink' = onLink \cup {m}
  /\ UNCHANGED <<net, toBroker, attached, subs, awaitRel, accepted, inflight>>

\* The client's half of the handshake of an inbound message.
BrokerPuback ==
  /\ Consume("PUBACK", <<>>)
  /\ inflight' = [inflight EXCEPT ![Head(toBroker).id] =
                    IF @ = "published" THEN "done" ELSE @]
  /\ UNCHANGED <<attached, subs, awaitRel, accepted, onLink>>

BrokerPubrec ==
  /\ toBroker # <<>>
  /\ Consume("PUBREC", <<EncodeAck("PUBREL", Head(toBroker).id)>>)
  /\ inflight' = [inflight EXCEPT ![Head(toBroker).id] =
                    IF @ = "published" THEN "released" ELSE @]
  /\ UNCHANGED <<attached, subs, awaitRel, accepted, onLink>>

BrokerPubcomp ==
  /\ Consume("PUBCOMP", <<>>)
  /\ inflight' = [inflight EXCEPT ![Head(toBroker).id] =
                    IF @ = "released" THEN "done" ELSE @]
  /\ UNCHANGED <<attached, subs, awaitRel, accepted, onLink>>

=============================================================================
