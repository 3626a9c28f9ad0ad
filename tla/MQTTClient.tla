----------------------------- MODULE MQTTClient -----------------------------
(***************************************************************************)
(* The class MQTTClient (MQTTClient.cpp) and the lwmqtt client under it    *)
(* (lwmqtt/client.c), one packet at a time.  A method runs from its first  *)
(* write to the packet it waits for: publish(), subscribe(), unsubscribe() *)
(* and connect() block in lwmqtt_cycle_until, which meanwhile serves       *)
(* whatever the broker sends, and loop() yields to the packets that have   *)
(* arrived and then looks after the keep alive.  The program counter pc    *)
(* marks the points where the network, the broker or the clock may come    *)
(* between two steps of such a method:                                     *)
(*    "idle"   no method is running                                        *)
(*    "wait"   cycle_once is about to read a packet                        *)
(*    "ack"    cycle_once handled readBuf and must answer it               *)
(*    "check"  cycle_once is done, cycle_until decides                     *)
(*    "ping"   loop() is about to call lwmqtt_keep_alive                   *)
(* Buffer and socket errors are choices of the environment; a method that  *)
(* returns before it did anything (not connected) is not a step.  The      *)
(* optional skip argument of connect() (the application opens the socket   *)
(* itself) is left out.                                                    *)
(***************************************************************************)
EXTENDS MQTTNetwork

CONSTANTS
  KeepAlive,     \* is the keep alive interval positive?
  DropOverflow,  \* drop_overflow, set by dropOverflow()
  Oversized,     \* inbound messages that do not fit into read_buf
  Duplicates,    \* does the application call prepareDuplicate()?
  PowerCycles    \* may the board restart?

ASSUME ClientAssumption ==
  /\ {KeepAlive, DropOverflow, Duplicates, PowerCycles} \subseteq BOOLEAN
  /\ Oversized \subseteq InMsgs

VARIABLES
  connected,     \* MQTTClient::_connected
  lastPacketId,  \* client->last_packet_id
  pongPending,   \* client->pong_pending
  keepAliveDue,  \* timer_get(keep_alive_timer) <= 0
  expired,       \* timer_get(command_timer) <= 0
  nextDup,       \* MQTTClient::nextDupPacketID
  returnCode,    \* MQTTClient::_returnCode
  lastError,     \* MQTTClient::_lastError
  pc,            \* see above
  cmd,           \* the method that is running
  readBuf,       \* the packet in read_buf while it is being handled
  outcome,       \* what the publish() of each message came to
  delivered      \* how often the message callback got each message (2: more)

sessionVars == <<lastPacketId, pongPending, keepAliveDue, nextDup>>
callVars == <<connected, returnCode, lastError, outcome>>
clientVars == <<connected, lastPacketId, pongPending, keepAliveDue, expired,
                nextDup, returnCode, lastError, pc, cmd, readBuf, outcome,
                delivered>>

Errors == { "SUCCESS", "BUFFER_TOO_SHORT", "NETWORK_FAILED_CONNECT",
            "NETWORK_TIMEOUT", "NETWORK_FAILED_READ", "NETWORK_FAILED_WRITE",
            "MISSING_OR_WRONG_PACKET", "CONNECTION_DENIED",
            "FAILED_SUBSCRIPTION", "PONG_TIMEOUT" }

\* The variables of a running method: what it is, the packet type and id it
\* waits for, its message or filter, and for loop() what is left of the
\* packets that were available.
Command(op, needle, id, msg, available) ==
  [op |-> op, needle |-> needle, id |-> id, msg |-> msg, available |-> available]

NoCommand == Command("none", NoPacket, 0, NoMsg, 0)

ClientInit ==
  /\ connected = FALSE
  /\ lastPacketId = 0
  /\ pongPending = FALSE
  /\ keepAliveDue = FALSE
  /\ expired = FALSE
  /\ nextDup = 0
  /\ returnCode = "accepted"
  /\ lastError = "SUCCESS"
  /\ pc = "idle"
  /\ cmd = NoCommand
  /\ readBuf = EncodeZero(NoPacket)
  /\ outcome = [m \in Msgs |-> "none"]
  /\ delivered = [m \in InMsgs |-> 0]

\* MQTTClient::connected()
Connected == SocketConnected /\ connected

\* Fault: no wrap.
NextPacketIdNoWrap == lastPacketId + 1

\* Fault: the id wraps to 0.
NextPacketIdWrapsToZero == (lastPacketId + 1) % (MaxPacketId + 1)

\* lwmqtt_get_next_packet_id
NextPacketId == IF lastPacketId = MaxPacketId THEN 1 ELSE lastPacketId + 1

-----------------------------------------------------------------------------
(* How a method starts, waits and ends.                                    *)

Idle ==
  /\ pc' = "idle"
  /\ cmd' = NoCommand
  /\ readBuf' = EncodeZero(NoPacket)
  /\ expired' = FALSE

\* The packet has been written and c waits in cycle_until, on a fresh timer.
Wait(c) ==
  /\ pc' = "wait"
  /\ cmd' = c
  /\ expired' = FALSE
  /\ UNCHANGED readBuf

Record(c, result) ==
  outcome' = IF c.op = "publish" THEN [outcome EXCEPT ![c.msg] = result]
             ELSE outcome

\* The method c returns true.
Succeed(c) ==
  /\ Idle
  /\ lastError' = "SUCCESS"
  /\ connected' = (connected \/ c.op = "connect")
  /\ returnCode' = IF c.op = "connect" THEN "accepted" ELSE returnCode
  /\ Record(c, "ok")

\* MQTTClient::close()
Close ==
  /\ connected' = FALSE
  /\ SocketStop

\* Fault: a method that failed leaves the connection open.
FailKeepsConnection(c, err) ==
  /\ Idle
  /\ lastError' = err
  /\ UNCHANGED <<connected, net, toClient, attached>>
  /\ returnCode' = IF c.op # "connect" THEN returnCode
                   ELSE IF err = "CONNECTION_DENIED" THEN "denied" ELSE "unknown"
  /\ Record(c, "failed")

\* The lwmqtt call of method c failed: every method closes the connection.
Fail(c, err) ==
  /\ Idle
  /\ lastError' = err
  /\ Close
  /\ returnCode' = IF c.op # "connect" THEN returnCode
                   ELSE IF err = "CONNECTION_DENIED" THEN "denied" ELSE "unknown"
  /\ Record(c, "failed")

\* lwmqtt_send_packet_in_buffer
SendPacket(p) ==
  /\ SocketWrite(p)
  /\ keepAliveDue' = FALSE

\* What can go wrong before or while a packet is written.
WriteErrors == {"BUFFER_TOO_SHORT", "NETWORK_FAILED_WRITE", "NETWORK_TIMEOUT"}

-----------------------------------------------------------------------------
(* connect()                                                               *)

ConnectCommand == Command("connect", "CONNACK", 0, NoMsg, 0)

\* A connection that is still up is closed first; _connected is otherwise
\* left as it was.
AfterClosing == connected /\ ~SocketConnected

\* netClient->connect() fails.
ConnectRefused ==
  /\ pc = "idle"
  /\ lastError' = "NETWORK_FAILED_CONNECT"
  /\ connected' = AfterClosing
  /\ SocketStop
  /\ UNCHANGED <<toBroker, sessionVars, expired, returnCode, pc, cmd, readBuf,
                 outcome, delivered>>

\* Fault: pong_pending survives into the next connection.
ResetKeepAliveTimerOnly ==
  /\ keepAliveDue' = FALSE
  /\ UNCHANGED pongPending

\* The keep alive state lwmqtt_connect starts a connection with.
ResetKeepAlive ==
  /\ keepAliveDue' = FALSE
  /\ pongPending' = FALSE

ConnectStart ==
  /\ pc = "idle"
  /\ SocketOpen(<<EncodeConnect>>)
  /\ Wait(ConnectCommand)
  /\ ResetKeepAlive
  /\ connected' = AfterClosing
  /\ UNCHANGED <<lastPacketId, nextDup, returnCode, lastError, outcome, delivered>>

\* The socket opened, the CONNECT could not be encoded or written.
ConnectFails ==
  /\ pc = "idle"
  /\ \E err \in WriteErrors : Fail(ConnectCommand, err)
  /\ toBroker' = <<>>
  /\ ResetKeepAlive
  /\ UNCHANGED <<lastPacketId, nextDup, delivered>>

-----------------------------------------------------------------------------
(* publish()                                                               *)

\* Fault: a QoS 2 publish is taken as done at the PUBREC.
AckTypeFirstAnswer(qos) == CASE qos = 0 -> NoPacket
                             [] qos = 1 -> "PUBACK"
                             [] qos = 2 -> "PUBREC"

\* The packet type lwmqtt_publish waits for.
AckType(qos) == CASE qos = 0 -> NoPacket
                  [] qos = 1 -> "PUBACK"
                  [] qos = 2 -> "PUBCOMP"

\* publish() hands lwmqtt_publish a pointer to nextDupPacketID and then zeroes
\* the field, so this is what *options->dup_id holds.
DupIdSeen(given) == 0

\* Is this the resend of an earlier packet, and under which id is it sent?
IsDup(m) == OutQoS[m] > 0 /\ DupIdSeen(nextDup) > 0
PublishId(m) ==
  IF OutQoS[m] = 0 THEN 0
  ELSE IF IsDup(m) THEN DupIdSeen(nextDup) ELSE NextPacketId

PublishPacket(m) == EncodePublish(IsDup(m), PublishId(m), OutQoS[m], m)
PublishCommand(m) ==
  Command("publish", AckType(OutQoS[m]), PublishId(m), m, 0)

\* A fresh id is counted, and stored where the dup id came from.
TakePublishId(m) ==
  LET fresh == OutQoS[m] > 0 /\ ~IsDup(m) IN
    /\ lastPacketId' = IF fresh THEN PublishId(m) ELSE lastPacketId
    /\ nextDup' = IF fresh /\ nextDup > 0 THEN PublishId(m) ELSE 0

MayPublish(m) == pc = "idle" /\ Connected /\ outcome[m] = "none"

\* QoS 0 returns as soon as the packet is written.
PublishQoS0(m) ==
  /\ MayPublish(m)
  /\ OutQoS[m] = 0
  /\ TakePublishId(m)
  /\ SendPacket(PublishPacket(m))
  /\ Succeed(PublishCommand(m))
  /\ UNCHANGED <<pongPending, delivered>>

PublishStart(m) ==
  /\ MayPublish(m)
  /\ OutQoS[m] > 0
  /\ TakePublishId(m)
  /\ SendPacket(PublishPacket(m))
  /\ Wait(PublishCommand(m))
  /\ outcome' = [outcome EXCEPT ![m] = "pending"]
  /\ UNCHANGED <<connected, pongPending, returnCode, lastError, delivered>>

PublishFails(m) ==
  /\ MayPublish(m)
  /\ TakePublishId(m)
  /\ \E err \in WriteErrors : Fail(PublishCommand(m), err)
  /\ UNCHANGED <<toBroker, pongPending, keepAliveDue, delivered>>

\* prepareDuplicate(lastPacketID()), as after a publish() that failed.
PrepareDuplicate ==
  /\ Duplicates
  /\ pc = "idle"
  /\ nextDup' = lastPacketId
  /\ UNCHANGED <<networkVars, connected, lastPacketId, pongPending,
                 keepAliveDue, expired, returnCode, lastError, pc, cmd,
                 readBuf, outcome, delivered>>

-----------------------------------------------------------------------------
(* subscribe(), unsubscribe() and disconnect()                             *)

SubscribeCommand(t) == Command("subscribe", "SUBACK", NextPacketId, t, 0)
UnsubscribeCommand(t) == Command("unsubscribe", "UNSUBACK", NextPacketId, t, 0)

\* Command c takes the next packet id, sends p and waits.
Request(c, p) ==
  /\ pc = "idle"
  /\ Connected
  /\ lastPacketId' = c.id
  /\ SendPacket(p)
  /\ Wait(c)
  /\ UNCHANGED <<connected, pongPending, nextDup, returnCode, lastError,
                 outcome, delivered>>

SubscribeStart(t) == Request(SubscribeCommand(t), EncodeSubscribe(NextPacketId, t))

UnsubscribeStart(t) ==
  Request(UnsubscribeCommand(t), EncodeUnsubscribe(NextPacketId, t))

RequestFails(t) ==
  /\ pc = "idle"
  /\ Connected
  /\ lastPacketId' = NextPacketId
  /\ \E err \in WriteErrors : Fail(SubscribeCommand(t), err)
  /\ UNCHANGED <<toBroker, pongPending, keepAliveDue, nextDup, delivered>>

\* The DISCONNECT is written or not, the connection is closed in any case.
Disconnect ==
  /\ pc = "idle"
  /\ Connected
  /\ Close
  /\ \/ /\ toBroker' = Append(toBroker, EncodeZero("DISCONNECT"))
        /\ keepAliveDue' = FALSE
        /\ lastError' = "SUCCESS"
     \/ /\ lastError' \in WriteErrors
        /\ UNCHANGED <<toBroker, keepAliveDue>>
  /\ UNCHANGED <<lastPacketId, pongPending, nextDup, expired, returnCode, pc,
                 cmd, readBuf, outcome, delivered>>

-----------------------------------------------------------------------------
(* lwmqtt_cycle_once: read one packet, handle it, answer it.               *)

Fits(p) == p.msg \notin Oversized

\* A packet arrived in time; PUBLISH, PUBREC and PUBREL will be answered.
Receive(p) ==
  /\ pc = "wait"
  /\ ~expired
  /\ SocketRead(p)
  /\ Fits(p)
  /\ readBuf' = p
  /\ cmd' = [cmd EXCEPT !.available = IF @ > 0 THEN @ - 1 ELSE 0]
  /\ UNCHANGED <<lastPacketId, keepAliveDue, nextDup, expired, callVars>>

\* The answer cycle_once encodes for p.
Answer(p) ==
  CASE p.type = "PUBLISH" -> EncodeAck(IF p.qos = 1 THEN "PUBACK" ELSE "PUBREC", p.id)
    [] p.type = "PUBREC"  -> EncodeAck("PUBREL", p.id)
    [] p.type = "PUBREL"  -> EncodeAck("PUBCOMP", p.id)

\* Fault: a message flagged as duplicate is taken as seen.
CallBackSkipsDup(p) ==
  delivered' = IF p.dup THEN delivered
               ELSE [delivered EXCEPT ![p.msg] = IF @ = 0 THEN 1 ELSE 2]

\* The callback runs before the message is acknowledged.
CallBack(p) ==
  delivered' = [delivered EXCEPT ![p.msg] = IF @ = 0 THEN 1 ELSE 2]

ReceivePublish ==
  \E p \in Arriving :
    /\ Receive(p)
    /\ p.type = "PUBLISH"
    /\ CallBack(p)
    /\ pc' = IF p.qos = 0 THEN "check" ELSE "ack"
    /\ UNCHANGED pongPending

\* Fault: a PUBREL is not answered.
ReceivePubrelUnanswered ==
  \E p \in Arriving :
    /\ Receive(p)
    /\ p.type \in {"PUBREC", "PUBREL"}
    /\ pc' = IF p.type = "PUBREC" THEN "ack" ELSE "check"
    /\ UNCHANGED <<pongPending, delivered>>

ReceiveAckToAnswer ==
  \E p \in Arriving :
    /\ Receive(p)
    /\ p.type \in {"PUBREC", "PUBREL"}
    /\ pc' = "ack"
    /\ UNCHANGED <<pongPending, delivered>>

ReceivePingresp ==
  \E p \in Arriving :
    /\ Receive(p)
    /\ p.type = "PINGRESP"
    /\ pongPending' = FALSE
    /\ pc' = "check"
    /\ UNCHANGED delivered

ReceiveOther ==
  \E p \in Arriving :
    /\ Receive(p)
    /\ p.type \notin {"PUBLISH", "PUBREC", "PUBREL", "PINGRESP"}
    /\ pc' = "check"
    /\ UNCHANGED <<pongPending, delivered>>

\* The answer goes out while the command timer runs.
SendAck ==
  /\ pc = "ack"
  /\ ~expired
  /\ SendPacket(Answer(readBuf))
  /\ pc' = "check"
  /\ UNCHANGED <<lastPacketId, pongPending, nextDup, expired, callVars, cmd,
                 readBuf, delivered>>

\* Fault: an answer that could not be written is forgotten.
SendAckFailureIgnored ==
  /\ pc = "ack"
  /\ pc' = "check"
  /\ UNCHANGED <<networkVars, sessionVars, expired, callVars, cmd, readBuf,
                 delivered>>

SendAckFails ==
  /\ pc = "ack"
  /\ \E err \in {"NETWORK_FAILED_WRITE", "NETWORK_TIMEOUT"} : Fail(cmd, err)
  /\ UNCHANGED <<toBroker, sessionVars, delivered>>

\* drop_overflow: a packet too long for read_buf is drained, no packet is read.
DropPacket ==
  /\ pc = "wait"
  /\ ~expired
  /\ DropOverflow
  /\ \E p \in Arriving : SocketRead(p) /\ ~Fits(p)
  /\ readBuf' = EncodeZero(NoPacket)
  /\ pc' = "check"
  /\ UNCHANGED <<sessionVars, expired, callVars, cmd, delivered>>

\* A packet is longer than read_buf, or does not come in whole in time.
ReadPacketFails ==
  /\ pc = "wait"
  /\ ~expired
  /\ toClient # <<>>
  /\ IF Fits(Head(toClient)) \/ DropOverflow
       THEN Fail(cmd, "NETWORK_TIMEOUT")
       ELSE Fail(cmd, "BUFFER_TOO_SHORT")
  /\ UNCHANGED <<toBroker, sessionVars, delivered>>

\* The socket is found closed while nothing is there to read.
ReadFails ==
  /\ pc = "wait"
  /\ ~expired
  /\ ~SocketConnected
  /\ Fail(cmd, "NETWORK_FAILED_READ")
  /\ UNCHANGED <<toBroker, sessionVars, delivered>>

\* The command timer ran out before a header byte: no packet, and no error.
ReadNothing ==
  /\ pc = "wait"
  /\ expired
  /\ readBuf' = EncodeZero(NoPacket)
  /\ pc' = "check"
  /\ UNCHANGED <<networkVars, sessionVars, expired, callVars, cmd, delivered>>

-----------------------------------------------------------------------------
(* lwmqtt_cycle_until after each cycle, and what its callers do with it.   *)

Found == readBuf.type = cmd.needle

\* Fault: cycle_until does not look at the command timer.
LoopEndsUntimed == cmd.op = "loop" /\ cmd.available = 0

\* Nothing more is to be read: the timer ran out or loop() has read what was
\* available.
LoopEnds == expired \/ (cmd.op = "loop" /\ cmd.available = 0)

NextCycle ==
  /\ pc = "check"
  /\ ~Found
  /\ ~LoopEnds
  /\ pc' = "wait"
  /\ UNCHANGED <<networkVars, sessionVars, expired, callVars, cmd, readBuf,
                 delivered>>

\* Fault: the return code of the CONNACK is not looked at.
VerdictIgnoresRefusal(c, p) ==
  IF c.op = "connect" THEN "SUCCESS"
  ELSE IF p.id # c.id THEN "MISSING_OR_WRONG_PACKET"
  ELSE IF c.op = "subscribe" /\ ~p.ok THEN "FAILED_SUBSCRIPTION"
  ELSE "SUCCESS"

\* Fault: the return codes of the SUBACK are not looked at.
VerdictIgnoresSuback(c, p) ==
  IF c.op = "connect" THEN IF p.ok THEN "SUCCESS" ELSE "CONNECTION_DENIED"
  ELSE IF p.id # c.id THEN "MISSING_OR_WRONG_PACKET"
  ELSE "SUCCESS"

\* What lwmqtt_connect, _publish, _subscribe and _unsubscribe make of the
\* packet p they waited for.
Verdict(c, p) ==
  IF c.op = "connect" THEN IF p.ok THEN "SUCCESS" ELSE "CONNECTION_DENIED"
  ELSE IF p.id # c.id THEN "MISSING_OR_WRONG_PACKET"
  ELSE IF c.op = "subscribe" /\ ~p.ok THEN "FAILED_SUBSCRIPTION"
  ELSE "SUCCESS"

CommandAcked ==
  /\ pc = "check"
  /\ cmd.op # "loop"
  /\ Found
  /\ Verdict(cmd, readBuf) = "SUCCESS"
  /\ Succeed(cmd)
  /\ UNCHANGED <<networkVars, sessionVars, delivered>>

CommandRejected ==
  /\ pc = "check"
  /\ cmd.op # "loop"
  /\ Found
  /\ Verdict(cmd, readBuf) # "SUCCESS"
  /\ Fail(cmd, Verdict(cmd, readBuf))
  /\ UNCHANGED <<toBroker, sessionVars, delivered>>

CommandTimesOut ==
  /\ pc = "check"
  /\ cmd.op # "loop"
  /\ ~Found
  /\ LoopEnds
  /\ Fail(cmd, "MISSING_OR_WRONG_PACKET")
  /\ UNCHANGED <<toBroker, sessionVars, delivered>>

-----------------------------------------------------------------------------
(* loop()                                                                  *)

LoopCommand(n) == Command("loop", NoPacket, 0, NoMsg, n)

\* n of the packets on their way have arrived when loop() asks available();
\* while none has, lwmqtt_yield is skipped.
LoopStarts(n, next) ==
  /\ pc = "idle"
  /\ Connected
  /\ pc' = next
  /\ cmd' = LoopCommand(n)
  /\ expired' = FALSE
  /\ UNCHANGED <<networkVars, sessionVars, callVars, readBuf, delivered>>

LoopYields == \E n \in 1..Len(toClient) : LoopStarts(n, "wait")

LoopSkipsYield == LoopStarts(0, "ping")

YieldEnds ==
  /\ pc = "check"
  /\ cmd.op = "loop"
  /\ Found \/ LoopEnds
  /\ pc' = "ping"
  /\ expired' = FALSE
  /\ UNCHANGED <<networkVars, sessionVars, callVars, cmd, readBuf, delivered>>

\* Fault: while a pong is pending no ping is due.
PingDueUnlessPending == KeepAlive /\ keepAliveDue /\ ~pongPending

\* lwmqtt_keep_alive
PingDue == KeepAlive /\ keepAliveDue

NoPingDue ==
  /\ pc = "ping"
  /\ ~PingDue
  /\ Succeed(cmd)
  /\ UNCHANGED <<networkVars, sessionVars, delivered>>

PongTimeout ==
  /\ pc = "ping"
  /\ PingDue
  /\ pongPending
  /\ Fail(cmd, "PONG_TIMEOUT")
  /\ UNCHANGED <<toBroker, sessionVars, delivered>>

SendPing ==
  /\ pc = "ping"
  /\ PingDue
  /\ ~pongPending
  /\ SendPacket(EncodeZero("PINGREQ"))
  /\ pongPending' = TRUE
  /\ Succeed(cmd)
  /\ UNCHANGED <<lastPacketId, nextDup, delivered>>

SendPingFails ==
  /\ pc = "ping"
  /\ PingDue
  /\ ~pongPending
  /\ \E err \in WriteErrors : Fail(cmd, err)
  /\ UNCHANGED <<toBroker, sessionVars, delivered>>

-----------------------------------------------------------------------------
(* The clock and the board.                                                *)

CommandTimerExpires ==
  /\ pc \in {"wait", "ack", "check"}
  /\ ~expired
  /\ expired' = TRUE
  /\ UNCHANGED <<networkVars, sessionVars, callVars, pc, cmd, readBuf, delivered>>

\* The timer matters only while a connection is open (connect() sets it) and
\* the interval is not zero.
KeepAliveTimerExpires ==
  /\ KeepAlive
  /\ SocketConnected
  /\ ~keepAliveDue
  /\ keepAliveDue' = TRUE
  /\ UNCHANGED <<networkVars, lastPacketId, pongPending, nextDup, expired,
                 callVars, pc, cmd, readBuf, delivered>>

\* The board restarts and setup() calls begin(): every field of the client is
\* as constructed and lwmqtt_init has run.
PowerCycle ==
  /\ PowerCycles
  /\ Idle
  /\ Close
  /\ lastPacketId' = 0
  /\ nextDup' = 0
  /\ ResetKeepAlive
  /\ returnCode' = "accepted"
  /\ lastError' = "SUCCESS"
  /\ Record(cmd, "failed")
  /\ UNCHANGED <<toBroker, delivered>>

=============================================================================
