---------------------------- MODULE MQTTNetwork ----------------------------
(***************************************************************************)
(* The Arduino Client object behind MQTTClient::netClient and the TCP      *)
(* connection it stands for, as the code under src/ uses them: reliable    *)
(* and ordered in each direction while the connection lives, with two ways *)
(* to lose it.  A reset is noticed by the socket, a stall is not: the peer *)
(* is gone, the socket still says connected and takes what is written.     *)
(***************************************************************************)
EXTENDS MQTTPackets

VARIABLES
  net,        \* the socket: "closed", "open", or "half" (stalled)
  toBroker,   \* packets written by the client, not yet read by the broker
  toClient,   \* packets written by the broker, not yet read by the client
  attached    \* the broker accepted a CONNECT on this TCP connection

networkVars == <<net, toBroker, toClient, attached>>

NetworkInit ==
  /\ net = "closed"
  /\ toBroker = <<>>
  /\ toClient = <<>>
  /\ attached = FALSE

\* netClient->connected()
SocketConnected == net # "closed"

\* netClient->connect() succeeds and the first bytes written are `sent`.
SocketOpen(sent) ==
  /\ net' = "open"
  /\ toBroker' = sent
  /\ toClient' = <<>>
  /\ attached' = FALSE

\* netClient->stop(): what was written before may still reach the broker.
SocketStop ==
  /\ net' = "closed"
  /\ toClient' = <<>>
  /\ UNCHANGED attached

\* netClient->write()
SocketWrite(p) ==
  /\ SocketConnected
  /\ toBroker' = Append(toBroker, p)
  /\ UNCHANGED <<net, toClient, attached>>

\* netClient->read() of the next packet, p.
Arriving == IF toClient = <<>> THEN {} ELSE {Head(toClient)}

SocketRead(p) ==
  /\ p \in Arriving
  /\ toClient' = Tail(toClient)
  /\ UNCHANGED <<net, toBroker, attached>>

-----------------------------------------------------------------------------

\* The connection breaks and the socket notices.
LinkReset ==
  /\ SocketConnected
  /\ SocketStop
  /\ UNCHANGED toBroker

\* The connection breaks and nobody notices; what was on its way to the
\* client is cut at some point.
LinkStall ==
  /\ net = "open"
  /\ net' = "half"
  /\ \E k \in 0..Len(toClient) : toClient' = SubSeq(toClient, 1, k)
  /\ UNCHANGED <<toBroker, attached>>

=============================================================================
