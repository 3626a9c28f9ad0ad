# A TLA+ model of AViShaMQTT

AViShaMQTT is an Arduino library for ESP32 and ESP8266 boards: a façade
(`src/src/AViShaMQTT.cpp`) that keeps WiFi and an MQTT connection up, over the class
`MQTTClient` (`src/src/mqtt/MQTTClient.cpp`), over the C client lwmqtt
(`src/src/mqtt/lwmqtt/`).  This directory models the façade, the client, the packets and
the reader under it, and the broker it talks to.

## Inventory

| Component | State it keeps | Operations | What makes it correct |
|---|---|---|---|
| lwmqtt command layer, `client.c` | `last_packet_id`, `pong_pending`, `keep_alive_timer`, `command_timer`, the two buffers, `drop_overflow` | connect, publish, subscribe, unsubscribe, disconnect, yield, keep_alive; inside them cycle_once and cycle_until | every answer is matched with the command it belongs to; a QoS handshake is answered packet by packet; every wait ends; a dead link is noticed |
| class `MQTTClient` | `_connected`, `_lastError`, `_returnCode`, `nextDupPacketID`, options, will, the network object | the same, plus begin, connected, prepareDuplicate, lastPacketID, dropOverflow, setters | every failure closes the connection; `connected()` means that the broker accepted this connection |
| packet codec, `packet.c`, `helpers.c`, `string.c` | none | encode and decode one packet, variable length numbers | decode inverts encode, no access beyond the buffer |
| Arduino timers, `MQTTClient.cpp:3-44` | `start`, `timeout` | set, get | right across the roll-over of `millis()` |
| Arduino network adapter, `MQTTClient.cpp:46-100` | the `Client` object | read, write | a closed socket is an error, silence is not |
| callback adapter, `MQTTClient.cpp:102-159` | the registered callbacks | MQTTClientHandler | terminators stay inside the buffer |
| façade connection management, `AViShaMQTT.cpp:25-83, 247-327` | `_state`, `_lastReconnectTry`, `_subs[8]` | begin, loop, state, disconnect, connectWiFi, connectMQTT, restoreSubscriptions | reconnects after every loss; `state()` says what is; what was subscribed is subscribed again |
| façade subscriptions, `AViShaMQTT.cpp:171-208` | `_subs[8]` | subscribe, unsubscribe | the table is the set of filters the application wants |
| façade streaming publish, `AViShaMQTT.cpp:119-169` | `_streamBuf`, `_streamPos`, `_streamSize`, the topic pointer | beginPublish, write, endPublish | never past the end of the buffer, sends what was written |
| façade incoming slot, `AViShaMQTT.cpp:210-226, 329-333` | `_incomingTopic`, `_incomingMessage` | onMessage, the getters | the last message, truncated to the slot |
| external: the TCP connection behind Arduino's `Client`, the MQTT broker | queues, session | | |

There are no threads.  A sketch calls `AViShaMQTT::loop()` for ever; it calls
`MQTTClient::loop()`, which reads what has arrived and looks after the keep alive.
`publish()`, `subscribe()`, `unsubscribe()` and `connect()` block in
`lwmqtt_cycle_until` until their answer has come, and meanwhile serve whatever else
the broker sends, callbacks included.  What interleaves with a method is the network
(packets arriving, the link breaking with or without a sign), the broker, the two
timers, and the power supply.  So the hard behaviours are: answers that come late, to
the wrong command or never; a connection lost between two steps of a handshake;
packets of the broker that cross those of the client; state that outlives a
connection (`_connected`, `pong_pending`, packet ids, sessions at the broker); a
restart that forgets half of it.  `PROJECT.json` lists these hazards line by line.

## Modules

| Module | Models | Composes |
|---|---|---|
| `MQTTPackets` | the control packets as records, one constructor per `encode_*` function of `packet.c` | |
| `MQTTNetwork` | the socket and the two directions of the TCP connection; reset, and stall without a sign | `MQTTPackets` |
| `MQTTClient` | class `MQTTClient` with the lwmqtt client: every method, cycle_once, cycle_until, keep alive, timers | `MQTTNetwork` |
| `MQTTBroker` | an MQTT 3.1.1 broker with sessions, external | `MQTTNetwork` |
| `MQTTSession` | one client, the network, one broker; the properties | `MQTTClient`, `MQTTBroker` |
| `ClientContract` | abstract: what the methods of `MQTTClient` mean to their caller | |
| `DeliveryService` | abstract: what becomes of the messages | |
| `SessionRefinement` | `MQTTSession` implements both | `MQTTSession` |
| `MCSession` | the small instances of it | `SessionRefinement` |
| `AViShaMQTT` | the façade: WiFi, reconnection, `_state`, the subscription table and its restore, the incoming slot | `ClientContract` |
| `MCFacade` | its small instance | `AViShaMQTT` |
| `StreamPublish`, `MCStreamPublish` | `beginPublish()`, `write()`, `endPublish()` | |
| `PacketHelpers` | `helpers.c`: bits, numbers, strings, variable length numbers | |
| `PacketFormat` | `packet.c`: every encoder and decoder over bytes | `PacketHelpers` |
| `PacketCodec`, `MCPacketCodec` | packets encoded, arriving byte by byte, decoded | `PacketFormat` |
| `PacketChannel` | abstract: a channel of whole packets | |
| `PacketReader`, `MCPacketReader` | `lwmqtt_read_packet_in_buffer` and the loops under it; implements `PacketChannel` | `PacketFormat` |
| `ArduinoTimer` | the timers and the waiting loops, on a clock that rolls over | |
| `MQTTSession_proofs` | proofs about the session: types, `ConnectedMeansAttached`, a command and its answer | `MQTTSession` |
| `SessionRefinement_proofs` | proofs about the messages and of both refinements | `SessionRefinement`, `MQTTSession_proofs` |
| `AViShaMQTT_proofs` | proofs of every safety property of the façade | `AViShaMQTT` |
| `ArduinoTimer_proofs`, `StreamPublish_proofs` | proofs of every property of these two | |
| `PacketFormat_proofs` | lemmas about sequences of fields, numbers, strings and variable length numbers, and what of a packet lies where | `PacketFormat` |
| `PacketReader_proofs` | proofs of every safety property of the reader and of its refinement | `PacketReader`, `PacketFormat_proofs` |
| `PacketCodec_proofs` | proofs of every property of the codec | `PacketCodec`, `PacketFormat_proofs` |

The system is modelled in layers, each over a promise of the one below.  `PacketReader`
shows that bytes in any portions are a channel of whole packets (`PacketChannel`), as
`MQTTClient` reads them, which is proved.  `MQTTSession` shows that client, network and broker keep the
contract of the methods (`ClientContract`), and the façade is built on that contract
without a word of packets.  The link between `PacketChannel` and `MQTTNetwork` is by
reading, as the module says; that `MQTTSession` keeps `ClientContract` is checked and
proved, and the façade contains the contract's actions.

### How MQTTClient corresponds to the code

A method of the class is a sequence of steps, cut only where the environment can come
between: after a packet has been written, before a packet is read, between the
handling of a packet and its answer, before the next cycle, before the keep alive.
The variable `pc` says where the running method is, `cmd` what it is: its name, the
packet type `cycle_until` looks for (`needle`), the packet id, the message or filter,
and for `loop()` what is left of the packets that were `available`.  Everything
between two such points is one action; an action that ends a method (`Succeed`,
`Fail`) contains what the class does then, `close()` above all.

- `connected`, `returnCode`, `lastError`, `nextDup`: the fields of the class;
  `lastPacketId`, `pongPending`: those of `lwmqtt_client_t`.
- `expired`, `keepAliveDue`: the two timers, by whether they have run out.  The
  clock may let either expire at any moment; setting one makes it fresh.
- `readBuf`: the packet in `read_buf` while cycle_once is at work on it.
- `outcome`, `delivered`: history.  What each `publish()` returned, how often the
  callback got each message (2 stands for more).

`publish()` at QoS 0 is one action, because it returns when its packet is written.
`NextCycle` is one turn of the loop in `lwmqtt_cycle_until`; `LoopEnds` and `Found`
are its two exits.  `ReadNothing` is the header byte that does not come, which
`lwmqtt_read_packet_in_buffer` reports as success; `ReadPacketFails` is the same time
out inside a packet, which is an error and closes the connection.  `DropPacket` is
`drop_overflow`: the packet is drained, `packet_type` is `NO_PACKET`, which ends a
`yield` early because that is its needle.  `PowerCycle` puts all fields to the values
of the constructor and `begin()`; the broker and what it keeps survive.

### How the other modules correspond

**AViShaMQTT.** Every step of the façade that runs a method of the client contains a step of
`ClientContract`: the call when it starts, the return with what the façade does next.
`at` is where the thread is between the two; the surroundings act there, and the callback
`OnMessage` runs there.  `state`, `table`, `retryDue` and `incoming` are `_state`,
`_subs`, the test on `_lastReconnectTry` and the incoming slot.  `wanted` is history:
what the sketch subscribed to successfully and did not unsubscribe from.  Time limits are
choices: `JoinTimesOut`, `TimeOut`, `RetryTimer`.  `restoreSubscriptions` is one step per
slot in use, and ends early when the connection is gone, since each further
`subscribe()` then returns at once.  `Crash` is the call of `connect()` on a client
whose `begin()` never ran.  `calm` is a switch of the surroundings: once set, no WiFi
drop, no lost link, no refusal and no restart comes any more.

**PacketReader.** A packet of the peer (`IsPacket`) is whatever the reader can be sent: a
header it refuses, a length with too many digits, or a length and as many bytes; the stream
may end or stall behind any byte of it.  `point` is the loop the thread is in; the bytes of
the stream are numbered and the buffer holds numbers, so it is visible which byte came to
lie where.  `offset` is `len`, then `offset + read`; `missing` is what the loop still needs.
One portion is one `Client::read`.  `Fail` includes what all callers up to `MQTTClient` do
with an error: close.

**PacketFormat.** An encoder gives an error or bytes, a decoder an error or a record; a
pointer is a position.  `ConnectFields` and its like are the fields in the order in which
they are written; `VarnumBytes` and `NumberOf` are the two loops of the variable length
numbers as recursive functions.  The requests of `PacketCodec` (`ConnectRequest` and so on)
are the C types of the arguments: strings of up to 65535 bytes, and payloads of any length.
The order of the checks is the code's, because it decides which error is returned.

**StreamPublish.** A block of the heap is a function from its addresses; `accepted`,
`begunTopic` and `published` are history, `allocated` counts the blocks.  It is assumed
that `size + 1` in `beginPublish()` does not wrap.

**ArduinoTimer.** The arithmetic of `uint32_t` and `int32_t` with 2 × `Half` for 2^32,
including the `UINT32_MAX` that makes a difference across a roll-over one too small.
`elapsed` is history, the true time since the timer was set.

Operators that begin with the comment `Fault:` are no part of the model.  Each is a
plausible bug in the definition that follows it, and is used to see that a property
notices.

### Abstractions of the session

A packet is a record of what the two ends decide on; topic and payload are one
message name.  A packet is read whole.  Errors of the buffers and sockets are
choices.  The application publishes each message at most once, from any state.  The
broker uses a message's name as its packet id, which keeps ids of messages in flight
distinct, as the standard asks.  It routes a QoS 2 message at the PUBREL and answers a
PUBLISH whose id it holds with PUBREC only (method A of MQTT 3.1.1, 4.3.3); a broker
that routes at the PUBLISH keeps the id all the same.  It sends an unacknowledged
message again once per connection, after a CONNECT that keeps the session.

## Runs

`p0`, `p1`, `p2`, `q2` are messages to publish at QoS 0, 1, 2, 2; `i0`, `i1`, `i2`
messages to receive; `t1` a filter.

| Run | Instance | Checks |
|---|---|---|
| `publish_clean` | `p0`, `p1`, `p2`; clean sessions, a single packet id, keep alive, prepareDuplicate(), restarts | `TypeOK`, `ConnectedMeansAttached`, `AckedMeansAccepted`, `AckForCurrentCommand`, `PongPendingMirrorsLink`, `ImplementsContract`, `ImplementsDelivery` |
| `receive_persistent` | `i0`, `i1`, `i2`, `t1`; one session that is resumed, a single packet id, at most 2 packets queued by the broker | `DoneMeansDelivered`, `HandshakeUnderway`, `PacketIdsNonZero`, `SubscriptionHonoured`, `ImplementsDelivery` |
| `liveness` | `i0` (too long for the buffer, sent without end, dropped), `i2`, `t1`; clean sessions, keep alive, queue of 1 | `MethodReturns`, `DeadLinkFound`, `InboundCompletes`, `ImplementsContract` |
| `facade` | two filters, one at QoS 0 and one at QoS 1, two slots, one message, one refusal; clean sessions, restarts, unchecked `begin()`, calm at any time | `TypeOK`, `TableMatchesWanted`, `SubscriptionsRestored`, `NoVerdictWhileConnected`, `CrashNeedsFailedBegin`, `Recovers` |
| `stream` | sizes, chunks and topics of `MCStreamPublish` | `StreamInsideBlock`, `PublishedAsWritten`, `OneBlock` |
| `timer` | a clock of 32 ticks, read up to 40 ticks after it was set | `TimerTypeOK`, `NeverEarly`, `ExpiredIsSeen`, `RemainingIsTrue`, `WaitsExactly` |
| `codec` | all requests of `MCPacketCodec`, write buffers of six sizes, stale bytes, arbitrary bytes | `LengthIsTrue`, `PeerUnderstands`, `DecodeInvertsEncode`, `DecodedIsThere` |
| `reader` | streams of short packets, malformed ones included; buffers of 2 and 6 bytes | `ReaderTypeOK`, `InStep`, `InsideBuffer`, `BufferHoldsPacket`, `ImplementsChannel`, `ReadReturns` |
| `qos2_inbound_again` | `i2`, `t1`, resumed session | ends in a violation of `QoS2DeliveredOnce` |
| `qos2_id_reuse` | `p2`, `q2`, persistent session, restarts | ends in a violation of `AckedMeansAccepted` |
| `begin_without_wifi` | a sketch that goes on after a `begin()` that failed | ends in a violation of `ClientHasNetwork` |
| `power_loss` | two filters, both cut to the same one, two slots, filters subscribed to again and again; two client ids, persistent sessions, restarts | ends in a violation of `KeptSubscribed` |

- **ConnectedMeansAttached**: `connected()` outside of `connect()` means that the
  broker accepted a CONNECT on this very TCP connection, although `_connected` is left
  set by a lost link and by a refused TCP connection.
- **AckedMeansAccepted**: `publish()` returned true at QoS 1, so the message was
  routed at least once; at QoS 2, exactly once.  Holds on clean sessions.
- **AckForCurrentCommand**: an answer on its way belongs to the running method.  It
  holds because a method that gives up closes the connection, whatever its error.
- **PongPendingMirrorsLink**: `pong_pending` is set exactly while a PINGREQ or
  PINGRESP is under way on this connection.
- **DoneMeansDelivered**: what the broker is done with has been in the callback.
- **HandshakeUnderway**: on a live link the next packet of every inbound handshake is
  in one of the two queues or in the hands of cycle_once; no silent state.
- **PacketIdsNonZero**: across the wrap of the packet ids.
- **SubscriptionHonoured**: `subscribe()` and `unsubscribe()` tell the truth about
  the broker at the moment they return.
- **MethodReturns**, **DeadLinkFound**, **InboundCompletes**: see the comments.
- **ImplementsContract**: `connect()` returns true only to an attached client, a
  refused TCP connection leaves the old return code, `subscribe()` returns true only when
  the broker holds the filter, a request of a method that failed may be applied late but
  only on its own connection, the callback runs only inside of a method.
- **ImplementsDelivery**: on clean sessions one routing for one `publish()` and true
  only after it; on any session the callback before the settlement and never after.
- **TableMatchesWanted**, **SubscriptionsRestored**: the table is what the sketch holds
  subscribed, and so is the session of every connection it finds, although a restore
  ignores what its calls return: a `subscribe()` that fails closes the connection, and the
  next one restores again.
- **NoVerdictWhileConnected**, **Recovers**: `state()` and `isConnected()` against the link.
- **CrashNeedsFailedBegin**: the null pointer is reached only by `loop()`, and only past a
  `begin()` that could not join WiFi; retries, restarts and a second `begin()` do not lead there.
- **StreamInsideBlock**, **PublishedAsWritten**, **OneBlock**: over any order of calls,
  failing malloc and streams given up.
- **NeverEarly**, **ExpiredIsSeen**, **RemainingIsTrue**, **WaitsExactly**: the timers
  are at most one millisecond late, and never early, across a roll-over.
- **LengthIsTrue**, **PeerUnderstands**: the lengths that the encoders compute beforehand
  are those of the fields, and a broker that reads by the standard finds the options.
- **DecodeInvertsEncode**, **DecodedIsThere**: with stale bytes behind the packet, bytes
  missing, or bytes nobody encoded.
- **InStep**, **ImplementsChannel**: no timeout leaves the reader in the middle of a packet
  with the connection open; **BufferHoldsPacket**, **ReadReturns**.
- **InsideBuffer**: no portion is written past the buffer, and the terminator that
  `MQTTClientHandler` writes behind a payload, where the length of the packet says it ends,
  falls into the buffer or the one byte the constructor allocates on top (`Allocated`).

### Bounds

Message sets are small and each message is published once, but reconnects, restarts,
pings, subscriptions and redeliveries are unbounded: none of the passing runs has a
bound on their number.  `MaxPacketId` is 1 in the passing runs, so that ids wrap
after every command and a late answer always carries the id of the next command; 65535
only delays this.  The runs that end in a violation have 2, so that it is not the wrap
that causes it.  `MaxQueue`
bounds the messages the broker pushes before the client reads, which TCP's window does
in reality; two suffice for a message behind an answer and an answer behind a message,
and the broker's answers are not bounded by it.  `accepted` and `delivered` saturate
at 2, all the properties distinguish.

The façade has `MaxSubs` = 2 slots, enough for a gap before a used slot, and as many
filters; calls, faults, reconnections and restarts are unbounded.  One refusal stands for
the five, which `connectMQTT` treats alike.  `codec` counts lengths to `Base` = 5 with at
most two digits, so that packets of a few bytes have a long length field and a CONNECT
with everything is too long; `reader` does the same with `Base` = 3.  Its buffers are too
small for some of the packets, and its streams hold up to two packets, so there is one
after an oversized one; `BadPackets` adds types that a client is not sent and lengths of three
digits, each also as a packet that is taken whole before the error is noticed.  The clock of `timer` has 32 ticks, so all differences and all
positions of a roll-over occur; the proof takes any width.

The runs of the façade that end in a violation have no callback messages.  `power_loss` has
two client ids, since `connectMQTT` draws one at random.

### Fairness

`FairSpec` assumes: a running method gets on (it owns the only thread); both timers
expire eventually; a sketch keeps calling `loop()`, and in time a call finds what has
arrived; a broker reads from a link that works.  No other call is assumed, no answer
is promised, and nothing is assumed of the network, which may reset or stall at any
moment.  In particular the broker may send QoS 0 messages for ever, and `loop()` may
find data available before every keep alive.

The façade's `FairSpec` assumes that its thread gets on, that the retry time passes, that a
WiFi network that is away comes back, that a broker reads from a link that works, and
that a sketch calls `loop()` again and again: strongly fair, because it may call other
methods in between.  That nothing fails again is not assumed: `Recovers` only speaks of
runs in which calm has come.  `PacketReader` assumes that the thread and the clock get on, and
nothing of the peer.

`DeadLinkFound` is checked on an application that receives.  Every write sets the keep
alive timer (`lwmqtt_send_packet_in_buffer`), so one that publishes at QoS 0 more often
than the keep alive interval would not ping; what finds a dead link then is TCP.

### What the documentation promises and the code does not keep

1. `docs/02-subscribe.md:46`, QoS 2 is "Exactly once".  `lwmqtt_cycle_once` calls the
   callback for every PUBLISH and remembers no ids.  If the connection breaks before
   the PUBREC arrives and the session is resumed, the message is delivered again.  This
   takes `setCleanSession(false)` and an application with a stable client id: the
   façade draws a new one at every reconnection.
2. `docs/03-advanced.md:65-67`, QoS "guarantees delivery to the broker".  Packet ids
   start over after a restart and PUBREL is never sent again, so on a persistent
   session a new message may meet its own id at the broker, be taken for a duplicate,
   and `publish()` returns true.
3. `docs/01-publish.md:61`, `loop()` "auto-reconnects WiFi and MQTT if disconnected".
   When `begin()` cannot join WiFi it returns before `_client.begin()`; `loop()` joins later
   and calls `connect()` of a client whose `netClient` is a null pointer.
4. `docs/03-advanced.md:116-119`, after a power loss a persistent session has its
   subscriptions.  `connectMQTT` draws a new client id each time (`AViShaMQTT.cpp:278`), so
   the session is that of a client that does not come back, and the restart has emptied the
   table.  The property `KeptSubscribed` fails for two more reasons, which the instance of
   `power_loss` has as well and which need a longer counterexample; on clean sessions without
   restarts it fails for each of them alone.  A slot keeps 63 characters of a filter
   (`:180`), so a longer one is restored as another; and a filter that finds no free slot
   (`:178`) is not restored, though `subscribe()` returned true: the ninth, or an earlier one
   when a filter was subscribed to twice, as in `docs/03-advanced.md:56-58`.

The properties of the run `facade` hold under conditions which the code does not enforce.
They are constants or exceptions of the model, and each stands for a limit of the code.  Only
that of eight topics is documented (`docs/03-advanced.md:194`).

- `Disciplined`: a filter subscribed to twice takes two slots and `unsubscribe()` frees one
  (`AViShaMQTT.cpp:198`), so it comes back with the next restore.
- `Stored`: a filter of 64 characters or more is restored without its end.
- `CleanSession`: a persistent session is never resumed.
- `NoVerdictWhileConnected` excepts `CONNECTION_LOST` and `CONNECT_FAILED`: when one `loop()`
  finds WiFi away and the TCP connection survives, nothing sets `_state` to connected again
  (`:48`), and `isConnected()` is false for as long as the connection lasts.

No property notices the first and the last of these, nor the following, which the model has:

- `_state` may be the refusal of an earlier attempt: `connectMQTT` reads `returnCode()` also
  when the TCP connection failed and no CONNACK came (`:298`).  No such verdict is left on a
  connection, says `NoVerdictWhileConnected`.
- The incoming slot holds one message; a second one read in the same `loop()` replaces it
  (`:330`), acknowledged and unread.
- A prepared duplicate is never sent as one: `publish()` of `MQTTClient` zeroes the field
  through the pointer that it has just handed over (`MQTTClient.cpp:401`).  `Duplicates` is on
  in `publish_clean`; the façade offers no `prepareDuplicate()`.

## Proofs

TLAPS checks the theorems for every value of the constants.  Those about the session hold
for every set of messages and topics, every QoS, every number of packet ids, clean or
persistent sessions, and every choice of keep alive, `drop_overflow`, oversized messages,
restarts and queue length.  They assume `PacketAssumption`, `ClientAssumption` and
`BrokerAssumption`: the types of these constants, and that `NoMsg`, which stands for no
message and no filter, is none of the names.

### The session

- **TypeCorrect**, `Spec => []TypeOK` (`MQTTSession_proofs`).  `TypeOK` is inductive as
  it stands: beyond the types it says which packets each direction of the link can
  carry (a client publishes its own messages; the id of a packet of the broker stands
  for the message), and that cycle_once at `pc = "ack"` has a packet it can answer.
  There is one lemma for each group of actions: calls, cycle_once, the ends of a
  method, faults of the environment, broker.  All others rest on this one.
- **ConnectedAttached**, `Spec => []ConnectedMeansAttached` (same module).
  `_connected` may be TRUE of an earlier connection while `connect()` is waiting, so
  the invariant `AttachedInv` must show that this wait ends in a closed socket or with
  a CONNACK of this broker: a CONNECT under way means that `connect()` waits and no
  CONNACK exists yet (`ConnectUnderWay`); a positive CONNACK, on the wire or in
  `read_buf`, means that the broker is attached (`ConnackUnderWay`, `ConnackRead`); no
  DISCONNECT is under way on a link the client still has open
  (`NoDisconnectUnderWay`), so the broker stays attached; and `connect()` only ends on
  a CONNACK (`MethodAtPc`).
- **AckIsForCurrentCommand** (same module).  The property forbids a bad answer
  but not what leads to one, so `ExchangeInv` follows the exchange from the start: of the
  request, its answer on the wire and its answer in `read_buf` at most one exists at a time
  (`OneRequest` and the parts after it), each matches the running command in type, id and
  message, and with no command waiting there is none.  Between two commands the link is
  free of answers only because every method that gives up closes it; the lemmas about the
  ends of a method are where the proof uses that.
- **IdsNonZero**, **SubscriptionsHonoured**, **PongMirrorsLink** (same module).  `IdsInv`
  adds the PUBREC on its way or in `read_buf`, from which the PUBREL takes its id.
  `SubsInv` adds what a SUBACK or UNSUBACK under way says of the broker's session; the theorem
  is about a step, the one in which the method returns.  `PongInv` is the property with the
  packets counted, also on a link that has stalled: one PINGREQ or one PINGRESP at most.
- **DoneDelivered** (`SessionRefinement_proofs`).  "Done" is
  a step of the broker, the callback one of the client long before, so the invariant
  `DeliveredInv` follows the acknowledgement between the two: what cycle_once is about
  to acknowledge has been delivered (`AnswerMeansDelivered`), what is acknowledged on
  the wire has been delivered (`AnswersMeanDelivered`), and so has what the broker has
  released or is done with (`ReleasedMeansDelivered`).  The second is kept although a
  connection breaks and a session resumes, because a new connection starts with an
  empty queue and `delivered` only grows.
- **HandshakesUnderway** (same module).  `HandshakeInv` adds that the broker has
  a handshake only for messages above QoS 0 (`InflightQoS`) and that a PUBLISH under way is
  sent above QoS 0 (`NextIsUnderway`): cycle_once answers no other, and the handshake would
  stop in its hands.
- **NeverRoutedTwice** (same module): the broker routes no message twice, on any session
  and at any QoS.  `RoutedOnceInv` says that a message is in one place at a time
  (`InOnePlace`): not yet published, one PUBLISH on the wire, stored under one packet id, or
  routed; and that no PUBREL has an id out of the client's range.
- **AckedAccepted**: `CleanSession` implies `Spec => []AckedMeansAccepted`.  At QoS 1 the
  PUBACK that matches is that of this PUBLISH (`QoS1Inv`).  At QoS 2 the PUBCOMP
  does not name a message, so `QoS2Inv` must show that what is stored is the message of the
  running command under its id (`StoredIsRunning`), that the PUBREL finds it there
  (`ReleaseFindsIt`) and that a PUBCOMP comes after the routing.  That is so because a clean
  session starts with nothing stored; the run `qos2_id_reuse` shows that the hypothesis is
  needed.

### The refinements

- **ContractImplemented**, `Spec => ImplementsContract` (`SessionRefinement_proofs`), for all
  constants.  The mapping reads the contract's `call`, `request` and `attached` off `cmd`,
  the queues and the broker.  `Known` is the state needed for that: `TypeOK`, `ExchangeInv`,
  `SubsInv`, and `SightInv`, which says that the packets tell whether the broker has
  accepted the connection, also while `connect()` waits.  First the lemmas on the request
  as it appears in the queues (there is at most one, so writing and reading it is what
  changes the view), then one lemma for each group of actions: it is a step of the contract or
  changes nothing the contract speaks of.
- **DeliveryImplemented** (same module): `Spec => ImplementsDelivery` with clean sessions, or
  without publishing at QoS 2; the same counterexample as above makes the hypothesis
  necessary.  `Tracked` collects the invariants above and two more.  `InboundInv` says that
  an inbound message not yet settled has one trace on a connection: a PUBLISH on the wire,
  or in `read_buf`, or its acknowledgement on the way back.  So cycle_once never hands a
  settled message to the callback.  `PendingInv` says that the method that runs is the one
  whose result is pending.

Two conditions of the proofs are part of the model.  `NoMsg` has to differ from all messages
and topics, which `PacketAssumption` says.  And `Verdict`, what a command makes of
the packet it waited for, has its tests one after the other as the code has them: the packet id
before the return code of a SUBACK, so that a wrong id is a wrong packet whatever it says.

### The façade

`AViShaMQTT_proofs`, for every set of filters and levels, every number of slots and every
set of refusals, from the assumptions of `AViShaMQTT` and `ClientContract`.

- **FacadeTypeCorrect**, `Spec => []TypeOK`.  `FacadeTypes` adds the types of the
  contract and which points of execution go with which caller, without which the
  index of `restoreSubscriptions` could leave the table.
- **FacadeKeepsContract**: what the façade does to its client is a behaviour of
  `ClientContract`, which, by **ContractImplemented**, the client's behaviours are too: no method is
  called while another runs, and none that needs a connection without one.
- **StateIsTruthful**, `Spec => []NoVerdictWhileConnected`.  The property speaks of the moments
  when the sketch has the thread; `StateInv` says it of every moment but that of `connect()`,
  and `PointInv` what the client is doing at each point.
- **CrashIsFailedBegin**, `Spec => []CrashNeedsFailedBegin`, without a hypothesis on the sketch.
  `BegunInv` says that `begin()` is past `_client.begin()` wherever it may connect and when it
  has succeeded; so only `loop()` can be there without a network object, and `PointInv` says
  that it is called only when `begin()` succeeded, or failed and the sketch did not care.
  The run `begin_without_wifi` shows that this case exists.
- **TableIsWanted**, `Spec => []TableMatchesWanted` for a sketch that subscribes to a filter
  once (`Disciplined`), with filters that fit into the slots (`FiltersFit`), and restarts
  only with clean sessions.  `TableInv` is the property slot by slot, with the filters in it
  among those the sketch may use.  That there is a free slot when `subscribe()` needs one is a
  pigeonhole argument (`RoomInTable`), and that the loop of the code finds the first one is
  `FirstSlot`, from the well-foundedness of inclusion.
- **RestoredForSure**, `Spec => []SubscriptionsRestored` on clean sessions, with `Disciplined` and
  `FiltersFit` as well.  `RestoreInv` says, for a restore that has come to slot `i`, that the session
  holds the filters of the slots before `i` and no others, or the connection is gone; while a
  request is under way its filter is the only one in doubt.

The hypotheses of the last two are the conditions listed above, not limits that the
repository documents; each is a constant of the model or a fact about its constants, and
`Disciplined`, `FiltersFit` and `CleanSession` hold together in the run `facade`.

### Timers and stream

About the timers (`ArduinoTimer_proofs`), for every `Half`, every set of timeouts below it
and every horizon, from `TimerAssumption` alone: **TimerTypeCorrect**, **TimerNeverEarly**,
**TimerExpires**, **TimerRemaining**, **WaitingExact**.  The invariant `ClockInv` relates the
clock to the history: as long as less than a whole turn has passed, `now` is
`start + elapsed`, or that less one turn.  Each theorem is then arithmetic in the two cases.

About the stream (`StreamPublish_proofs`), for all sizes and chunks, from
`StreamAssumption`: **StreamStaysInside**, **StreamHeap** and **StreamPublished**.
`StreamInv` adds to the first two properties that the block and the counters have their types
and that the block's domain is `0..streamSize`, which `write()` preserves because it takes at
most the room left.  For the third, `BlockHoldsAccepted` says that the block begins with
the bytes accepted since `beginPublish()`, before anything is published.

### Packets

The proofs about bytes hold for every `Base` from 2 to 128 and every `MaxLen` from 1
(`HelpersAssumption`), so for 128 and 4 of the code.  `PacketFormat_proofs` has what both
sides rest on:

- Induction over numbers, stated for a set (`Induction`), from the well-foundedness of
  inclusion; and from it that each recursive function of the models exists and can be
  unfolded (`Recursion`): the fold in `FlattenSeq`, the powers of `Base`, the two
  loops of the variable length numbers, the sum over filters, `Sent` of the reader.
- `VarnumBytes` and `ReadVarnum` are inverse, and a number of which digits are missing is
  too short and no other number.
- `PacketOf(header, body)`, the one shape of a packet, and `Lies`: some bytes lie in a buffer
  from a position on.  Reading a number, a string or a byte there gives what was written.

The reader (`PacketReader_proofs`), for every stream of packets, every sequence of portions,
and every buffer of one byte or more.  `ReaderAssumption` says what a stream is made of.
**ReaderTypeCorrect**, **AlwaysInStep**, **AlwaysInsideBuffer** and **AlwaysHoldsPacket** are
the four invariants of the run `reader`, and **ChannelImplemented** its refinement.  The
invariant `PositionInv` says that there is a `k` such that `k` packets were taken whole and the
reader is at `At(k)`: between two packets; or in the length of packet `k + 1`, all its digits so
far announcing another one (`InLength`); or in the rest of it, with offset and
missing bytes adding up to the packet and the packet to no more than the buffer (`InRest`); or
draining it, because it does not fit (`InDrain`).  `Placed` adds that the bytes read of it lie in
their places.  The one lemma that is not about positions is `LengthSoFar`: the length read from
the bytes in the buffer is that of the packet in the stream.  Every step is shown to be a
`Progress` in packets, which is what the refinement needs besides the invariant.

The codec (`PacketCodec_proofs`), for all requests of the C types, all sizes of the
write buffer, all stale bytes and all bytes nobody encoded.  `CodecAssumption` says
these types; that a message has a packet id exactly above QoS 0 is what `lwmqtt_publish` does.

- `EncodedFrames`: every encoder fails or writes header, length and body, with the length it
  computed beforehand.  `ArrivalInv` then says that what has arrived agrees with this packet byte
  by byte.
- **LengthsAreTrue**, `Spec => []LengthIsTrue`, is the encoders' half alone.
- **DecodedAreThere**, `Spec => []DecodedIsThere`, is the decoders' half alone: nothing is
  assumed of the bytes.
- **DecodingInvertsEncoding**, `Spec => []DecodeInvertsEncode`: a whole packet is opened and
  gives back each field; of one with missing bytes, either the length is incomplete or the
  decoder's own test of what is left fails.
- **PeersUnderstand**, `Spec => []PeerUnderstands`: the fields of a CONNECT lie where the peer,
  going by flags and lengths, looks for them.  For a list of filters this is an induction over
  the positions in it.

### Only model-checked

The liveness properties `MethodReturns`, `DeadLinkFound`, `InboundCompletes`, `Recovers`
and `ReadReturns`: liveness under fairness is out of this prover's reach.  Every invariant of
the passing runs, and every other action property and refinement, is stated by a theorem.

No module uses a RECURSIVE operator.  Where a recursive function is one over
sequences or numbers, the induction is over a set of numbers, as the library's theorems about
induction take an operator, which the provers here cannot instantiate.

## Not modelled

- `connect()` with `skip`, `begin()` on a live connection, options changed while
  running, callbacks that call back into the client (they would reuse the buffers and
  the command timer under the running method).
- In `MQTTSession`, malformed packets: the broker is well behaved there.  `PacketReader` and
  `PacketCodec` have them.
- `lwmqtt_write_to_network` in portions: what matters of it is whether the packet went out.
- The loops over variable length numbers step by step: `PacketHelpers` has what they compute.
- Lengths beyond 32 bits: `rem_len` of a PUBLISH is a `uint32_t`, and a payload of 4 GB, which
  would wrap it, fits into no chip the library runs on.
- The setters: `setHost()`, the callbacks', `setTimeout()`, `setClockSource()`, the ownership
  of the will's strings.  They store values between two connections.
- The content of incoming messages and topics, cut to 99 characters by the façade; the
  pointer to the topic that a stream keeps.
- How long WiFi takes: `connectWiFi()` starts with `WiFi.disconnect()`, so a network that
  takes longer than its limit is never joined by `loop()`.
- `Serial` output, the examples, generated documentation.

## Plan

Done: the session in the order `MQTTPackets`, `MQTTNetwork`, `MQTTClient`, `MQTTBroker`,
`MQTTSession`; then the abstract specifications and the refinements, the façade, the
stream, the timers, the packet format and the reader; and proofs of every safety property
and every refinement of these.

What could follow is listed under "Not modelled".  First would come `begin()` on a client
that is still connected, which resets the packet ids under a live session, then options
changed between two connections.  A proved link from `PacketChannel` to `MQTTNetwork` would
need the two to share one variable for the packets on their way.
