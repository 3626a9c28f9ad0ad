----------------------------- MODULE AViShaMQTT -----------------------------
(***************************************************************************)
(* The facade (AViShaMQTT.cpp): it joins the WiFi network, connects the    *)
(* client, connects it again when the connection is gone, and subscribes   *)
(* again to the filters of its table.  It is built on ClientContract, so   *)
(* every step that runs a method of MQTTClient is a step of the contract.  *)
(*                                                                         *)
(* `at` is the point of the code where the thread is, when something else  *)
(* can happen before it goes on:                                           *)
(*   "idle"      the sketch has the thread                                 *)
(*   "joining"   the waiting loop of connectWiFi                           *)
(*   "attempt"   connectMQTT is about to call connect()                    *)
(*   "pause"     connectMQTT sleeps after a connect() that failed          *)
(*   "looped"    loop() is past _client.loop()                             *)
(*   "restoring" restoreSubscriptions is at slot `index`                   *)
(*   "connecting", "looping", "subscribing", "unsubscribing",              *)
(*   "publishing", "resubscribing": inside of that method of the client    *)
(*   "crashed"   a method was called through a null pointer                *)
(* The clock is left out: what has a time limit may end or go on.          *)
(***************************************************************************)
EXTENDS ClientContract, FiniteSetsExt

CONSTANTS
  MaxSubs,       \* AVISHAMQTT_MAX_SUBS
  Filters,       \* the filters the sketch subscribes to
  LevelsOf,      \* the levels the sketch subscribes to a filter at
  Stored,        \* the filter that fits into a slot: cut after 63 characters
  Disciplined,   \* never subscribe() to a filter that is subscribed to
  BeginChecked,  \* the sketch does not go on after a begin() that failed
  PowerCycles,   \* may the board restart?
  CalmComes      \* may the surroundings calm down for good?

ASSUME FacadeAssumption ==
  /\ MaxSubs \in Nat \ {0}
  /\ Filters \subseteq Topics
  /\ LevelsOf \in [Filters -> SUBSET QoSLevels]
  /\ Stored \in [Filters -> Topics]
  /\ {Disciplined, BeginChecked, PowerCycles, CalmComes} \subseteq BOOLEAN

VARIABLES
  wifi,      \* WiFi.status(): "up" is WL_CONNECTED, anything else "down"
  calm,      \* no more faults of WiFi, link or broker from here on
  setup,     \* begin(): not called "before", "failed", or "done"
  begun,     \* _client.begin() has run: the client has its network object
  state,     \* _state
  retryDue,  \* millis() - _lastReconnectTry >= 3000
  table,     \* _subs
  incoming,  \* the message in _incomingTopic and _incomingMessage
  at,        \* see above
  caller,    \* who waits for connectWiFi and connectMQTT: "begin" or "loop"
  index,     \* i of restoreSubscriptions
  wanted     \* history: the QoS of the filters the sketch holds subscribed

environmentVars == <<wifi, calm>>
facadeVars == <<setup, begun, state, retryDue, table, incoming, caller, index>>
vars == <<contractVars, environmentVars, facadeVars, at, wanted>>

FreeSlot == [topic |-> None, qos |-> NoQoS]

States == {"CONNECTION_TIMEOUT", "CONNECTION_LOST", "CONNECT_FAILED",
           "DISCONNECTED", "CONNECTED"} \cup Refusals

Points == {"idle", "joining", "attempt", "connecting", "pause", "looping",
           "looped", "restoring", "resubscribing", "subscribing",
           "unsubscribing", "publishing", "crashed"}

EmptyTable == [i \in 1..MaxSubs |-> FreeSlot]

\* The constructor.
Init ==
  /\ ContractInit
  /\ wifi = "down"
  /\ calm = FALSE
  /\ setup = "before"
  /\ begun = FALSE
  /\ state = "DISCONNECTED"
  /\ retryDue = FALSE
  /\ table = EmptyTable
  /\ incoming = None
  /\ at = "idle"
  /\ caller = "loop"
  /\ index = 0
  /\ wanted = EmptySession

\* The facade is idle between two calls of the sketch.
Return == at' = "idle" /\ caller' = "loop" /\ index' = 0

IsConnected == state = "CONNECTED" /\ Connected

\* The first line of loop(), of its second half, and of state().
Lost(s) == IF s = "CONNECTED" THEN "CONNECTION_LOST" ELSE s

-----------------------------------------------------------------------------
(* connectWiFi()                                                           *)

\* WiFi.disconnect() and WiFi.begin()
StartJoining(c) ==
  /\ wifi' = "down"
  /\ at' = "joining"
  /\ caller' = c
  /\ UNCHANGED <<calm, index>>

\* connectWiFi or connectMQTT returns false and leaves s in _state.
GiveUp(s) ==
  /\ Return
  /\ state' = s
  /\ setup' = IF caller = "begin" THEN "failed" ELSE setup

\* Fault: begin() goes on to connectMQTT without _client.begin().
JoinedWithoutClient ==
  /\ at = "joining"
  /\ wifi = "up"
  /\ IF caller = "begin" THEN at' = "attempt" /\ UNCHANGED <<caller, index>> ELSE Return
  /\ UNCHANGED <<contractVars, environmentVars, setup, begun, state, retryDue, table,
                 incoming, wanted>>

Joined ==
  /\ at = "joining"
  /\ wifi = "up"
  /\ IF caller = "begin"
       THEN begun' = TRUE /\ at' = "attempt" /\ UNCHANGED <<caller, index>>
       ELSE Return /\ UNCHANGED begun
  /\ UNCHANGED <<contractVars, environmentVars, setup, state, retryDue, table,
                 incoming, wanted>>

\* Calm surroundings let the board join within the time limit.
JoinTimesOut ==
  /\ at = "joining"
  /\ wifi = "down"
  /\ ~calm
  /\ GiveUp("CONNECT_FAILED")
  /\ UNCHANGED <<contractVars, environmentVars, begun, retryDue, table, incoming,
                 wanted>>

-----------------------------------------------------------------------------
(* connectMQTT()                                                           *)

\* connect() of a client without a network object.
Crash ==
  /\ at = "attempt"
  /\ ~begun
  /\ at' = "crashed"
  /\ UNCHANGED <<contractVars, environmentVars, facadeVars, wanted>>

\* Fault: any return code but success ends the attempts, also that of a
\* connect() nobody has answered.
JudgeAnyCode ==
  IF returnCode' # "accepted"
    THEN GiveUp(returnCode')
    ELSE at' = "pause" /\ UNCHANGED <<setup, state, caller, index>>

\* connect() returned false: a return code from 1 to 5 ends the attempts.
Judge ==
  IF returnCode' \in Refusals
    THEN GiveUp(returnCode')
    ELSE at' = "pause" /\ UNCHANGED <<setup, state, caller, index>>

AttemptRefused ==
  /\ at = "attempt"
  /\ begun
  /\ calm => wifi = "down"
  /\ ConnectRefused
  /\ Judge
  /\ UNCHANGED <<environmentVars, begun, retryDue, table, incoming, wanted>>

AttemptFails ==
  /\ at = "attempt"
  /\ begun
  /\ wifi = "up" /\ ~calm
  /\ ConnectFails
  /\ Judge
  /\ UNCHANGED <<environmentVars, begun, retryDue, table, incoming, wanted>>

\* The client id is drawn at random: any one, an earlier one included.
AttemptSent ==
  /\ at = "attempt"
  /\ begun
  /\ wifi = "up"
  /\ \E id \in ClientIds : ConnectStart(id)
  /\ at' = "connecting"
  /\ UNCHANGED <<environmentVars, facadeVars, wanted>>

\* Fault: _state keeps the verdict on an earlier attempt.
ReconnectedQuietly ==
  IF caller = "begin"
    THEN Return /\ setup' = "done" /\ state' = "CONNECTED"
    ELSE at' = "restoring" /\ index' = 1 /\ UNCHANGED <<setup, state, caller>>

\* connect() returned true, to begin() or to loop().
Reconnected ==
  /\ state' = "CONNECTED"
  /\ IF caller = "begin"
       THEN Return /\ setup' = "done"
       ELSE at' = "restoring" /\ index' = 1 /\ UNCHANGED <<setup, caller>>

ConnectSucceeds ==
  /\ at = "connecting"
  /\ ConnectReturnsTrue
  /\ Reconnected
  /\ UNCHANGED <<environmentVars, begun, retryDue, table, incoming, wanted>>

\* In calm surroundings a method fails only on a connection lost before.
MayFail == calm => ~socket

ConnectReturnsFalse ==
  /\ at = "connecting"
  /\ MayFail
  /\ ConnectUnanswered \/ \E rc \in Refusals : ConnectDenied(rc)
  /\ Judge
  /\ UNCHANGED <<environmentVars, begun, retryDue, table, incoming, wanted>>

TryAgain ==
  /\ at = "pause"
  /\ at' = "attempt"
  /\ UNCHANGED <<contractVars, environmentVars, facadeVars, wanted>>

TimeOut ==
  /\ at = "pause"
  /\ GiveUp("CONNECTION_TIMEOUT")
  /\ UNCHANGED <<contractVars, environmentVars, begun, retryDue, table, incoming,
                 wanted>>

-----------------------------------------------------------------------------
(* begin() and loop()                                                      *)

MayCallBegin == setup = "before" \/ (setup = "failed" /\ BeginChecked)
MayCallLoop == setup = "done" \/ (setup = "failed" /\ ~BeginChecked)

BeginCall ==
  /\ at = "idle"
  /\ MayCallBegin
  /\ state' = "DISCONNECTED"
  /\ StartJoining("begin")
  /\ UNCHANGED <<contractVars, setup, begun, retryDue, table, incoming, wanted>>

LoopWithoutWiFi ==
  /\ at = "idle"
  /\ MayCallLoop
  /\ wifi = "down"
  /\ state' = Lost(state)
  /\ retryDue' = FALSE
  /\ IF retryDue THEN StartJoining("loop") ELSE UNCHANGED <<environmentVars, at, caller, index>>
  /\ UNCHANGED <<contractVars, setup, begun, table, incoming, wanted>>

\* _client.loop() runs when the client is connected.
LoopCall ==
  /\ at = "idle"
  /\ MayCallLoop
  /\ wifi = "up"
  /\ IF Connected THEN LoopStart /\ at' = "looping"
                  ELSE at' = "looped" /\ UNCHANGED contractVars
  /\ UNCHANGED <<environmentVars, facadeVars, wanted>>

LoopReturns ==
  /\ at = "looping"
  /\ MethodReturnsTrue \/ (MayFail /\ MethodReturnsFalse)
  /\ at' = "looped"
  /\ UNCHANGED <<environmentVars, facadeVars, wanted>>

\* Fault: the moment of the retry is taken, the retry not made.
RetryForgotten ==
  /\ retryDue' = FALSE
  /\ Return

\* _lastReconnectTry = millis(), then connectMQTT.
Retry ==
  /\ retryDue' = FALSE
  /\ at' = "attempt"
  /\ UNCHANGED <<caller, index>>

LoopEnds ==
  /\ at = "looped"
  /\ Connected
  /\ Return
  /\ UNCHANGED <<contractVars, environmentVars, setup, begun, state, retryDue, table,
                 incoming, wanted>>

LoopDisconnected ==
  /\ at = "looped"
  /\ ~Connected
  /\ state' = Lost(state)
  /\ IF retryDue THEN Retry ELSE Return /\ UNCHANGED retryDue
  /\ UNCHANGED <<contractVars, environmentVars, setup, begun, table, incoming, wanted>>

-----------------------------------------------------------------------------
(* restoreSubscriptions()                                                  *)

\* Fault: the last slot is not looked at.
ActiveSlotsButLast(from) == {i \in from..(MaxSubs - 1) : table[i] # FreeSlot}

\* The slots from i on that are in use.
ActiveSlots(from) == {i \in from..MaxSubs : table[i] # FreeSlot}

RestoreNext ==
  /\ at = "restoring"
  /\ ActiveSlots(index) # {}
  /\ LET i == Min(ActiveSlots(index)) IN
       /\ SubscribeStart(table[i].topic, table[i].qos)
       /\ index' = i
  /\ at' = "resubscribing"
  /\ UNCHANGED <<environmentVars, setup, begun, state, retryDue, table, incoming,
                 caller, wanted>>

\* What subscribe() returned is ignored.
RestoreReturns ==
  /\ at = "resubscribing"
  /\ MethodReturnsTrue \/ (MayFail /\ MethodReturnsFalse)
  /\ at' = "restoring"
  /\ index' = index + 1
  /\ UNCHANGED <<environmentVars, setup, begun, state, retryDue, table, incoming,
                 caller, wanted>>

\* No slot is left, or every further subscribe() returns at once.
RestoreEnds ==
  /\ at = "restoring"
  /\ ActiveSlots(index) = {} \/ ~Connected
  /\ Return
  /\ UNCHANGED <<contractVars, environmentVars, setup, begun, state, retryDue,
                 table, incoming, wanted>>

-----------------------------------------------------------------------------
(* Calls of the sketch (those that return at once when the client is not   *)
(* connected change nothing then, and are no steps)                        *)

MaySubscribe(f) == Disciplined => wanted[f] = NoQoS

SubscribeCall(f, q) ==
  /\ at = "idle"
  /\ MaySubscribe(f)
  /\ SubscribeStart(f, q)
  /\ at' = "subscribing"
  /\ UNCHANGED <<environmentVars, facadeVars, wanted>>

\* The filter takes the first free slot, if there is one.
Record(f, q) ==
  LET free == {i \in 1..MaxSubs : table[i] = FreeSlot} IN
    table' = IF free = {} THEN table
             ELSE [table EXCEPT ![Min(free)] = [topic |-> Stored[f], qos |-> q]]

SubscribeFails ==
  /\ at = "subscribing"
  /\ MayFail
  /\ MethodReturnsFalse
  /\ Return
  /\ UNCHANGED <<environmentVars, setup, begun, state, retryDue, table, incoming,
                 wanted>>

SubscribeSucceeds ==
  /\ at = "subscribing"
  /\ MethodReturnsTrue
  /\ Record(method.topic, method.qos)
  /\ wanted' = [wanted EXCEPT ![method.topic] = method.qos]
  /\ Return
  /\ UNCHANGED <<environmentVars, setup, begun, state, retryDue, incoming>>

UnsubscribeCall(f) ==
  /\ at = "idle"
  /\ UnsubscribeStart(f)
  /\ at' = "unsubscribing"
  /\ UNCHANGED <<environmentVars, facadeVars, wanted>>

\* Fault: the first slot in use is freed, whatever its filter.
ForgetFirst(f) ==
  LET active == ActiveSlots(1) IN
    table' = IF active = {} THEN table ELSE [table EXCEPT ![Min(active)] = FreeSlot]

\* The first slot that holds the filter is freed.
Forget(f) ==
  LET held == {i \in ActiveSlots(1) : table[i].topic = f} IN
    table' = IF held = {} THEN table ELSE [table EXCEPT ![Min(held)] = FreeSlot]

UnsubscribeSucceeds ==
  /\ at = "unsubscribing"
  /\ MethodReturnsTrue
  /\ Forget(method.topic)
  /\ wanted' = [wanted EXCEPT ![method.topic] = NoQoS]
  /\ Return
  /\ UNCHANGED <<environmentVars, setup, begun, state, retryDue, incoming>>

UnsubscribeFails ==
  /\ at = "unsubscribing"
  /\ MayFail
  /\ MethodReturnsFalse
  /\ Return
  /\ UNCHANGED <<environmentVars, setup, begun, state, retryDue, table, incoming,
                 wanted>>

\* The three publish() methods and endPublish().
PublishCall ==
  /\ at = "idle"
  /\ PublishStart
  /\ at' = "publishing"
  /\ UNCHANGED <<environmentVars, facadeVars, wanted>>

PublishReturns ==
  /\ at = "publishing"
  /\ MethodReturnsTrue \/ (MayFail /\ MethodReturnsFalse)
  /\ Return
  /\ UNCHANGED <<environmentVars, setup, begun, state, retryDue, table, incoming,
                 wanted>>

DisconnectCall ==
  /\ at = "idle"
  /\ IF Connected THEN Disconnect ELSE UNCHANGED contractVars
  /\ state' = "DISCONNECTED"
  /\ UNCHANGED <<environmentVars, setup, begun, retryDue, table, incoming, at,
                 caller, index, wanted>>

StateCall ==
  /\ at = "idle"
  /\ state' = IF Connected THEN state ELSE Lost(state)
  /\ UNCHANGED <<contractVars, environmentVars, setup, begun, retryDue, table,
                 incoming, at, caller, index, wanted>>

\* onMessage(), called by the client from inside of one of its methods.
OnMessage(m) ==
  /\ Deliver(m)
  /\ incoming' = m
  /\ UNCHANGED <<environmentVars, setup, begun, state, retryDue, table, at, caller,
                 index, wanted>>

\* getIncomingTopic() and getIncomingMessage(), then both set to "".
TakeIncoming ==
  /\ at = "idle"
  /\ incoming # None
  /\ incoming' = None
  /\ UNCHANGED <<contractVars, environmentVars, setup, begun, state, retryDue, table,
                 at, caller, index, wanted>>

-----------------------------------------------------------------------------
(* The surroundings                                                        *)

WiFiDrops ==
  /\ wifi = "up" /\ ~calm
  /\ wifi' = "down"
  /\ UNCHANGED <<contractVars, calm, facadeVars, at, wanted>>

\* Once WiFi.begin() was called the WiFi stack joins, and joins again, by itself.
WiFiComesUp ==
  /\ wifi = "down"
  /\ at = "joining" \/ setup # "before"
  /\ wifi' = "up"
  /\ UNCHANGED <<contractVars, calm, facadeVars, at, wanted>>

CalmBegins ==
  /\ CalmComes
  /\ ~calm /\ ~socket
  /\ calm' = TRUE
  /\ UNCHANGED <<contractVars, wifi, facadeVars, at, wanted>>

RetryTimer ==
  /\ ~retryDue
  /\ retryDue' = TRUE
  /\ UNCHANGED <<contractVars, environmentVars, setup, begun, state, table, incoming,
                 at, caller, index, wanted>>

LinkBreaks ==
  /\ ~calm
  /\ LinkLost
  /\ UNCHANGED <<environmentVars, facadeVars, at, wanted>>

Broker ==
  /\ \/ \E ok \in BOOLEAN : BrokerConnect(ok) /\ (calm => ok)
     \/ \E granted \in BOOLEAN : BrokerApplies(granted) /\ (calm => granted)
     \/ BrokerForgets
  /\ UNCHANGED <<environmentVars, facadeVars, at, wanted>>

\* The board restarts.  On clean sessions nothing is subscribed to any more; a
\* persistent session is what the sketch still counts on.
Reboot ==
  /\ PowerCycles /\ ~calm
  /\ PowerCycle
  /\ wifi' = "down"
  /\ setup' = "before"
  /\ begun' = FALSE
  /\ state' = "DISCONNECTED"
  /\ retryDue' = FALSE
  /\ table' = EmptyTable
  /\ incoming' = None
  /\ Return
  /\ wanted' = IF CleanSession THEN EmptySession ELSE wanted
  /\ UNCHANGED calm

-----------------------------------------------------------------------------

Sketch ==
  \/ BeginCall \/ LoopWithoutWiFi \/ LoopCall \/ PublishCall \/ DisconnectCall
  \/ StateCall \/ TakeIncoming
  \/ \E f \in Filters : \E q \in LevelsOf[f] : SubscribeCall(f, q)
  \/ \E f \in Filters : UnsubscribeCall(f)

\* What the facade does without the sketch.
Run ==
  \/ Joined \/ JoinTimesOut
  \/ Crash \/ AttemptRefused \/ AttemptFails \/ AttemptSent
  \/ ConnectSucceeds \/ ConnectReturnsFalse \/ TryAgain \/ TimeOut
  \/ LoopReturns \/ LoopEnds \/ LoopDisconnected
  \/ RestoreNext \/ RestoreReturns \/ RestoreEnds
  \/ SubscribeSucceeds \/ SubscribeFails
  \/ UnsubscribeSucceeds \/ UnsubscribeFails
  \/ PublishReturns

Environment ==
  \/ WiFiDrops \/ WiFiComesUp \/ CalmBegins \/ RetryTimer \/ LinkBreaks \/ Broker
  \/ Reboot
  \/ \E m \in InMsgs : OnMessage(m)

Next == Sketch \/ Run \/ Environment

Spec == Init /\ [][Next]_vars

\* The thread gets on, the clock runs, a sketch calls loop() again and again,
\* and a broker reads what has arrived.  Of WiFi it is assumed only that a
\* network that is not there comes back; that it or anything else stays is not.
Fairness ==
  /\ WF_vars(Run)
  /\ WF_vars(RetryTimer)
  /\ SF_vars(LoopCall \/ LoopWithoutWiFi)
  /\ WF_vars(WiFiComesUp)
  /\ WF_vars(socket /\ Broker)

FairSpec == Spec /\ Fairness

-----------------------------------------------------------------------------

TypeOK ==
  /\ {socket, connected, attached} \subseteq BOOLEAN
  /\ returnCode \in {"accepted", "unknown"} \cup Refusals
  /\ clientId \in ClientIds
  /\ session \in [ClientIds -> [Topics -> QoSLevels \cup {NoQoS}]]
  /\ delivered \in [InMsgs -> 0..2]
  /\ wifi \in {"up", "down"}
  /\ {calm, begun, retryDue} \subseteq BOOLEAN
  /\ setup \in {"before", "failed", "done"}
  /\ state \in States
  /\ table \in [1..MaxSubs -> [topic : Topics, qos : QoSLevels] \cup {FreeSlot}]
  /\ incoming \in InMsgs \cup {None}
  /\ at \in Points
  /\ caller \in {"begin", "loop"}
  /\ index \in 0..(MaxSubs + 1)
  /\ wanted \in [Topics -> QoSLevels \cup {NoQoS}]

\* The table holds each filter the sketch is subscribed to in one slot and
\* nothing else, over any sequence of subscribe() and unsubscribe() and
\* whatever they returned, when no filter is subscribed to twice.
TableMatchesWanted ==
  /\ {<<table[i].topic, table[i].qos>> : i \in ActiveSlots(1)}
       = {<<t, wanted[t]>> : t \in {t \in Topics : wanted[t] # NoQoS}}
  /\ \A i, j \in ActiveSlots(1) : table[i].topic = table[j].topic => i = j

\* Whenever the sketch has the thread and the client is connected, the session
\* of this connection holds exactly what the sketch subscribed to, although
\* the connection is a new one with an empty session and restoreSubscriptions
\* ignores what its calls return.
SubscriptionsRestored ==
  at = "idle" /\ Connected => session[clientId] = wanted

\* state() reports a refusal, a time out or a disconnect only while there is
\* no MQTT connection.  (What is left of a WiFi network that went away for a
\* moment, CONNECTION_LOST or CONNECT_FAILED, may be wrong.)
NoVerdictWhileConnected ==
  at = "idle" /\ Connected =>
    state \in {"CONNECTED", "CONNECTION_LOST", "CONNECT_FAILED"}

\* The client without a network object is reached in one way only: by loop(),
\* in a sketch that went on after a begin() that could not join WiFi.  No
\* order of calls, faults, retries and restarts leads there after a begin()
\* that got past WiFi, whatever became of the broker.
CrashNeedsFailedBegin ==
  at = "crashed" => caller = "loop" /\ setup = "failed" /\ ~begun /\ ~BeginChecked

\* When the surroundings calm down while the client is not connected, the
\* sketch will find itself connected, with isConnected() saying so, and
\* subscribed to what it was subscribed to.
Recovers ==
  calm /\ setup = "done" ~>
    at = "idle" /\ IsConnected /\ session[clientId] = wanted

-----------------------------------------------------------------------------
(* What the documentation promises and the code does not keep: each is the *)
(* property of runs that end in a counterexample                           *)

\* "It auto-reconnects WiFi and MQTT if disconnected", docs/01-publish.md of
\* loop(): also after begin() could not join the WiFi network.
ClientHasNetwork == at # "crashed"

\* Of a persistent session after a power loss, "Broker automatically restores
\* subscriptions" and "No need to call subscribe() again", and of any other
\* connection, "After reconnect, subscriptions auto-restore",
\* docs/03-advanced.md: a filter that subscribe() returned true for, and
\* unsubscribe() has not, is in the session of every connection the sketch
\* finds.
KeptSubscribed ==
  at = "idle" /\ Connected =>
    \A t \in Topics : wanted[t] # NoQoS => session[clientId][t] # NoQoS

=============================================================================
