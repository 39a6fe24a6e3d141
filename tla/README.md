# A TLA+ model of the Zoho IoT SDK for C

The SDK connects a device to the Zoho IoT cloud over MQTT. This directory holds
TLA+ modules translated from its source, the TLC configurations that check them
on small instances, and proofs for TLAPS of the results that should hold for
every instance. Paths are relative to the repository. All modules model the
build with the embedded Paho client (`lib/paho.mqtt/MQTTClient-C`) and threads;
`PROJECT.json` maps each definition to the lines it stands for.

## 1. Inventory of the system

| Component | State | Operations | Where |
|---|---|---|---|
| MQTT session (embedded Paho) | `isconnected`, `cleansession`, `messageHandlers[5]`, `ping_outstanding`, timers, packet buffers | `MQTTClientInit`, `MQTTConnect`, `MQTTSubscribe`, `MQTTPublish`, `MQTTYield`/`cycle`, `MQTTDisconnect` | `lib/paho.mqtt/MQTTClient-C/src/MQTTClient.c` |
| Connection, publish and retry API | `current_state`, the two handlers, `retryACK`/`failedACK`, `retryEvent`/`failedEvent` | `zclient_connect`, `zclient_reconnect`, `zclient_disconnect`, `zclient_*_subscribe`, `zclient_publish`, `zclient_dispatch`, `zclient_dispatchEvent...`, `zclient_publish*Ack`, `zclient_yield` | `src/zoho_iot_client.c` |
| Message threads | one detached thread per message, one per "received" acknowledgement; `OTA_RECEIVED`, `CLOUD_LOGGING`, `cloud_logging_in_processing` | `onMessageReceived`, `processMessageReceived`, `generateACKPayload` | `src/zoho_message_handler.c`, `src/zoho_iot_client.c` |
| Client registry | `client_registry[16]`, `client_registry_count` | `initMessageHandler`, `findClientByTopic` | `src/zoho_message_handler.c` |
| Back-off | `start_time`, `ZretryInterval`, `retryCount` | `zclient_reconnect`, `getRetryInterval` | `src/zoho_iot_client.c`, `src/zoho_utils.c` |
| Transport | `ipstack`, its descriptor, TLS contexts | `NetworkInit`, `NetworkConnect`, `NetworkConnectTLS`, `NetworkDisconnect`, read and write | `src/tls_network.c` |
| OTA and cloud logging | handler pointer, upload in progress | `handle_OTA`, `handle_cloud_logging` | `src/zoho_iot_client.c`, `src/zoho_message_handler.c` |
| Telemetry payload, event data | two cJSON trees, one with assets | `zclient_add*`, `zclient_markDataPointAsError`, `zclient_dispatch`, `zclient_dispatchEventFromEventDataObject` | `src/zoho_iot_client.c` |
| Log files | the log's handle and size, the reader's own handle and its last position | `log_initialize`, `log_log` with rolling, `log_free`, `get_cloud_log` | `src/zoho_log.c` |
| HTTP, cJSON, mbedTLS, MQTTPacket, Paho C | - | - | `lib/` and outside |

**Interaction.** The application's loop (`projects/basic/basic.c:129-157`) calls
`zclient_reconnect`, `zclient_dispatch` and `zclient_yield` in turn.
`MQTTYield`, and the waits for PUBACK and SUBACK, read packets; a PUBLISH on a
subscribed topic is copied and handed to a new thread. That thread acknowledges
the message as received (from yet another thread), picks a handler by flags in
the client, and the handler's acknowledgement is published from the thread. All
of them share one `ZohoIOTclient`. `client->lock` protects the calls into Paho
and most, but not all, of the accesses to the client's own fields.

**What is hard.**

- *Interleaving*: `current_state`, `mqtt_client.isconnected` and
  `failedACK.topic` are read or written outside the lock; flags are written in
  one critical section and used in another.
- *Failure*: any of connect, subscribe, publish and yield may find the session
  closed, by itself or by another thread, and has to leave a state from which
  the loop recovers with all subscriptions.
- *Ordering*: a thread that failed before a reconnect reports it after.
- *Time*: the back-off uses the wall clock, and unsigned differences; every
  read has a time-out, and a time-out can cut a packet in two.
- *Delivery*: a packet can be lost with its link, answered after the caller has
  given up, or reach the broker after its connection has been replaced.
- *Resources*: descriptors across failed attempts; buffers of `payload_size`;
  sixteen registry entries; files that are rolled under a reader.

**What makes each component correct.**

- Session and API: a usable client is subscribed to what it has handlers for;
  every lost session is noticed; acknowledgements kept for a retry exist, are
  resent, and are not resent after they were confirmed.
- Packets: a publish that succeeds was accepted, none is accepted twice, a dead
  link is noticed, and every call returns.
- Back-off: the interval follows the failures in a row and is really waited
  for; a connected client has its transport.
- Transport: connection attempts leave no descriptor behind.
- Dispatch: every well-formed message reaches a handler, the one its command
  name calls for; the cloud logging is never left marked busy.
- Registry: a message goes to no other client in use than the one it was sent
  to; objects that are initialised again take no second entry.
- Telemetry: the payload is the last value of each name; no value is dispatched
  twice, and one is lost only by a call that says so.
- Log files: rolling drops only the oldest lines; the reader notices it, and an
  upload has nothing that the one before has looked at.

`PROJECT.json` lists the individual hazards with their lines.

## 2. Modules

| Module | Models |
|---|---|
| `MqttSession` | the effect of each Paho call on the session and the link |
| `ClientSession` | one client shared by the application thread and all message threads, over `MqttSession` |
| `AckContract` | abstract: what becomes of an acknowledgement; `ClientSession` implements it |
| `MqttWire` | packets, timers and connections under the Paho calls |
| `PublishContract` | abstract: what `MQTTPublish` promises; `MqttWire` implements it |
| `PingWindow` | `MqttWire` with the age of the outstanding ping |
| `Reconnect` | back-off, wall clock and descriptors; one action per API call |
| `MessageDispatch` | how each message's thread finds its handler |
| `ClientRegistry` | several clients, and how each message's thread finds its client |
| `Telemetry` | data points and event data until they are dispatched |
| `LogFiles` | the log file, its rolling, and the reader that uploads it |
| `MC...` | instances for TLC |
| `..._proofs` | theorems, one module for each of `ClientSession`, `AckContract`, `MqttWire` (with `PublishContract`), `Reconnect`, `MessageDispatch`, `ClientRegistry`, `Telemetry`, `LogFiles` |

### MqttSession

One operator per library call. Every one of these calls is made with
`client->lock` held, so a call is one step of its thread. A call that waits for
an answer is split into its success and its failure; the caller's module says
when a failure is possible. `MQTTCloseSession` empties the handler table of a
clean session. A packet of a type that `cycle` does not know closes the session
(`MQTTClient.c:316-319`, `:461`) but is no failure of the call that reads it:
publish, subscribe and yield go on and may succeed on a session they have found
closed, and a subscription then leaves its handler in it. `link` is `"down"`, `"tcp"` (transport up, CONNECT not yet
answered) or `"up"`.

### ClientSession

`pc` is the control point of the application thread. `"idle"` is between two
API calls; the `Call...` actions choose the next call; the other actions are
the parts of the calls, named after the part. A section under `client->lock` is
one action and every unlocked access to a field another thread may change is an
action of its own. So `zclient_reconnect` is
`CallReconnect, Teardown, NetConnect, MqttInit, MqttConnect, SetConnected,
Reset, (SubCheck, SubSend)*, AckCheck, AckPrint, AckTopic, AckPublish,
AckClear, EventCheck, ...`, with every early return. `thread[m]` is the control
point of message `m`'s thread: publish the acknowledgement, look at
`isconnected` without the lock, set `current_state` without the lock, store the
acknowledgement. `ackThread[m]` is the thread of the "received"
acknowledgement.

A payload is abstracted to who sent it and whether it fits: `TooLarge` payloads
are refused by `publishMessage`, `Unframed` ones fit `payload_size` but not the
packet buffer of the same size, so `MQTTPublish` fails and closes the session.
Acknowledgements, events and telemetry can be of either kind. Unknown packets
count as disruptions (`Answered`).
JSON and packet ids are left out. The `confirmed` variable is history: no
action's guard reads it.

`AckContract` sees of this only which messages have arrived, which
acknowledgements were published and which one is kept. It allows a kept
acknowledgement to be replaced, and to be discarded once some acknowledgement
has been published (that is what the code does, see `deleted_ack`), and forbids
publishing one successfully twice, publishing one for a message that has not
arrived, and keeping one that was published.

### MqttWire

The same calls as in `MqttSession`, one level down. The stream is abstracted to
packets: `toServer` and `toClient`. `sendPacket` has three outcomes: short,
whole, and over, because each retry asks for the whole length again from
further on in the buffer (`MQTTClient.c:50`). Each read is one action with what
`cycle` does with it: `ReadPacket`, `ReadTimeout`, `ReadError`, and
`ReadStalled` for a time-out within a packet, after which the stream is
`garbled` and any packet may be seen until the next connection. Cut off in its
body, a packet counts as a time-out. Cut off behind its first byte it counts as
a whole packet of length 0, since `readPacket` ignores what `decodePacket`
returns (`MQTTClient.c:158`), and the deserialisers take it
(`MQTTDeserializePublish.c:53-58` and `:95-99`, `MQTTConnectClient.c:146-149`,
`MQTTSubscribeClient.c:113-116` return 1): the call that waits for that type
succeeds. `Return` is the
end of a call, with the session closed on every failure of a publish or
subscribe. `call` is the call in progress: there is one, as the lock of the
client is held. `MQTTConnect` puts a new connection under a new `MQTTClient`;
publishes still under way on the old one are `late` and may reach the broker
later. `accepted` counts how often the broker has accepted each publish, so that
a second time would show. The broker and the network are external and modelled as the client uses
them.

### Reconnect

The record `net` is the transport: whether `mqtt_client.ipstack` is set, the
descriptor `NetworkDisconnect` would close, and the descriptors that are open.
`ConnectResults` is the set of outcomes of `zclient_connect` on a transport.
The difference `getCurrentTime() - start_time` is taken modulo `ULLONG_RANGE`,
as the unsigned type has it: a clock set back makes the interval look over. The
error -11 (`EAI_SYSTEM`) is that of `getaddrinfo` in the build without TLS,
where it makes `zclient_connect` call `zclient_disconnect` and clear
`start_time`. `TLS_MODE` is a variable that never changes after `Init`, so that
one run has both builds. `crashed` is set when a call dereferences a null
transport.

### MessageDispatch

One thread per message, with the loop of `generateACKPayload` over the commands
of the message, which writes `OTA_RECEIVED` and `CLOUD_LOGGING`, and the later
critical sections that read them. Publishing the acknowledgements is in
`ClientSession`.

### ClientRegistry

A client object is initialised, used, freed and initialised again, with one of
several devices; a failed `zclient_init` has already written its topics, and
perhaps registered the object. A thread is received, then routed by
`findClientByTopic` or dropped, then handled: two steps between which any
client may be freed or given another device. Two clients in use do not share a
device; that is the application's part.

### Telemetry

A cJSON tree is the set of its nodes with their paths; keys are compared
without regard to case, as `cJSON_HasObjectItem` does. `Add` is the four
`zclient_add*` calls, with a value, an object, or a value that could not be
created. `writes` is history: `PayloadIsLastWrites` compares the tree the calls
build with one computed from the list of writes. `confirmed` is what a call was
told the broker has got; what it really has got is not the client's to know, and
a publish that failed may be among it. `stored` is the one event kept for a
retry: `RetryEvent` is its resend by `zclient_reconnect`, and the next event
that fails takes its place.

### LogFiles

A file is the sequence of its numbered lines and keeps its identity when it is
renamed or removed. `log_log` is one action (it holds the log's lock);
`get_cloud_log` is five (`Measure`, `Reopen`, `Look`, `Scan`, `Fetch`), with
writers in between, its own log lines among them. Positions are bytes: lines have
`LineBytes` bytes, so that the reader's byte-wise scan back can stop within a
line, where it does in the code. `fgets` hands a line over in pieces of at most
`LINE_SIZE - 1` bytes, each of which counts as a line.

`ZcloudLog` has no lock, and the flag that should keep uploads apart is per
client and set too late (`zoho_iot_client.c:1915`). Two uploads at once, or an
upload and a `zclient_init`, can happen at any moment (`Overlap`,
`zclient_init`); what `ZcloudLog` holds then is anything, a null handle in use
included, so the reader is `"tangled"` and nothing is said of it until it is
initialised again. `mark` and `since` are history: how many lines were written
when this upload, and the last one through the same handle, looked at the end of
the file.

### Usage assumed

As in `projects/`: the client is a static object, so `zclient_init` starts from
zeroes; one thread makes the API calls; `zclient_connect` is called on an
INITIALIZED client, before handlers are registered, and `zclient_reconnect`
from then on; `zclient_yield` is called while CONNECTED; a handler acknowledges
the payload it was given, at most once.

## 3. Runs

### That pass

| Run | Instance | Shows |
|---|---|---|
| `session` | 2 messages, 1 event that fits no packet, 2 disruptions | subscriptions, closed sessions and the acknowledgement slot stay consistent in every interleaving, and the acknowledgements behave as `AckContract` says (1.4 million states) |
| `session_live` | 2 messages, one with an acknowledgement that fits no packet, 1 disruption | once failures stop the client ends up connected and subscribed for good, unless the slot keeps that acknowledgement; the other, kept by a disconnected client, is resent (366,000 states) |
| `reconnect` | with and without TLS, clock set back once | back-off, pacing, descriptors and transport (1.0 million states) |
| `dispatch` | 2 messages, overlapping or not, 18 contents | every well-formed message is handled; logging never stays busy; a named command whose thread ran alone goes to the part its name calls for |
| `wire` | 2 publishes, 1 fault, 1 message from the broker | an acknowledgement is the one of the packet that was sent although only its type is compared; `PublishContract` holds; a silent session ends with the cycle after the ping (1.1 million states) |
| `wire_live` | 1 publish, 1 fault, 1 message | a dead link is noticed and a publish returns |
| `registry` | 3 objects, 3 devices, room for 2, 1 message | the registry fills up with different objects only; no message goes to another client in use (277,000 states) |
| `log_files` | 13 lines of 3 bytes, files of 9, 2 rolled ones, 1 removal | rolling drops only the oldest lines; a rolled file is noticed; an upload has only lines written after the last one looked at the end of the file, and misses at most one of the newest lines in reach (490,000 states) |
| `telemetry` | 3 additions, 2 names, one in two spellings, 5 assets | the payload is the last write of each name; nothing is dispatched twice; nothing is lost without a failure being returned |

### That find a disagreement

| Run | What the code does | What it says |
|---|---|---|
| `deleted_ack` | While the retry publishes one acknowledgement another thread stores a newer one; the retry deletes that one | `zoho_iot_client.c:674` "Failed ACK published" |
| `raced_flags` | Two commands at the same time: one that is no OTA command is handled as one | `zoho_iot_client.c:1491`, `zoho_message_handler.c:305` |
| `ping_window` | Sending a ping restarts `last_sent` but not `last_received`; the next cycle that ends without the answer closes the session | `MQTTClient.c:262` "PINGRESP not received in keepalive interval" |

They bound what holds: `AckContract` allows the deletion, `HandledByItsName` is
about threads that do not overlap, `SilenceNoticed` says one cycle and not one
interval.

### Observations without a run

Behaviour met while modelling that no text of the repository contradicts
plainly, or that a property is worded around:

- A message thread that read `isconnected == 0` sets DISCONNECTED after a
  reconnect has succeeded (`zoho_iot_client.c:1014`); the new session is torn
  down. `EventuallyHealthy` says that this ends.
- `retryACK` is looked at once per reconnect (`:658`); an acknowledgement stored
  later stays in the slot as long as the connection lasts.
  `DisconnectedAckResent` is the part that holds.
- The topic of the slot is read after the lock is released (`:671`):
  `ResentOnItsTopic` leaves out the case in which another acknowledgement has
  taken the slot by then.
- A failed event is kept without its asset (`:966`). One whose PUBACK was late
  has reached the broker and reaches it again by the retry; one that is kept is
  deleted when a newer one fails (`:965`, `:975`).
- An acknowledgement within `payload_size` whose packet does not fit the buffer
  of that size stays in the slot for ever: the result of its retry is ignored
  (`:682`), it has no expiry, and `MQTTPublish` closes the session of every
  reconnect. It is the exception in `EventuallyHealthy`. An event of that kind
  does the same until it expires after 300 s.
- A connection whose read times out behind the first byte of a PUBACK, SUBACK or
  CONNACK reports success and reads the rest of the packet as the next ones. A
  PUBLISH cut off there leaves its topic uninitialised.
- `zclient_disconnect` of a client that never connected makes it DISCONNECTED
  with a null transport, which the next disconnect or reconnect dereferences
  (`:1286`). `ConnectedHasTransport` is about CONNECTED clients.
- The doubling of the interval passes the maximum once (1024 s becomes 2048 s,
  not 1800 s), which `BackoffFollowsFailures` states. Without TLS a socket whose
  `connect()` failed is not closed, so `NoOrphanSocket` is about TLS. After -11
  has cleared `start_time`, a clock set back makes the next interval start in
  the past, which `AttemptsPaced` leaves out.
- A command without a name is handled as the last named one was.
- A message that has to be acknowledged restarts an expired timer of the call
  that reads it (`MQTTClient.c:378`), so each such message can add a second to
  a publish; `PublishReturns` has finitely many.
- A freed client stays in the registry and keeps its topics: a message of the
  device's next client may be routed to the freed object, whose lock is
  destroyed. `HandledByItsReceiver` names that case.
- An incremental upload of the log starts with a blank, the newline before its
  first line, and ends one line short of the newest, although its last entry
  counts that line (`zoho_log.c:461`). At the start of the file the first
  character of the first line is lost. Close to the maximum size each upload
  opens the file again and repeats lines; so are lines repeated that were written
  after an upload has looked at the end of the file and before it scans it. The
  pieces of a line of more than 255 bytes count as lines, so that as many of the
  newest lines are missed. Between opening the file again and looking at its end
  the log may be rolled: the upload is then of the rolled file, which the next
  one notices. Two uploads at once share handle and positions. A log file that was removed while it
  was small goes unnoticed by the reader. The size that makes `log_log` roll is
  taken before it notices that its file was removed.
- A value that cJSON cannot create is a failure for a new key and a success,
  with nothing replaced, for an existing one. Keys that differ in case only are
  the same key. What is added to an asset whose name is a number or string is
  not printed. Event data are dropped when the client is not connected.

### Bounds

- *Messages*: two in `session`, which is what a race for the one slot needs;
  each brings two threads, so five threads run at a time. Two also in
  `session_live`: an acknowledgement that fits and one that does not compete for
  the slot. Two publishes in `wire`: the late answer to one
  meets the other.
- *MaxDisruptions* (network failures and user disconnects together): two, so
  that the recovery itself can fail, or a late thread meets a second session. One
  in `session_live`, where the acknowledgement that fits no packet closes
  sessions without being counted. Two disruptions with one message, and an event
  and an acknowledgement that fit no packet, were run once as well.
- *MaxEvents*: one; only one event is kept. In `session` it fits no packet
  and the telemetry exceeds the payload size, so both refusals happen. None in
  `session_live`.
- *MaxFaults = 1*: short writes, time-outs and refusals are not counted and
  happen in any number; the bound is on links that die or break and on packets
  cut in two. *MAX_PACKET_ID = 2* makes the id wrap. *KeepAlive = 2* leaves time
  for cycles before and after it.
- *MIN_RETRY_INTERVAL = 2, MAX_RETRY_INTERVAL = 6*: as in the code (2 and
  1800), the maximum is not the minimum times a power of two, which is where
  doubling overshoots. *MaxTime* = 28 allows four failures in a row even when
  the clock is never set back: 2, 4, 8, 6, 6.
- *Fds* of two: one more than a correct TLS client uses.
- *ULLONG_RANGE*: 2^64 scaled to 256, more than twice any time or interval, as
  an assumption of the module demands.
- *SomeContents*: all one-command messages, messages of two commands, the
  first of them special, and messages broken off at the second command.
- *MAX_CLIENT_REGISTRY = 2* with three objects: the registry overflows. Two
  inits of each: an object comes back with another device.
- *Log*: 13 lines of 3 bytes in files of 9 bytes (a fourth line is written when
  9 are not exceeded) fill all three files and drop one; the reader's limit of
  7 bytes falls within a line. *LINE_SIZE* = 4 is the smallest buffer that holds
  a line; 3 and 2, which split lines in two and three, were run once as well.
- *MaxAdds = 3*: a name, a value below it, and a replacement; 4 was run once as
  well (1.7 million states).
- The messages of `session` and `wire` and the objects, devices and messages of
  `registry` are symmetric: they are model values no property names, and these
  runs check no liveness.
- Deadlock is checked in the runs of `ClientSession`, `MqttWire`, `LogFiles`
  and `Telemetry`: something can always be called. `Reconnect` stops at the
  time horizon or a crash, `MessageDispatch` when all threads have ended and
  `ClientRegistry` when all inits are used up, so it is not checked there, nor
  in `ping_window`.

### Fairness

`InCall` is weakly fair: a call that has started returns, since every wait in
Paho and in the transport has a time-out. `Thread(m)` and `Running(m)` are
weakly fair: the scheduler runs every thread. `CallReconnect` and `CallPublish`
are strongly fair: they are in the loop of `basic.c:129-157`, whatever the loop
does in between, and `zclient_reconnect` keeps being called until its interval
is over. In `wire_live`, time passes (`Tick`), a read that can return does
(`Read`; its socket has a time-out), and the application yields (`MQTTYield`),
all weakly fair. An event that is retried over and over is found expired
at some time (`EventExpiry` to `"event_drop"`, strongly fair): 300 s pass.
Nothing is assumed of the network, of yielding or of handlers, whose
acknowledgements may be too long. The telemetry of the loop is assumed to fit a
packet: telemetry that does not closes each session it is dispatched on. Failures
are finitely many by `MaxDisruptions`.

### Mutants

Each property of each passing run has a mutant in `PROJECT.json`: a definition
`Mut...` in front of the one it varies, such as a lost resubscription, a
session closed with its handler table kept, a slot cleared without its flag, an
interval taken one second early. With the mutant in place the run fails.

## 4. Proofs

For every set of messages, payload classes and every bound:

- `TypeCorrect`: `Spec => []TypeOK` of `ClientSession`. `TypeOK` is not
  inductive: what `payload` holds depends on the control point (an
  acknowledgement while retrying one). `TypeInv == TypeOK /\ LocalsOK` adds
  that.
- `Subscribed` and `ClosedForgets`: `[]SubscribedWhenUsable` and
  `[]ClosedSessionForgets`. The inductive invariant `IInv` has three parts.
  `SessionInv`: a session that is open or has handlers is clean, so closing it
  in any thread empties the table, and what a closed one has is the handler of
  one subscription (`SessionSteps`). `ControlInv`: which control
  points go with which caller, state and session. `SubscribedInv`: at each
  point of the resubscription, if the session is still open, the topics already
  done are in the table, and at `"idle"` of a connected client all are. The
  steps of other threads only close the session or leave it alone
  (`PublishKeepsOrCloses`), which is why the property survives any number of
  them.
- `RetryHasAck`, `ConfirmedNotKept`, `ResentTopic` and `ImplementsAckContract`:
  the three invariants of the acknowledgement slot, and
  `Spec => Contract!Spec`. The inductive invariant `AckInv` adds to the three:
  `OnePlace`, until its thread is done with it an acknowledgement is not in the
  slot, nor with the retry, nor confirmed, which is why it is never confirmed
  twice; `Received`, whoever has one has a message that arrived;
  `SlotTopic`, the slot holds topic and payload of the same message; and
  `RetryInv`, what the retry holds at each of its control points. The
  refinement has one step per action, each a step of `AckContract` or a
  stutter; an arriving message may coincide with an acknowledgement, since
  `waitfor` reads what comes.
- `Types` of `Reconnect`: the type invariant, for all intervals with
  0 < MIN <= MAX. It is proved together with the bounds of the interval, at least
  MIN and less than 2 MAX: doubling keeps an interval positive only because it
  starts so.
- `FollowsFailures`: `[]BackoffFollowsFailures`. Inductive with the types, once
  the doubling per failure is written as the function `Doubled` on the naturals:
  that it is defined everywhere follows from the least number at which it is
  not, and `NextInterval` is the step of `get_retry_interval`, at the maximum
  and below it.
- `Paced`: the action property `AttemptsPaced`. `PacedInv` relates the three
  times: with TLS, `start_time` is the time of the last failure; as long as the
  clock was not set back it is that or a later one, or cleared, and nothing is
  in the future, so that the unsigned difference does not wrap.
- `NoLeak` and `TransportOpen`: `[]NoOrphanSocket` and
  `[]ConnectedHasTransport`, for any set of descriptors, with and without TLS
  (the first says something with TLS only).
- `LoggingNotStuck`: `[]BusyOnlyWhileLogging` for any set of messages. The
  unlocked flag is written TRUE only by a thread that is then inside, and every
  thread inside leaves through the write of FALSE.
- `Types` and `DispatchByName` of `MessageDispatch`: the type invariant and
  `[]HandledByItsName`, for any number of messages with any number of commands.
  `DispatchInv` adds `Solo`, two threads that run at the same time have
  overlapped, so that nobody else writes the flags of a thread that has not;
  and `NameInv`, what such a thread has noted of the commands it has scanned,
  and decided, at each of its control points. That a message with a named
  command has a last one is an induction over the naturals.
- `Types`, `SilenceIsNoticed`, `PublishTakesItsOwnAck` and
  `ImplementsPublishContract` of `MqttWire`: its type invariant,
  `[]SilenceNoticed`, the action property `AcknowledgedByItsOwn`, and
  `Spec => Contract!Spec`, for any number of publishes, any time-outs and
  largest packet id, any number of faults and connections. `WireInv` has five
  parts: the types; `SilentInv`, after a silent cycle that ended well a ping is
  outstanding, which the next one finds; `OneCall`; `OnePlace`, a publish is at
  most once in the stream, late, or accepted, and nowhere before its call,
  which is why it is accepted at most once; and `Stream`, on an open stream in
  step nothing is under way but the publish of the call in progress or its
  acknowledgement, once and with the id of the call, which is why comparing the
  type is enough, and why even an acknowledgement of which only the type was read
  (`CutOff`) is the right one. `SessionOpen` adds that a publish waits on an open session
  only. Each outcome of `sendPacket`, `keepalive`, the switch and the cycle has
  a lemma of its own.
- `Types`, `LastWritesArePayload`, `NothingIsDispatchedTwice` and
  `LossIsReported` of `Telemetry`: its type invariant, `[]PayloadIsLastWrites`,
  `[]DispatchedOnce` and the action property `NoSilentLoss`, for any keys, assets and folding of keys and
  any number of calls. The type invariant says that the calls build trees: one node for
  each path, and a node for every prefix of it. `PayloadInv` adds that the values in the tree are those of the writes
  that no later write has replaced, `ValueInv` that values are numbered by the
  calls and none is in both trees.
- `Types`, `RollDropsOnlyOldest` and `RollIsNoticed` of `LogFiles`: its type
  invariant (with it, no file is longer than what was written, and the reader's
  positions are within it), `[]OnlyOldestDropped` and the action property
  `RolledFileNoticed`, for any line and file sizes, any number of files, lines
  and removals. `RollInv` looks at the files in the order they were made, the
  ones without a name included: together they hold all that was written, in
  order, and only the newest is not full (`Ordered`); name n leads to the
  n-th newest, and the writer's handle, if it has one, to the newest (`Named`).
  A roll shifts the names by one and makes a file. The reader then cannot take
  a rolled file for the current one: a rolled file is full, and longer than
  what it scans without opening the file again. If it is rolled between `Reopen`
  and `Look`, it is full as well, which is the other case of the property.
- `UploadIsNew`: `[]UploadsWhatIsNew`, under the same constants and any
  `LINE_SIZE`, and whatever is removed. It takes an invariant of the writer and
  two of the reader. `ChainInv`: the lines of each file are consecutive and the
  newest file ends with the last line written, because the current name and the
  writer's handle lead to the newest file or to none; this survives removals,
  which `RollInv` does not, and makes every stretch of a file a range of numbers.
  `ReadInv`: the reader's positions are ends of lines of its file, which stay so
  since files only grow (`Grown`), and before the fetch they are related by
  `Span`: from which line the upload may take, in which it starts, and what
  stopped the backward scan there (the first byte it may take, enough newlines,
  or the start of the file; one lemma for each). `SinceInv` relates positions to
  the number of lines written when they were taken: whatever a file gets behind
  a position was written later, which is why the upload has only lines after
  `since`. The lines sent and the lines asked for are then ranges (`UploadRun`,
  `BetweenRun`), and `MissesOne` compares how many there are. For lines that
  `fgets` splits, the division in `PieceLine` grows by steps of at most one
  (`PiecedClimbs`, `UploadClimbs`), which leaves no gap.
- `RegistryTypes`, `RegistrySound` and `Routing`: the type invariant of
  `ClientRegistry`, `[]RegistryFillsWithObjects`, and the action property
  `HandledByItsReceiver`, for any number of clients, devices and messages and
  any size of the registry. The invariant `RegistryInv` adds `Exclusive`: two
  usable clients have different devices. Routing takes the first entry with the
  topic; that there is a first one is an induction over the naturals
  (`WellFoundedInduction`), and `Exclusive` makes it the receiver or unusable.

The assumptions are those named in the modules (`MessagesAssumption`,
`ReconnectAssumption`, `DispatchAssumption`, `RegistryAssumption`,
`WireAssumption`, `TelemetryAssumption`, `LogAssumption`): sets and bounds have
their types, the minimum interval does not exceed the maximum, and the like.

Only model-checked:

- liveness (`EventuallyHealthy`, `DisconnectedAckResent`, `EveryMessageHandled`,
  `DeadLinkNoticed`, `PublishReturns`), which is out of the prover's reach;
- the three disagreements of section 3, which are counterexamples.

## 5. Not modelled

- The Paho C build (`Z_PAHO_C`): a library outside the repository.
- `zclient_init`'s parsing of the user name, and the fields of JSON messages.
- The HTTP uploads: one blocking call, no state that survives it.
- Compression of rolled log files (`Z_LOG_COMPRESS`).
- A log file that cannot be opened for writing: `log_log` then tries `./` and
  else stops logging to files (`zoho_log.c:312-329`), and after a roll writes
  through a null handle (`:393`). `OpenLog` always succeeds.
- The contents of `ZcloudLog` after two uploads have overlapped.
- Freed memory: the packet buffers during `zclient_connect`, and the lock and
  buffers of a client freed while a thread uses it.
- Third-party libraries. The repository contains mbedTLS, cJSON, the Paho
  packet library in source, which are nearly all of its
  lines of C; the models cover the SDK's own files and the embedded MQTT
  client, whose state the SDK depends on.
- Examples, other than for how they call the SDK.

## 6. Plan

Done: all modules of section 2 and the theorems of section 4, which state every
safety property of the passing runs: invariants, action properties and both
refinements. Left:

1. The packet buffers in `ClientSession`, for the reads of freed memory that a
   late DISCONNECTED makes possible.
2. The fields of the OTA command and its acknowledgements.
