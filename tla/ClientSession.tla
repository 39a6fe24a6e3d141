--------------------------- MODULE ClientSession ---------------------------
(***************************************************************************)
(* One ZohoIOTclient shared by its threads, in the build with the embedded *)
(* Paho client: the application thread, which connects, reconnects,        *)
(* subscribes, publishes, yields and disconnects; one detached thread per  *)
(* received command or configuration message, which runs the user's        *)
(* handler and publishes its acknowledgement; and one detached thread per  *)
(* message that publishes the "received" acknowledgement.                  *)
(*                                                                         *)
(* Grain: a section under client->lock is one action; every access to a    *)
(* shared field outside the lock is an action of its own, unless only the  *)
(* same thread can have changed the field since its last step.             *)
(*                                                                         *)
(* Usage assumed, as in projects/: one application thread makes the API    *)
(* calls; it calls zclient_connect before it registers a handler and       *)
(* zclient_reconnect from then on; it yields only while CONNECTED.         *)
(* Time is abstracted here: a call of zclient_reconnect that finds its     *)
(* interval not yet over changes nothing.  Module Reconnect has the clock. *)
(***************************************************************************)
EXTENDS Naturals, MqttSession

CONSTANTS
    Messages,        \* messages the cloud sends; m also names m's ack
    TooLarge,        \* payloads longer than config.payload_size
    Unframed,        \* payloads that fit, but whose packet does not
    NULL,            \* the null pointer
    MaxDisruptions,  \* bound on network failures and user disconnects
    MaxEvents        \* bound on dispatched events

Topics == {"command", "config"}

ASSUME MessagesAssumption ==
    /\ NULL \notin Messages
    /\ NULL \notin Topics \union {"event"}
    /\ MaxDisruptions \in Nat
    /\ MaxEvents \in Nat

VARIABLES
    current_state,   \* client->current_state
    handlers,        \* topics whose on_.._message_handler is not NULL
    retryACK,        \* client->retryACK
    failedACK,       \* client->failedACK
    retryEvent,      \* client->retryEvent
    failedEvent,     \* client->failedEvent.eventPayload, NULL if none
    pc,              \* control point of the application thread
    via,             \* who called the routine it is in: "user", "reconnect"
    arg,             \* topic of the subscription
    payload,         \* local variable payload of zclient_reconnect
    topic,           \* failedACK.topic as zclient_reconnect read it
    kind,            \* topic message m was received on, NULL before
    thread,          \* control point of m's message thread
    ackThread,       \* control point of m's received-ack thread
    confirmed,       \* history: acks whose publication returned ZSUCCESS
    disruptions,     \* failures and disconnects so far
    events           \* events dispatched so far

slots == <<retryACK, failedACK, retryEvent, failedEvent>>
locals == <<via, arg, payload, topic>>
threads == <<thread, ackThread>>
vars == <<session, link, current_state, handlers, slots, pc, locals,
          kind, threads, confirmed, disruptions, events>>

ClientStates == {"INITIALIZED", "CONNECTED", "DISCONNECTED"}
AppPC ==
    {"idle", "teardown", "net_connect", "mqtt_init", "mqtt_connect",
     "set_connected", "net_disconnect", "reset", "sub_check", "sub_send",
     "sub_failed", "ack_check", "ack_print", "ack_topic", "ack_publish",
     "ack_clear", "event_check", "event_expiry", "event_drop", "event_print",
     "event_publish", "event_clear", "pub_send", "pub_failed", "evt_send",
     "evt_failed", "evt_store", "yield", "yield_failed", "dis_mqtt",
     "dis_net", "dis_set"}
ThreadPC == {"none", "publish", "check", "mark", "store", "done"}

NetTypeOK ==
    /\ isconnected \in BOOLEAN
    /\ cleansession \in BOOLEAN
    /\ messageHandlers \subseteq Topics
    /\ link \in {"down", "tcp", "up"}
    /\ kind \in [Messages -> Topics \union {NULL}]
    /\ disruptions \in Nat

SlotTypeOK ==
    /\ retryACK \in BOOLEAN
    /\ failedACK \in [ackPayload : Messages \union {NULL},
                      topic : Topics \union {NULL}]
    /\ retryEvent \in BOOLEAN
    /\ failedEvent \in {"event", NULL}

AppTypeOK ==
    /\ current_state \in ClientStates
    /\ handlers \subseteq Topics
    /\ pc \in AppPC
    /\ via \in {"user", "reconnect"}
    /\ arg \in Topics
    /\ payload \in Messages \union {NULL}
    /\ topic \in Topics \union {NULL}
    /\ events \in Nat

ThreadTypeOK ==
    /\ thread \in [Messages -> ThreadPC]
    /\ ackThread \in [Messages -> {"none", "publish"}]
    /\ confirmed \subseteq Messages

(* The type invariant.                                                     *)
TypeOK == NetTypeOK /\ SlotTypeOK /\ AppTypeOK /\ ThreadTypeOK

(* zclient_init: the client is a static object, so what it leaves alone    *)
(* is zero.                                                                *)
Init ==
    /\ isconnected = FALSE
    /\ messageHandlers = {}
    /\ cleansession = FALSE
    /\ link = "down"
    /\ current_state = "INITIALIZED"
    /\ handlers = {}
    /\ retryACK = FALSE
    /\ failedACK = [ackPayload |-> NULL, topic |-> NULL]
    /\ retryEvent = FALSE
    /\ failedEvent = NULL
    /\ pc = "idle"
    /\ via = "user"
    /\ arg = "command"
    /\ payload = NULL
    /\ topic = NULL
    /\ kind = [m \in Messages |-> NULL]
    /\ thread = [m \in Messages |-> "none"]
    /\ ackThread = [m \in Messages |-> "none"]
    /\ confirmed = {}
    /\ disruptions = 0
    /\ events = 0

-----------------------------------------------------------------------------
(* The network.                                                            *)

(* A failure the network causes; the runs bound how many there are.        *)
Disrupt ==
    /\ disruptions < MaxDisruptions
    /\ disruptions' = disruptions + 1

(* An answer never comes from a dead link; on a live one its absence       *)
(* (time-out, refusal, error packet) is a disruption.                      *)
NoAnswer == IF link = "down" THEN UNCHANGED disruptions ELSE Disrupt

(* A call that succeeds and leaves the session closed has met a packet of  *)
(* unknown type.                                                           *)
Answered == IF isconnected' = isconnected THEN UNCHANGED disruptions ELSE Disrupt

LinkDown ==
    /\ link # "down"
    /\ link' = "down"
    /\ Disrupt
    /\ UNCHANGED <<session, current_state, handlers, slots, pc, locals, kind,
                   threads, confirmed, events>>

(* deliverMessage, called by cycle() from MQTTYield and from the waits of  *)
(* MQTTPublish and MQTTSubscribe: a PUBLISH packet on a subscribed topic   *)
(* is copied and handed to a new thread by onMessageReceived.              *)
deliverMessage ==
    \/ UNCHANGED kind
    \/ /\ link = "up"
       /\ \E m \in Messages, t \in messageHandlers :
             kind[m] = NULL /\ kind' = [kind EXCEPT ![m] = t]

(* publishMessage: an oversized payload never reaches the session; any     *)
(* other failure closes it.  A packet written to a transport that has not  *)
(* been through MQTTConnect makes the server close it.                     *)
publishMessageOk(p) ==
    /\ p \notin TooLarge \union Unframed
    /\ MQTTPublishOk
    /\ Answered
    /\ deliverMessage
    /\ UNCHANGED link

publishMessageFail(p) ==
    \/ /\ p \in TooLarge
       /\ UNCHANGED <<session, link, kind, disruptions>>
    \/ /\ p \notin TooLarge
       /\ MQTTCloseSession
       /\ IF p \in Unframed THEN UNCHANGED kind ELSE deliverMessage
       /\ IF isconnected /\ link = "up" /\ p \notin Unframed
          THEN Disrupt ELSE UNCHANGED disruptions
       /\ link' = IF isconnected /\ link = "tcp" THEN "down" ELSE link

-----------------------------------------------------------------------------
(* The application thread.  Goto is a step of it.                          *)

Goto(from, to) == pc = from /\ pc' = to
others == <<kind, threads, confirmed, events>>

(* zclient_connect, called by the application: a no-op when CONNECTED.     *)
CallConnect ==
    /\ handlers = {}
    /\ current_state # "CONNECTED"
    /\ Goto("idle", "net_connect")
    /\ via' = "user"
    /\ UNCHANGED <<session, link, current_state, handlers, slots, arg, payload,
                   topic, others, disruptions>>

(* zclient_reconnect, once its interval is over: a no-op when CONNECTED.   *)
CallReconnect ==
    /\ current_state # "CONNECTED"
    /\ Goto("idle", IF current_state = "INITIALIZED" THEN "net_connect"
                                                     ELSE "teardown")
    /\ via' = "reconnect"
    /\ UNCHANGED <<session, link, current_state, handlers, slots, arg, payload,
                   topic, others, disruptions>>

(* NetworkDisconnect under the lock, then the state.  Nothing that another *)
(* thread does in between can tell the two writes apart.                   *)
Teardown ==
    /\ Goto("teardown", "net_connect")
    /\ link' = "down"
    /\ current_state' = "INITIALIZED"
    /\ UNCHANGED <<session, handlers, slots, locals, others, disruptions>>

(* NetworkInit and NetworkConnect(TLS).  The error -11 (EAI_SYSTEM in the  *)
(* build without TLS) calls zclient_disconnect before it returns.          *)
NetConnect ==
    /\ \/ /\ Goto("net_connect", "mqtt_init")
          /\ link' = "tcp"
          /\ UNCHANGED <<current_state, disruptions>>
       \/ /\ Goto("net_connect", "idle")
          /\ Disrupt
          /\ link' = "down"
          /\ current_state' \in {current_state, "DISCONNECTED"}
    /\ UNCHANGED <<session, handlers, slots, locals, others>>

MqttInit ==
    /\ Goto("mqtt_init", "mqtt_connect")
    /\ MQTTClientInit
    /\ UNCHANGED <<link, current_state, handlers, slots, locals, others,
                   disruptions>>

MqttConnect ==
    /\ \/ /\ Goto("mqtt_connect", "set_connected")
          /\ MQTTConnectOk
          /\ UNCHANGED disruptions
       \/ /\ Goto("mqtt_connect", "net_disconnect")
          /\ MQTTConnectFail
          /\ NoAnswer
          /\ UNCHANGED link
    /\ UNCHANGED <<current_state, handlers, slots, locals, others>>

SetConnected ==
    /\ Goto("set_connected", IF via = "user" THEN "idle" ELSE "reset")
    /\ current_state' = "CONNECTED"
    /\ UNCHANGED <<session, link, handlers, slots, locals, others,
                   disruptions>>

NetDisconnect ==
    /\ Goto("net_disconnect", "idle")
    /\ link' = "down"
    /\ UNCHANGED <<session, current_state, handlers, slots, locals, others,
                   disruptions>>

(* zclient_reconnect after a successful connect: the state is set once     *)
(* more, then every topic that has a handler is subscribed again.          *)
SubscribeNext(from, pending) ==
    IF pending = {}
    THEN Goto(from, "ack_check") /\ UNCHANGED arg
    ELSE /\ Goto(from, "sub_check")
         /\ arg' = IF "command" \in pending THEN "command" ELSE "config"

(* Mutant of Reset: no topic is subscribed again.                          *)
MutReset ==
    /\ SubscribeNext("reset", {})
    /\ current_state' = "CONNECTED"
    /\ UNCHANGED <<session, link, handlers, slots, via, payload, topic, others,
                   disruptions>>

Reset ==
    /\ SubscribeNext("reset", handlers)
    /\ current_state' = "CONNECTED"
    /\ UNCHANGED <<session, link, handlers, slots, via, payload, topic, others,
                   disruptions>>

(* zclient_command_subscribe and zclient_config_subscribe.                 *)
CallSubscribe(t) ==
    /\ Goto("idle", IF current_state = "CONNECTED" THEN "sub_send" ELSE "idle")
    /\ handlers' = handlers \union {t}
    /\ via' = "user"
    /\ arg' = t
    /\ UNCHANGED <<session, link, current_state, slots, payload, topic, others,
                   disruptions>>

SubCheck ==
    /\ Goto("sub_check", IF current_state = "CONNECTED" THEN "sub_send"
                                                        ELSE "idle")
    /\ UNCHANGED <<session, link, current_state, handlers, slots, locals,
                   others, disruptions>>

SubSend ==
    /\ \/ /\ MQTTSubscribeOk(arg)
          /\ IF via = "user"
             THEN Goto("sub_send", "idle") /\ UNCHANGED arg
             ELSE SubscribeNext("sub_send", handlers \ {"command", arg})
          /\ Answered
       \/ /\ MQTTCloseSession
          /\ Goto("sub_send", "sub_failed")
          /\ IF isconnected THEN NoAnswer ELSE UNCHANGED disruptions
          /\ UNCHANGED arg
    /\ deliverMessage
    /\ UNCHANGED <<link, current_state, handlers, slots, via, payload, topic,
                   threads, confirmed, events>>

SubFailed ==
    /\ Goto("sub_failed", "idle")
    /\ current_state' = "DISCONNECTED"
    /\ UNCHANGED <<session, link, handlers, slots, locals, others,
                   disruptions>>

(* The end of zclient_reconnect: the acknowledgement kept in failedACK.    *)
AckCheck ==
    /\ Goto("ack_check", IF retryACK THEN "ack_print" ELSE "event_check")
    /\ UNCHANGED <<session, link, current_state, handlers, slots, locals,
                   others, disruptions>>

AckPrint ==
    /\ Goto("ack_print", IF failedACK.ackPayload = NULL THEN "idle"
                                                        ELSE "ack_topic")
    /\ payload' = failedACK.ackPayload
    /\ UNCHANGED <<session, link, current_state, handlers, slots, via, arg,
                   topic, others, disruptions>>

(* The topic is read after the lock has been released.                     *)
AckTopic ==
    /\ Goto("ack_topic", "ack_publish")
    /\ topic' = failedACK.topic
    /\ UNCHANGED <<session, link, current_state, handlers, slots, via, arg,
                   payload, others, disruptions>>

(* Mutant of AckPublish: the result of the publication is not looked at.   *)
MutAckPublish ==
    /\ Goto("ack_publish", "ack_clear")
    /\ \/ publishMessageOk(payload) /\ confirmed' = confirmed \union {payload}
       \/ publishMessageFail(payload) /\ UNCHANGED confirmed
    /\ UNCHANGED <<current_state, handlers, slots, locals, threads, events>>

AckPublish ==
    /\ \/ /\ Goto("ack_publish", "ack_clear")
          /\ publishMessageOk(payload)
          /\ confirmed' = confirmed \union {payload}
       \/ /\ Goto("ack_publish", "event_check")
          /\ publishMessageFail(payload)
          /\ UNCHANGED confirmed
    /\ UNCHANGED <<current_state, handlers, slots, locals, threads, events>>

(* Mutants of AckClear: the slot is kept; its flag is kept.                *)
MutAckClear ==
    /\ Goto("ack_clear", "event_check")
    /\ UNCHANGED <<session, link, current_state, handlers, slots, locals,
                   others, disruptions>>

MutAckClearFlag ==
    /\ Goto("ack_clear", "event_check")
    /\ failedACK' = [failedACK EXCEPT !.ackPayload = NULL]
    /\ UNCHANGED <<session, link, current_state, handlers, retryACK,
                   retryEvent, failedEvent, locals, others,
                   disruptions>>

AckClear ==
    /\ Goto("ack_clear", "event_check")
    /\ failedACK' = [failedACK EXCEPT !.ackPayload = NULL]
    /\ retryACK' = FALSE
    /\ UNCHANGED <<session, link, current_state, handlers, retryEvent,
                   failedEvent, locals, others, disruptions>>

(* The variables of the block above end with it.  Then the event kept in   *)
(* failedEvent is published, unless it is over 300 s old.                  *)
EventCheck ==
    /\ Goto("event_check", IF retryEvent THEN "event_expiry" ELSE "idle")
    /\ payload' = NULL
    /\ topic' = NULL
    /\ UNCHANGED <<session, link, current_state, handlers, slots, via, arg,
                   others, disruptions>>

EventExpiry ==
    /\ \/ Goto("event_expiry", "event_drop")
       \/ Goto("event_expiry", "event_print")
    /\ UNCHANGED <<session, link, current_state, handlers, slots, locals,
                   others, disruptions>>

EventPrint ==
    /\ Goto("event_print", IF failedEvent = NULL THEN "idle"
                                                 ELSE "event_publish")
    /\ UNCHANGED <<session, link, current_state, handlers, slots, locals,
                   others, disruptions>>

EventPublish ==
    /\ \/ /\ Goto("event_publish", "event_clear")
          /\ publishMessageOk("event")
       \/ /\ Goto("event_publish", "idle")
          /\ publishMessageFail("event")
    /\ UNCHANGED <<current_state, handlers, slots, locals, threads, confirmed,
                   events>>

EventClear ==
    /\ Goto("event_drop", "idle") \/ Goto("event_clear", "idle")
    /\ failedEvent' = NULL
    /\ retryEvent' = FALSE
    /\ UNCHANGED <<session, link, current_state, handlers, retryACK, failedACK,
                   locals, others, disruptions>>

(* zclient_publish, and zclient_dispatch through it.                       *)
CallPublish ==
    /\ current_state = "CONNECTED"
    /\ Goto("idle", "pub_send")
    /\ UNCHANGED <<session, link, current_state, handlers, slots, locals,
                   others, disruptions>>

PubSend ==
    /\ \/ /\ Goto("pub_send", "idle")
          /\ publishMessageOk("telemetry")
       \/ /\ Goto("pub_send", "pub_failed")
          /\ publishMessageFail("telemetry")
    /\ UNCHANGED <<current_state, handlers, slots, locals, threads, confirmed,
                   events>>

(* Mutant of LostConnection: the closed session is not noticed.            *)
MutLostConnection(from, to) ==
    /\ Goto(from, to)
    /\ UNCHANGED <<session, link, current_state, handlers, slots, locals,
                   others, disruptions>>

(* After a failure of publish, event or yield: the session is looked at    *)
(* without the lock.  Only this thread ever opens it, so the read and the  *)
(* write are one step.                                                     *)
LostConnection(from, to) ==
    /\ Goto(from, to)
    /\ current_state' = IF isconnected THEN current_state ELSE "DISCONNECTED"
    /\ UNCHANGED <<session, link, handlers, slots, locals, others,
                   disruptions>>

PubFailed == LostConnection("pub_failed", "idle")

(* zclient_dispatchEventFromJSONString.  What it stores for the retry is    *)
(* the event object, without the asset that the published one is put in.   *)
CallDispatchEvent ==
    /\ current_state = "CONNECTED"
    /\ events < MaxEvents
    /\ Goto("idle", "evt_send")
    /\ events' = events + 1
    /\ UNCHANGED <<session, link, current_state, handlers, slots, locals, kind,
                   threads, confirmed, disruptions>>

EvtSend ==
    /\ \/ /\ Goto("evt_send", "idle")
          /\ publishMessageOk("event")
       \/ /\ Goto("evt_send", "evt_failed")
          /\ publishMessageFail("event")
    /\ UNCHANGED <<current_state, handlers, slots, locals, threads, confirmed,
                   events>>

EvtFailed == LostConnection("evt_failed", "evt_store")

EvtStore ==
    /\ Goto("evt_store", "idle")
    /\ failedEvent' = "event"
    /\ retryEvent' = TRUE
    /\ UNCHANGED <<session, link, current_state, handlers, retryACK, failedACK,
                   locals, others, disruptions>>

(* zclient_yield.  A read that times out is a success, on a dead link too; *)
(* the keepalive finds a dead link in the end.                             *)
CallYield ==
    /\ current_state = "CONNECTED"
    /\ Goto("idle", "yield")
    /\ UNCHANGED <<session, link, current_state, handlers, slots, locals,
                   others, disruptions>>

Yield ==
    /\ \/ /\ Goto("yield", "idle")
          /\ MQTTYieldOk
          /\ Answered
       \/ /\ Goto("yield", "yield_failed")
          /\ MQTTYieldFail
          /\ NoAnswer
    /\ deliverMessage
    /\ UNCHANGED <<link, current_state, handlers, slots, locals, threads,
                   confirmed, events>>

YieldFailed == LostConnection("yield_failed", "idle")

(* zclient_disconnect.                                                     *)
CallDisconnect ==
    /\ Goto("idle", CASE current_state = "CONNECTED"    -> "dis_mqtt"
                      [] current_state = "DISCONNECTED" -> "dis_net"
                      [] current_state = "INITIALIZED"  -> "dis_set")
    /\ Disrupt
    /\ UNCHANGED <<session, link, current_state, handlers, slots, locals,
                   others>>

DisMqtt ==
    /\ Goto("dis_mqtt", "dis_net")
    /\ MQTTCloseSession
    /\ UNCHANGED <<link, current_state, handlers, slots, locals, others,
                   disruptions>>

DisNet ==
    /\ Goto("dis_net", "dis_set")
    /\ link' = "down"
    /\ UNCHANGED <<session, current_state, handlers, slots, locals, others,
                   disruptions>>

DisSet ==
    /\ Goto("dis_set", "idle")
    /\ current_state' = "DISCONNECTED"
    /\ UNCHANGED <<session, link, handlers, slots, locals, others,
                   disruptions>>

-----------------------------------------------------------------------------
(* The message threads.  StartMessage is processMessageReceived: it starts *)
(* the thread that publishes the "received" acknowledgement and runs the   *)
(* user's handler.  A malformed message gets no acknowledgement, a handler *)
(* need not send one, and a thread may fail to start.                      *)
client == <<current_state, handlers, pc, locals, events>>

StartMessage(m) ==
    /\ thread[m] = "none"
    /\ kind[m] # NULL
    /\ \E next \in {"publish", "done"}, spawned \in {"none", "publish"} :
          /\ thread' = [thread EXCEPT ![m] = next]
          /\ ackThread' = [ackThread EXCEPT ![m] = spawned]
    /\ UNCHANGED <<session, link, client, slots, kind, confirmed, disruptions>>

(* publishCommandAck / publishConfigAck of zoho_message_handler.c: the     *)
(* result of publishMessage is ignored.                                    *)
PublishReceived(m) ==
    /\ ackThread[m] = "publish"
    /\ ackThread' = [ackThread EXCEPT ![m] = "none"]
    /\ publishMessageOk("received") \/ publishMessageFail("received")
    /\ UNCHANGED <<client, slots, thread, confirmed>>

(* zclient_publishCommandAck, zclient_publishConfigAck and                 *)
(* zclient_publishOTAAck: publish; when that fails look at isconnected,    *)
(* without the lock; when it is 0 set the state, without the lock; then    *)
(* store the acknowledgement.                                              *)
At(m, from, to) ==
    /\ thread[m] = from
    /\ thread' = [thread EXCEPT ![m] = to]
    /\ UNCHANGED ackThread

PublishAck(m) ==
    /\ \/ /\ At(m, "publish", "done")
          /\ publishMessageOk(m)
          /\ confirmed' = confirmed \union {m}
       \/ /\ At(m, "publish", "check")
          /\ publishMessageFail(m)
          /\ UNCHANGED confirmed
    /\ UNCHANGED <<client, slots>>

CheckConnected(m) ==
    /\ At(m, "check", IF isconnected THEN "done" ELSE "mark")
    /\ UNCHANGED <<session, link, client, slots, kind, confirmed, disruptions>>

MarkDisconnected(m) ==
    /\ At(m, "mark", "store")
    /\ current_state' = "DISCONNECTED"
    /\ UNCHANGED <<session, link, handlers, pc, locals, slots, kind, confirmed,
                   disruptions, events>>

(* Mutants of StoreAck: the payload is stored as the topic; the topic of   *)
(* the acknowledgement stored before is kept.                              *)
MutStoreAck(m) ==
    /\ At(m, "store", "done")
    /\ failedACK' = [ackPayload |-> m, topic |-> m]
    /\ retryACK' = TRUE
    /\ UNCHANGED <<session, link, client, retryEvent, failedEvent,
                   kind, confirmed, disruptions>>

MutStoreTopic(m) ==
    /\ At(m, "store", "done")
    /\ failedACK' = [ackPayload |-> m,
                     topic |-> IF failedACK.topic = NULL THEN kind[m]
                               ELSE failedACK.topic]
    /\ retryACK' = TRUE
    /\ UNCHANGED <<session, link, client, retryEvent, failedEvent, kind,
                   confirmed, disruptions>>

StoreAck(m) ==
    /\ At(m, "store", "done")
    /\ failedACK' = [ackPayload |-> m, topic |-> kind[m]]
    /\ retryACK' = TRUE
    /\ UNCHANGED <<session, link, client, retryEvent, failedEvent,
                   kind, confirmed, disruptions>>

-----------------------------------------------------------------------------
ConnectStep == Teardown \/ NetConnect \/ MqttInit \/ MqttConnect
                 \/ SetConnected \/ NetDisconnect
ResumeStep == Reset \/ SubCheck \/ SubSend \/ SubFailed \/ AckCheck \/ AckPrint
                \/ AckTopic \/ AckPublish \/ AckClear \/ EventCheck
                \/ EventExpiry \/ EventPrint \/ EventPublish \/ EventClear
SendStep == PubSend \/ PubFailed \/ EvtSend \/ EvtFailed \/ EvtStore
              \/ Yield \/ YieldFailed \/ DisMqtt \/ DisNet \/ DisSet

(* A step inside an API call, and the choice of the next call.             *)
InCall == ConnectStep \/ ResumeStep \/ SendStep
Call == \/ CallConnect \/ CallReconnect \/ CallPublish \/ CallYield
        \/ CallDisconnect \/ CallDispatchEvent
        \/ \E t \in Topics : CallSubscribe(t)

Thread(m) == \/ StartMessage(m) \/ PublishReceived(m) \/ PublishAck(m)
             \/ CheckConnected(m) \/ MarkDisconnected(m) \/ StoreAck(m)

Next == Call \/ InCall \/ LinkDown \/ \E m \in Messages : Thread(m)

Spec == Init /\ [][Next]_vars

(* Threads run, calls return, and the application's loop keeps calling     *)
(* zclient_reconnect and zclient_dispatch (projects/basic/basic.c).  Time  *)
(* passes: an event that is retried again and again is found expired.      *)
Fairness ==
    /\ WF_vars(InCall)
    /\ SF_vars(CallReconnect)
    /\ SF_vars(CallPublish)
    /\ SF_vars(EventExpiry /\ pc' = "event_drop")
    /\ \A m \in Messages : WF_vars(Thread(m))

FairSpec == Spec /\ Fairness

-----------------------------------------------------------------------------
(* Properties.                                                             *)

(* Between two API calls, a client that says CONNECTED and whose session   *)
(* is open is subscribed to every topic that has a handler, so no command  *)
(* is lost: MQTTConnect starts a clean session without subscriptions,      *)
(* zclient_reconnect has to restore both, and a subscription that fails    *)
(* has to force the next reconnect ("Subscribe mandatory").                *)
SubscribedWhenUsable ==
    pc = "idle" /\ current_state = "CONNECTED" /\ isconnected
        => handlers \subseteq messageHandlers

(* A closed session has forgotten its subscriptions, whatever thread       *)
(* closed it, but for one: that of the MQTTSubscribe in whose wait the     *)
(* session was closed and which read its SUBACK all the same.              *)
ClosedSessionForgets ==
    ~isconnected => \E t \in Topics : messageHandlers \subseteq {t}

(* From the test of retryACK to the end of the retry zclient_reconnect     *)
(* finds an acknowledgement to serialise, whatever other threads store in  *)
(* between: only the retry itself empties the slot.                        *)
RetriedAckPresent ==
    /\ retryACK <=> failedACK.ackPayload # NULL
    /\ pc \in {"ack_print", "ack_topic", "ack_publish", "ack_clear"}
          => retryACK

(* An acknowledgement the cloud has confirmed is not kept for another      *)
(* resend, except between the publication and the clearing of the slot.    *)
ConfirmedAckNotPending ==
    retryACK /\ failedACK.ackPayload \in confirmed
        => pc = "ack_clear" /\ payload = failedACK.ackPayload

(* A resent acknowledgement goes to the topic its message came from, but   *)
(* for one case: zclient_reconnect reads the topic after it has released   *)
(* the lock, and another thread has put its own acknowledgement into the   *)
(* slot by then.                                                           *)
ResentOnItsTopic ==
    pc = "ack_publish" /\ failedACK.ackPayload = payload
        => topic = kind[payload]

(* What the threads, the retry and the slot make of an acknowledgement is  *)
(* what AckContract allows.                                                *)
Contract == INSTANCE AckContract WITH
                received <- {m \in Messages : kind[m] # NULL},
                acked <- confirmed,
                kept <- failedACK.ackPayload
AckContractKept == Contract!Spec

(* Once the network stops failing, the client ends up connected, with its  *)
(* session open and all its handlers subscribed, for good: every closed    *)
(* session is noticed, no late thread makes it reconnect for ever, and an  *)
(* event whose packet does not fit the buffer closes new sessions only     *)
(* until it expires.  An acknowledgement whose packet does not fit never   *)
(* expires: kept in the slot it closes the session of every reconnect.     *)
Healthy ==
    /\ current_state = "CONNECTED"
    /\ isconnected
    /\ handlers \subseteq messageHandlers
EventuallyHealthy ==
    <>[]Healthy \/ <>[](failedACK.ackPayload \in Unframed)

(* The acknowledgement kept by a client that is DISCONNECTED is resent, or *)
(* another takes its place, unless its payload or packet is too long.      *)
DisconnectedAckResent ==
    \A m \in Messages \ (TooLarge \union Unframed) :
        (failedACK.ackPayload = m /\ current_state = "DISCONNECTED")
            ~> failedACK.ackPayload # m

(* The acknowledgement zclient_reconnect deletes as published              *)
(* (zoho_iot_client.c:673-677) is the one it has published.                *)
DeletesOnlyPublishedAck ==
    [][pc = "ack_clear" /\ pc' # "ack_clear"
            => failedACK.ackPayload = payload]_vars
=============================================================================
