------------------------ MODULE ClientSession_proofs ------------------------
(***************************************************************************)
(* Theorems about ClientSession, for any set of messages and any bounds.   *)
(***************************************************************************)
EXTENDS ClientSession, TLAPS

(* What the local variable payload holds, by control point: TypeOK is not  *)
(* inductive without it.                                                   *)
LocalsOK ==
    pc \in {"ack_topic", "ack_publish", "ack_clear"} => payload \in Messages

TypeInv == TypeOK /\ LocalsOK

Connecting == {"teardown", "net_connect", "mqtt_init", "mqtt_connect",
               "set_connected", "net_disconnect"}
Serving == {"ack_check", "ack_print", "ack_topic", "ack_publish", "ack_clear",
            "event_check", "event_expiry", "event_drop", "event_print",
            "event_publish", "event_clear", "pub_send", "pub_failed",
            "evt_send", "evt_failed", "evt_store", "yield", "yield_failed"}

SessionInv ==
    /\ isconnected => cleansession
    /\ messageHandlers # {} => cleansession

ControlInv ==
    /\ pc \in Connecting => current_state # "CONNECTED"
    /\ pc \in Connecting /\ via = "user" => handlers = {}
    /\ pc \in {"reset", "sub_check"} => via = "reconnect"

SubscribedInv ==
    isconnected =>
        /\ pc = "idle" /\ current_state = "CONNECTED"
                => handlers \subseteq messageHandlers
        /\ pc \in Serving => handlers \subseteq messageHandlers
        /\ pc \in {"sub_check", "sub_send"} /\ (via = "user" \/ arg = "config")
                => handlers \subseteq messageHandlers \union {arg}

IInv == SessionInv /\ ControlInv /\ SubscribedInv

-----------------------------------------------------------------------------
(* Types.  The operators of MqttSession and the steps of the network keep  *)
(* NetTypeOK; they are proved once and cited by the actions that use them. *)

(* onMessageReceived records the topic a message came on.                  *)
LEMMA DeliverType ==
    NetTypeOK /\ deliverMessage => kind' \in [Messages -> Topics \union {NULL}]
BY DEF NetTypeOK, deliverMessage

(* Closing the session keeps the types of its fields.                      *)
LEMMA CloseType ==
    NetTypeOK /\ MQTTCloseSession
        => /\ isconnected' \in BOOLEAN
           /\ cleansession' \in BOOLEAN
           /\ messageHandlers' \subseteq Topics
BY DEF NetTypeOK, MQTTCloseSession

(* So does a yield that succeeds.                                          *)
LEMMA YieldOkType ==
    NetTypeOK /\ MQTTYieldOk
        => /\ isconnected' \in BOOLEAN
           /\ cleansession' \in BOOLEAN
           /\ messageHandlers' \subseteq Topics
BY CloseType DEF NetTypeOK, MQTTYieldOk, session

(* So does a yield that fails.                                             *)
LEMMA YieldFailType ==
    NetTypeOK /\ MQTTYieldFail
        => /\ isconnected' \in BOOLEAN
           /\ cleansession' \in BOOLEAN
           /\ messageHandlers' \subseteq Topics
<1> SUFFICES ASSUME NetTypeOK, MQTTYieldFail
             PROVE /\ isconnected' \in BOOLEAN
                   /\ cleansession' \in BOOLEAN
                   /\ messageHandlers' \subseteq Topics
  OBVIOUS
<1>1. CASE isconnected
  BY <1>1, CloseType DEF MQTTYieldFail
<1>2. CASE ~isconnected
  BY <1>2 DEF MQTTYieldFail, session, NetTypeOK
<1> QED BY <1>1, <1>2

(* Counting a disruption stays in Nat.                                     *)
LEMMA DisruptType ==
    NetTypeOK /\ (NoAnswer \/ Answered \/ Disrupt \/ UNCHANGED disruptions)
        => disruptions' \in Nat
BY DEF NetTypeOK, NoAnswer, Answered, Disrupt

(* MQTTConnect keeps the types, whether the CONNACK comes or not.          *)
LEMMA ConnectType ==
    ASSUME NetTypeOK, UNCHANGED kind,
           \/ MQTTConnectOk /\ UNCHANGED disruptions
           \/ MQTTConnectFail /\ NoAnswer /\ UNCHANGED link
    PROVE  NetTypeOK'
<1>1. CASE MQTTConnectOk /\ UNCHANGED disruptions
  BY <1>1 DEF NetTypeOK, MQTTConnectOk
<1>2. CASE MQTTConnectFail /\ NoAnswer /\ UNCHANGED link
  <2>1. cleansession' \in BOOLEAN
    <3>1. CASE isconnected
      BY <1>2, <3>1 DEF NetTypeOK, MQTTConnectFail
    <3>2. CASE ~isconnected
      BY <1>2, <3>2 DEF NetTypeOK, MQTTConnectFail
    <3> QED BY <3>1, <3>2
  <2>2. disruptions' \in Nat
    BY <1>2, DisruptType
  <2> QED BY <1>2, <2>1, <2>2 DEF NetTypeOK, MQTTConnectFail
<1> QED BY <1>1, <1>2

(* publishMessage keeps the types, whether it succeeds or fails.           *)
LEMMA PublishType ==
    ASSUME NetTypeOK, NEW p, publishMessageOk(p) \/ publishMessageFail(p)
    PROVE  NetTypeOK'
<1>1. CASE publishMessageOk(p)
  <2>1. kind' \in [Messages -> Topics \union {NULL}]
    BY <1>1, DeliverType DEF publishMessageOk
  <2>2. disruptions' \in Nat
    BY <1>1, DisruptType DEF publishMessageOk
  <2>3. UNCHANGED session \/ MQTTCloseSession
    BY <1>1 DEF publishMessageOk, MQTTPublishOk
  <2>4. /\ isconnected' \in BOOLEAN
        /\ cleansession' \in BOOLEAN
        /\ messageHandlers' \subseteq Topics
    BY <2>3, CloseType DEF NetTypeOK, session
  <2> QED BY <1>1, <2>1, <2>2, <2>4 DEF publishMessageOk, NetTypeOK
<1>2. CASE publishMessageFail(p) /\ p \in TooLarge
  BY <1>2 DEF publishMessageFail, NetTypeOK, session
<1>3. CASE publishMessageFail(p) /\ p \notin TooLarge
  <2>1. kind' \in [Messages -> Topics \union {NULL}]
    BY <1>3, DeliverType DEF publishMessageFail, NetTypeOK
  <2>2. /\ isconnected' \in BOOLEAN
        /\ cleansession' \in BOOLEAN
        /\ messageHandlers' \subseteq Topics
    BY <1>3, CloseType DEF publishMessageFail
  <2>3. link' \in {"down", "tcp", "up"} /\ disruptions' \in Nat
    BY <1>3 DEF publishMessageFail, Disrupt, NetTypeOK
  <2> QED BY <2>1, <2>2, <2>3 DEF NetTypeOK
<1> QED BY <1>1, <1>2, <1>3

(* The steps of zclient_connect keep the types.                             *)
LEMMA ConnectTypes ==
    TypeInv /\ (ConnectStep) => TypeInv'
<1> SUFFICES ASSUME TypeInv, ConnectStep PROVE TypeInv'
  OBVIOUS
<1>1. CASE Teardown
  BY <1>1 DEF Teardown, TypeInv, TypeOK, NetTypeOK, SlotTypeOK,
       AppTypeOK, ThreadTypeOK, LocalsOK, AppPC, ClientStates, Goto, others,
       session, slots, locals, threads
<1>2. CASE NetConnect
  BY <1>2 DEF NetConnect, Disrupt, TypeInv, TypeOK, NetTypeOK, SlotTypeOK,
       AppTypeOK, ThreadTypeOK, LocalsOK, AppPC, ClientStates, Goto, others,
       session, slots, locals, threads
<1>3. CASE MqttInit
  <2>1. NetTypeOK'
    BY <1>3 DEF MqttInit, MQTTClientInit, TypeInv, TypeOK, NetTypeOK, others
  <2>2. SlotTypeOK'
    BY <1>3 DEF MqttInit, TypeInv, TypeOK, SlotTypeOK, slots
  <2>3. AppTypeOK' /\ LocalsOK'
    BY <1>3 DEF MqttInit, TypeInv, TypeOK, AppTypeOK, LocalsOK, AppPC, Goto,
         locals, others
  <2>4. ThreadTypeOK'
    BY <1>3 DEF MqttInit, TypeInv, TypeOK, ThreadTypeOK, threads, others
  <2> QED BY <2>1, <2>2, <2>3, <2>4 DEF TypeInv, TypeOK
<1>4. CASE MqttConnect
  <2>1. NetTypeOK'
    BY <1>4, ConnectType DEF MqttConnect, TypeInv, TypeOK, others
  <2>2. SlotTypeOK'
    BY <1>4 DEF MqttConnect, TypeInv, TypeOK, SlotTypeOK, slots
  <2>3. AppTypeOK' /\ LocalsOK'
    BY <1>4 DEF MqttConnect, TypeInv, TypeOK, AppTypeOK, LocalsOK, AppPC, Goto,
         locals, others
  <2>4. ThreadTypeOK'
    BY <1>4 DEF MqttConnect, TypeInv, TypeOK, ThreadTypeOK, threads, others
  <2> QED BY <2>1, <2>2, <2>3, <2>4 DEF TypeInv, TypeOK
<1>5. CASE SetConnected
  BY <1>5 DEF SetConnected, TypeInv, TypeOK, NetTypeOK, SlotTypeOK,
       AppTypeOK, ThreadTypeOK, LocalsOK, AppPC, ClientStates, Goto, others,
       session, slots, locals, threads
<1>6. CASE NetDisconnect
  BY <1>6 DEF NetDisconnect, TypeInv, TypeOK, NetTypeOK, SlotTypeOK,
       AppTypeOK, ThreadTypeOK, LocalsOK, AppPC, ClientStates, Goto, others,
       session, slots, locals, threads
<1> QED BY <1>1, <1>2, <1>3, <1>4, <1>5, <1>6 DEF ConnectStep

(* The second half of zclient_reconnect keeps the types.                    *)
LEMMA ResumeTypes ==
    TypeInv /\ (ResumeStep) => TypeInv'
<1> SUFFICES ASSUME TypeInv, ResumeStep PROVE TypeInv'
  OBVIOUS
<1>1. CASE Reset
  <2>1. NetTypeOK'
    BY <1>1 DEF Reset, TypeInv, TypeOK, NetTypeOK, session, others
  <2>2. SlotTypeOK'
    BY <1>1 DEF Reset, TypeInv, TypeOK, SlotTypeOK, slots
  <2>3. AppTypeOK' /\ LocalsOK'
    BY <1>1 DEF Reset, TypeInv, TypeOK, AppTypeOK, LocalsOK, AppPC, Goto,
         locals, others, SubscribeNext, ClientStates, Topics
  <2>4. ThreadTypeOK'
    BY <1>1 DEF Reset, TypeInv, TypeOK, ThreadTypeOK, threads, others
  <2> QED BY <2>1, <2>2, <2>3, <2>4 DEF TypeInv, TypeOK
<1>2. CASE SubCheck
  BY <1>2 DEF SubCheck, TypeInv, TypeOK, NetTypeOK, SlotTypeOK,
       AppTypeOK, ThreadTypeOK, LocalsOK, AppPC, ClientStates, Goto, others,
       session, slots, locals, threads
<1>3. CASE SubSend
  <2>1. NetTypeOK'
    <3>1. kind' \in [Messages -> Topics \union {NULL}]
      BY <1>3, DeliverType DEF SubSend, TypeInv, TypeOK
    <3>2. disruptions' \in Nat
      BY <1>3, DisruptType DEF SubSend, TypeInv, TypeOK
    <3>3. /\ isconnected' \in BOOLEAN
          /\ cleansession' \in BOOLEAN
          /\ messageHandlers' \subseteq Topics
      <4>1. CASE MQTTSubscribeOk(arg)
        BY <1>3, <4>1 DEF SubSend, MQTTSubscribeOk, TypeInv, TypeOK, NetTypeOK,
             AppTypeOK,
             LocalsOK, Goto, SubscribeNext
      <4>2. CASE MQTTCloseSession
        BY <4>2, CloseType DEF TypeInv, TypeOK
      <4> QED BY <1>3, <4>1, <4>2 DEF SubSend
    <3> QED BY <1>3, <3>1, <3>2, <3>3 DEF SubSend, TypeInv, TypeOK, NetTypeOK
  <2>2. SlotTypeOK'
    BY <1>3 DEF SubSend, TypeInv, TypeOK, SlotTypeOK, slots
  <2>3. AppTypeOK' /\ LocalsOK'
    BY <1>3 DEF SubSend, TypeInv, TypeOK, AppTypeOK, LocalsOK, AppPC, Goto,
         SubscribeNext, Topics
  <2>4. ThreadTypeOK'
    BY <1>3 DEF SubSend, TypeInv, TypeOK, ThreadTypeOK, threads
  <2> QED BY <2>1, <2>2, <2>3, <2>4 DEF TypeInv, TypeOK
<1>4. CASE SubFailed
  BY <1>4 DEF SubFailed, TypeInv, TypeOK, NetTypeOK, SlotTypeOK,
       AppTypeOK, ThreadTypeOK, LocalsOK, AppPC, ClientStates, Goto, others,
       session, slots, locals, threads
<1>5. CASE AckCheck
  BY <1>5 DEF AckCheck, TypeInv, TypeOK, NetTypeOK, SlotTypeOK,
       AppTypeOK, ThreadTypeOK, LocalsOK, AppPC, ClientStates, Goto, others,
       session, slots, locals, threads
<1>6. CASE AckPrint
  BY <1>6 DEF AckPrint, TypeInv, TypeOK, NetTypeOK, SlotTypeOK,
       AppTypeOK, ThreadTypeOK, LocalsOK, AppPC, ClientStates, Goto, others,
       session, slots, locals, threads
<1>7. CASE AckTopic
  BY <1>7 DEF AckTopic, TypeInv, TypeOK, NetTypeOK, SlotTypeOK,
       AppTypeOK, ThreadTypeOK, LocalsOK, AppPC, ClientStates, Goto, others,
       session, slots, locals, threads
<1>8. CASE AckPublish
  <2>1. NetTypeOK'
    BY <1>8, PublishType DEF AckPublish, TypeInv, TypeOK
  <2>2. SlotTypeOK'
    BY <1>8 DEF AckPublish, TypeInv, TypeOK, SlotTypeOK, slots
  <2>3. AppTypeOK' /\ LocalsOK'
    BY <1>8 DEF AckPublish, TypeInv, TypeOK, AppTypeOK, LocalsOK, AppPC, Goto,
         locals, others
  <2>4. ThreadTypeOK'
    BY <1>8 DEF AckPublish, TypeInv, TypeOK, ThreadTypeOK, threads, others,
         LocalsOK, Goto
  <2> QED BY <2>1, <2>2, <2>3, <2>4 DEF TypeInv, TypeOK
<1>9. CASE AckClear
  <2>1. NetTypeOK'
    BY <1>9 DEF AckClear, TypeInv, TypeOK, NetTypeOK, session, others
  <2>2. SlotTypeOK'
    BY <1>9 DEF AckClear, TypeInv, TypeOK, SlotTypeOK, slots
  <2>3. AppTypeOK' /\ LocalsOK'
    BY <1>9 DEF AckClear, TypeInv, TypeOK, AppTypeOK, LocalsOK, AppPC, Goto,
         locals, others
  <2>4. ThreadTypeOK'
    BY <1>9 DEF AckClear, TypeInv, TypeOK, ThreadTypeOK, threads, others
  <2> QED BY <2>1, <2>2, <2>3, <2>4 DEF TypeInv, TypeOK
<1>10. CASE EventCheck
  BY <1>10 DEF EventCheck, TypeInv, TypeOK, NetTypeOK, SlotTypeOK,
       AppTypeOK, ThreadTypeOK, LocalsOK, AppPC, ClientStates, Goto, others,
       session, slots, locals, threads
<1>11. CASE EventExpiry
  BY <1>11 DEF EventExpiry, TypeInv, TypeOK, NetTypeOK, SlotTypeOK,
       AppTypeOK, ThreadTypeOK, LocalsOK, AppPC, ClientStates, Goto, others,
       session, slots, locals, threads
<1>12. CASE EventPrint
  BY <1>12 DEF EventPrint, TypeInv, TypeOK, NetTypeOK, SlotTypeOK,
       AppTypeOK, ThreadTypeOK, LocalsOK, AppPC, ClientStates, Goto, others,
       session, slots, locals, threads
<1>13. CASE EventPublish
  <2>1. NetTypeOK'
    BY <1>13, PublishType DEF EventPublish, TypeInv, TypeOK
  <2>2. SlotTypeOK'
    BY <1>13 DEF EventPublish, TypeInv, TypeOK, SlotTypeOK, slots
  <2>3. AppTypeOK' /\ LocalsOK'
    BY <1>13 DEF EventPublish, TypeInv, TypeOK, AppTypeOK, LocalsOK, AppPC,
         Goto, locals, others
  <2>4. ThreadTypeOK'
    BY <1>13 DEF EventPublish, TypeInv, TypeOK, ThreadTypeOK, threads, others
  <2> QED BY <2>1, <2>2, <2>3, <2>4 DEF TypeInv, TypeOK
<1>14. CASE EventClear
  <2>1. NetTypeOK'
    BY <1>14 DEF EventClear, TypeInv, TypeOK, NetTypeOK, session, others
  <2>2. SlotTypeOK'
    BY <1>14 DEF EventClear, TypeInv, TypeOK, SlotTypeOK, slots
  <2>3. AppTypeOK' /\ LocalsOK'
    BY <1>14 DEF EventClear, TypeInv, TypeOK, AppTypeOK, LocalsOK, AppPC, Goto,
         locals, others
  <2>4. ThreadTypeOK'
    BY <1>14 DEF EventClear, TypeInv, TypeOK, ThreadTypeOK, threads, others
  <2> QED BY <2>1, <2>2, <2>3, <2>4 DEF TypeInv, TypeOK
<1> QED
  BY <1>1, <1>2, <1>3, <1>4, <1>5, <1>6, <1>7, <1>8, <1>9, <1>10, <1>11, <1>12,
       <1>13, <1>14 DEF ResumeStep

(* Publishing, yielding and disconnecting keep the types.                   *)
LEMMA SendTypes ==
    TypeInv /\ (SendStep) => TypeInv'
<1> SUFFICES ASSUME TypeInv, SendStep PROVE TypeInv'
  OBVIOUS
<1>1. CASE PubSend
  <2>1. NetTypeOK'
    BY <1>1, PublishType DEF PubSend, TypeInv, TypeOK
  <2>2. SlotTypeOK'
    BY <1>1 DEF PubSend, TypeInv, TypeOK, SlotTypeOK, slots
  <2>3. AppTypeOK' /\ LocalsOK'
    BY <1>1 DEF PubSend, TypeInv, TypeOK, AppTypeOK, LocalsOK, AppPC, Goto,
         locals, others
  <2>4. ThreadTypeOK'
    BY <1>1 DEF PubSend, TypeInv, TypeOK, ThreadTypeOK, threads, others
  <2> QED BY <2>1, <2>2, <2>3, <2>4 DEF TypeInv, TypeOK
<1>2. CASE PubFailed
  BY <1>2 DEF PubFailed, LostConnection, TypeInv, TypeOK, NetTypeOK,
       SlotTypeOK, AppTypeOK, ThreadTypeOK, LocalsOK, AppPC, ClientStates,
       Goto, others, session, slots, locals, threads
<1>3. CASE EvtSend
  <2>1. NetTypeOK'
    BY <1>3, PublishType DEF EvtSend, TypeInv, TypeOK
  <2>2. SlotTypeOK'
    BY <1>3 DEF EvtSend, TypeInv, TypeOK, SlotTypeOK, slots
  <2>3. AppTypeOK' /\ LocalsOK'
    BY <1>3 DEF EvtSend, TypeInv, TypeOK, AppTypeOK, LocalsOK, AppPC, Goto,
         locals, others
  <2>4. ThreadTypeOK'
    BY <1>3 DEF EvtSend, TypeInv, TypeOK, ThreadTypeOK, threads, others
  <2> QED BY <2>1, <2>2, <2>3, <2>4 DEF TypeInv, TypeOK
<1>4. CASE EvtFailed
  BY <1>4 DEF EvtFailed, LostConnection, TypeInv, TypeOK, NetTypeOK,
       SlotTypeOK, AppTypeOK, ThreadTypeOK, LocalsOK, AppPC, ClientStates,
       Goto, others, session, slots, locals, threads
<1>5. CASE EvtStore
  BY <1>5 DEF EvtStore, TypeInv, TypeOK, NetTypeOK, SlotTypeOK,
       AppTypeOK, ThreadTypeOK, LocalsOK, AppPC, ClientStates, Goto, others,
       session, slots, locals, threads
<1>6. CASE Yield
  <2>1. NetTypeOK'
    <3>1. NetTypeOK /\ (MQTTYieldOk \/ MQTTYieldFail) /\ (NoAnswer \/ Answered)
          /\ deliverMessage /\ UNCHANGED link
      BY <1>6 DEF Yield, TypeInv, TypeOK
    <3>2. kind' \in [Messages -> Topics \union {NULL}] /\ disruptions' \in Nat
      BY <3>1, DeliverType, DisruptType
    <3>3. /\ isconnected' \in BOOLEAN
          /\ cleansession' \in BOOLEAN
          /\ messageHandlers' \subseteq Topics
      BY <3>1, YieldOkType, YieldFailType
    <3> QED BY <3>1, <3>2, <3>3 DEF NetTypeOK
  <2>2. SlotTypeOK'
    BY <1>6 DEF Yield, TypeInv, TypeOK, SlotTypeOK, slots
  <2>3. AppTypeOK' /\ LocalsOK'
    BY <1>6 DEF Yield, TypeInv, TypeOK, AppTypeOK, LocalsOK, AppPC, Goto,
         locals, others
  <2>4. ThreadTypeOK'
    BY <1>6 DEF Yield, TypeInv, TypeOK, ThreadTypeOK, threads, others
  <2> QED BY <2>1, <2>2, <2>3, <2>4 DEF TypeInv, TypeOK
<1>7. CASE YieldFailed
  BY <1>7 DEF YieldFailed, LostConnection, TypeInv, TypeOK, NetTypeOK,
       SlotTypeOK, AppTypeOK, ThreadTypeOK, LocalsOK, AppPC, ClientStates,
       Goto, others, session, slots, locals, threads
<1>8. CASE DisMqtt
  <2>1. NetTypeOK'
    BY <1>8, CloseType DEF DisMqtt, TypeInv, TypeOK, NetTypeOK, others
  <2>2. SlotTypeOK'
    BY <1>8 DEF DisMqtt, TypeInv, TypeOK, SlotTypeOK, slots
  <2>3. AppTypeOK' /\ LocalsOK'
    BY <1>8 DEF DisMqtt, TypeInv, TypeOK, AppTypeOK, LocalsOK, AppPC, Goto,
         locals, others
  <2>4. ThreadTypeOK'
    BY <1>8 DEF DisMqtt, TypeInv, TypeOK, ThreadTypeOK, threads, others
  <2> QED BY <2>1, <2>2, <2>3, <2>4 DEF TypeInv, TypeOK
<1>9. CASE DisNet
  BY <1>9 DEF DisNet, TypeInv, TypeOK, NetTypeOK, SlotTypeOK,
       AppTypeOK, ThreadTypeOK, LocalsOK, AppPC, ClientStates, Goto, others,
       session, slots, locals, threads
<1>10. CASE DisSet
  BY <1>10 DEF DisSet, TypeInv, TypeOK, NetTypeOK, SlotTypeOK,
       AppTypeOK, ThreadTypeOK, LocalsOK, AppPC, ClientStates, Goto, others,
       session, slots, locals, threads
<1> QED
  BY <1>1, <1>2, <1>3, <1>4, <1>5, <1>6, <1>7, <1>8, <1>9, <1>10 DEF SendStep

(* Entering an API call keeps the types.                                    *)
LEMMA CallTypes ==
    TypeInv /\ (Call) => TypeInv'
<1> SUFFICES ASSUME TypeInv, Call PROVE TypeInv'
  OBVIOUS
<1>1. CASE CallConnect
  BY <1>1 DEF CallConnect, TypeInv, TypeOK, NetTypeOK, SlotTypeOK,
       AppTypeOK, ThreadTypeOK, LocalsOK, AppPC, ClientStates, Goto, others,
       session, slots, locals, threads
<1>2. CASE CallReconnect
  BY <1>2 DEF CallReconnect, TypeInv, TypeOK, NetTypeOK, SlotTypeOK,
       AppTypeOK, ThreadTypeOK, LocalsOK, AppPC, ClientStates, Goto, others,
       session, slots, locals, threads
<1>3. CASE CallPublish
  BY <1>3 DEF CallPublish, TypeInv, TypeOK, NetTypeOK, SlotTypeOK,
       AppTypeOK, ThreadTypeOK, LocalsOK, AppPC, ClientStates, Goto, others,
       session, slots, locals, threads
<1>4. CASE CallYield
  BY <1>4 DEF CallYield, TypeInv, TypeOK, NetTypeOK, SlotTypeOK,
       AppTypeOK, ThreadTypeOK, LocalsOK, AppPC, ClientStates, Goto, others,
       session, slots, locals, threads
<1>5. CASE CallDisconnect
  BY <1>5 DEF CallDisconnect, Disrupt, TypeInv, TypeOK, NetTypeOK, SlotTypeOK,
       AppTypeOK, ThreadTypeOK, LocalsOK, AppPC, ClientStates, Goto, others,
       session, slots, locals, threads
<1>6. ASSUME NEW t \in Topics, CallSubscribe(t) PROVE TypeInv'
  BY <1>6 DEF CallSubscribe, TypeInv, TypeOK, NetTypeOK, SlotTypeOK,
       AppTypeOK, ThreadTypeOK, LocalsOK, AppPC, ClientStates, Goto, others,
       session, slots, locals, threads
<1>7. CASE CallDispatchEvent
  BY <1>7 DEF CallDispatchEvent, TypeInv, TypeOK, NetTypeOK, SlotTypeOK,
       AppTypeOK, ThreadTypeOK, LocalsOK, AppPC, ClientStates, Goto,
       session, slots, locals, threads
<1> QED BY <1>1, <1>2, <1>3, <1>4, <1>5, <1>6, <1>7 DEF Call

(* The message threads and the network keep the types.                     *)
LEMMA ThreadTypes ==
    ASSUME TypeInv, NEW m \in Messages, Thread(m) PROVE TypeInv'
<1>1. AppTypeOK' /\ LocalsOK'
  BY DEF Thread, StartMessage, PublishReceived, PublishAck, CheckConnected,
         MarkDisconnected, StoreAck, client, locals, TypeInv, TypeOK,
         AppTypeOK, LocalsOK, ClientStates
<1>2. SlotTypeOK'
  <2>1. CASE StoreAck(m)
    BY <2>1 DEF StoreAck, TypeInv, TypeOK, SlotTypeOK, NetTypeOK
  <2>2. CASE UNCHANGED slots
    BY <2>2 DEF slots, TypeInv, TypeOK, SlotTypeOK
  <2> QED
    BY <2>1, <2>2 DEF Thread, StartMessage, PublishReceived, PublishAck,
         CheckConnected, MarkDisconnected
<1>3. ThreadTypeOK'
  BY DEF Thread, StartMessage, PublishReceived, PublishAck, CheckConnected,
       MarkDisconnected, StoreAck, At, TypeInv, TypeOK, ThreadTypeOK, ThreadPC
<1>4. NetTypeOK'
  <2>1. CASE PublishReceived(m)
    BY <2>1, PublishType DEF PublishReceived, TypeInv, TypeOK
  <2>2. CASE PublishAck(m)
    BY <2>2, PublishType DEF PublishAck, TypeInv, TypeOK
  <2>3. CASE UNCHANGED <<session, link, kind, disruptions>>
    BY <2>3 DEF session, TypeInv, TypeOK, NetTypeOK
  <2> QED
    BY <2>1, <2>2, <2>3 DEF Thread, StartMessage, CheckConnected,
         MarkDisconnected, StoreAck
<1> QED BY <1>1, <1>2, <1>3, <1>4 DEF TypeInv, TypeOK

(* zclient_init establishes the types.                                     *)
LEMMA InitTypes == Init => TypeInv
<1> SUFFICES ASSUME Init PROVE TypeInv
  OBVIOUS
<1>1. NetTypeOK
  BY DEF Init, NetTypeOK
<1>2. SlotTypeOK
  BY DEF Init, SlotTypeOK
<1>3. AppTypeOK /\ LocalsOK
  BY DEF Init, AppTypeOK, LocalsOK, AppPC, ClientStates, Topics
<1>4. ThreadTypeOK
  BY DEF Init, ThreadTypeOK, ThreadPC
<1> QED BY <1>1, <1>2, <1>3, <1>4 DEF TypeInv, TypeOK

(* Every step keeps the types.                                             *)
LEMMA TypeStep == TypeInv /\ [Next]_vars => TypeInv'
<1> SUFFICES ASSUME TypeInv, [Next]_vars PROVE TypeInv'
  OBVIOUS
<1>1. CASE LinkDown
  BY <1>1 DEF LinkDown, Disrupt, TypeInv, TypeOK, NetTypeOK, SlotTypeOK,
       AppTypeOK, ThreadTypeOK, LocalsOK, session, slots, locals, threads
<1>2. CASE UNCHANGED vars
  BY <1>2 DEF vars, TypeInv, TypeOK, NetTypeOK, SlotTypeOK, AppTypeOK,
       ThreadTypeOK, LocalsOK, session, slots, locals, threads
<1> QED
  BY <1>1, <1>2, ConnectTypes, ResumeTypes, SendTypes, CallTypes, ThreadTypes
     DEF Next, InCall

(* Every reachable state of a client and its threads has the types the     *)
(* structure declares, for any number of messages and failures.            *)
THEOREM TypeCorrect == Spec => []TypeOK
<1>1. Init => TypeInv
  BY InitTypes
<1>2. TypeInv /\ [Next]_vars => TypeInv'
  BY TypeStep
<1>3. TypeInv => TypeOK
  BY DEF TypeInv
<1> QED BY <1>1, <1>2, <1>3, PTL DEF Spec

-----------------------------------------------------------------------------
(* Subscriptions.  A step either leaves the session alone, opens it, adds  *)
(* a subscription, or closes it and with it drops every subscription.      *)
SessionClosed == ~isconnected /\ messageHandlers = {}

(* MQTTCloseSession empties the handler table: a session that is open or   *)
(* has handlers is always a clean one.                                     *)
LEMMA CloseCloses == SessionInv /\ MQTTCloseSession => SessionClosed'
BY DEF SessionInv, MQTTCloseSession, SessionClosed

(* A yield closes the session too, or leaves it alone.                     *)
LEMMA YieldKeepsOrCloses ==
    SessionInv /\ (MQTTYieldOk \/ MQTTYieldFail) => UNCHANGED session \/ SessionClosed'
<1> SUFFICES ASSUME SessionInv, MQTTYieldOk \/ MQTTYieldFail
             PROVE  UNCHANGED session \/ SessionClosed'
  OBVIOUS
<1>1. CASE MQTTYieldOk
  BY <1>1, CloseCloses DEF MQTTYieldOk
<1>2. CASE MQTTYieldFail /\ isconnected
  BY <1>2, CloseCloses DEF MQTTYieldFail
<1>3. CASE MQTTYieldFail /\ ~isconnected
  BY <1>3 DEF MQTTYieldFail
<1> QED BY <1>1, <1>2, <1>3

(* publishMessage leaves the session alone or closes it.                   *)
LEMMA PublishKeepsOrCloses ==
    ASSUME SessionInv, NEW p, publishMessageOk(p) \/ publishMessageFail(p)
    PROVE  UNCHANGED session \/ SessionClosed'
BY CloseCloses DEF publishMessageOk, publishMessageFail, MQTTPublishOk

(* The invariants about the session survive both.                          *)
LEMMA SessionInvKept ==
    SessionInv /\ (UNCHANGED session \/ SessionClosed') => SessionInv'
BY DEF SessionInv, SessionClosed, session

(* zclient_connect opens a session without subscriptions, and returns to  *)
(* the application only when no handler is registered.                      *)
LEMMA ConnectSubscribed ==
    TypeInv /\ IInv /\ ConnectStep => IInv'
<1> SUFFICES ASSUME TypeInv, IInv, ConnectStep PROVE IInv'
  OBVIOUS
<1>1. CASE Teardown
  BY <1>1 DEF Teardown, IInv, SessionInv, ControlInv, SubscribedInv,
       Connecting, Serving, Goto, session, locals, others
<1>2. CASE NetConnect
  BY <1>2 DEF NetConnect, IInv, SessionInv, ControlInv, SubscribedInv,
       Connecting, Serving, Goto, session, locals, others
<1>3. CASE MqttInit
  BY <1>3 DEF MqttInit, MQTTClientInit, IInv, SessionInv, ControlInv,
       SubscribedInv, Connecting, Serving, Goto, session, locals, others
<1>4. CASE MqttConnect
  BY <1>4 DEF MqttConnect, MQTTConnectOk, MQTTConnectFail, IInv, SessionInv,
       ControlInv, SubscribedInv, Connecting, Serving, Goto, session, locals,
       others
<1>5. CASE SetConnected
  BY <1>5 DEF SetConnected, TypeInv, TypeOK, AppTypeOK, IInv, SessionInv,
       ControlInv, SubscribedInv, Connecting, Serving, Goto, session, locals,
       others
<1>6. CASE NetDisconnect
  BY <1>6 DEF NetDisconnect, IInv, SessionInv, ControlInv, SubscribedInv,
       Connecting, Serving, Goto, session, locals, others
<1> QED
  BY <1>1, <1>2, <1>3, <1>4, <1>5, <1>6
     DEF ConnectStep

(* zclient_reconnect returns only after it has subscribed every topic that *)
(* has a handler, or with the session closed or the state DISCONNECTED.     *)
LEMMA ResumeSubscribed ==
    TypeInv /\ IInv /\ ResumeStep => IInv'
<1> SUFFICES ASSUME TypeInv, IInv, ResumeStep PROVE IInv'
  OBVIOUS
<1>1. CASE Reset
  BY <1>1 DEF Reset, SubscribeNext, TypeInv, TypeOK, AppTypeOK, Topics, IInv,
       SessionInv, ControlInv, SubscribedInv, Connecting, Serving, Goto,
       session, locals, others
<1>2. CASE SubCheck
  BY <1>2 DEF SubCheck, IInv, SessionInv, ControlInv, SubscribedInv,
       Connecting, Serving, Goto, session, locals, others
<1>3. CASE SubSend
  <2>1. CASE MQTTCloseSession /\ Goto("sub_send", "sub_failed")
    <3>1. SessionClosed'
      BY <2>1, CloseCloses DEF IInv
    <3> QED
      BY <1>3, <2>1, <3>1 DEF SubSend, IInv, SessionInv, ControlInv,
           SubscribedInv, Connecting, Serving, Goto, SessionClosed
  <2>2. CASE MQTTSubscribeOk(arg) /\ via = "user" /\ Goto("sub_send", "idle")
    BY <1>3, <2>2 DEF SubSend, MQTTSubscribeOk, IInv, SessionInv, ControlInv,
         SubscribedInv, Connecting, Serving, Goto
  <2>3. CASE /\ MQTTSubscribeOk(arg)
             /\ via # "user"
             /\ SubscribeNext("sub_send", handlers \ {"command", arg})
    BY <1>3, <2>3 DEF SubSend, MQTTSubscribeOk, SubscribeNext, IInv,
         SessionInv, ControlInv, SubscribedInv, Connecting, Serving, Goto,
         TypeInv, TypeOK, AppTypeOK, LocalsOK, Topics
  <2> QED BY <1>3, <2>1, <2>2, <2>3 DEF SubSend
<1>4. CASE SubFailed
  BY <1>4 DEF SubFailed, IInv, SessionInv, ControlInv, SubscribedInv,
       Connecting, Serving, Goto, session, locals, others
<1>5. CASE AckCheck
  BY <1>5 DEF AckCheck, IInv, SessionInv, ControlInv, SubscribedInv,
       Connecting, Serving, Goto, session, locals, others
<1>6. CASE AckPrint
  BY <1>6 DEF AckPrint, IInv, SessionInv, ControlInv, SubscribedInv,
       Connecting, Serving, Goto, session, locals, others
<1>7. CASE AckTopic
  BY <1>7 DEF AckTopic, IInv, SessionInv, ControlInv, SubscribedInv,
       Connecting, Serving, Goto, session, locals, others
<1>8. CASE AckPublish
  <2>1. UNCHANGED session \/ SessionClosed'
    BY <1>8, PublishKeepsOrCloses DEF AckPublish, IInv
  <2>2. SessionInv'
    BY <2>1, SessionInvKept DEF IInv
  <2>3. ControlInv' /\ SubscribedInv'
    BY <1>8, <2>1 DEF AckPublish, IInv, SessionInv, ControlInv, SubscribedInv,
         Connecting, Serving, Goto, SessionClosed, session, locals
  <2> QED BY <2>2, <2>3 DEF IInv
<1>9. CASE AckClear
  BY <1>9 DEF AckClear, IInv, SessionInv, ControlInv, SubscribedInv,
       Connecting, Serving, Goto, session, locals, others
<1>10. CASE EventCheck
  BY <1>10 DEF EventCheck, IInv, SessionInv, ControlInv, SubscribedInv,
       Connecting, Serving, Goto, session, locals, others
<1>11. CASE EventExpiry
  BY <1>11 DEF EventExpiry, IInv, SessionInv, ControlInv, SubscribedInv,
       Connecting, Serving, Goto, session, locals, others
<1>12. CASE EventPrint
  BY <1>12 DEF EventPrint, IInv, SessionInv, ControlInv, SubscribedInv,
       Connecting, Serving, Goto, session, locals, others
<1>13. CASE EventPublish
  <2>1. UNCHANGED session \/ SessionClosed'
    BY <1>13, PublishKeepsOrCloses DEF EventPublish, IInv
  <2>2. SessionInv'
    BY <2>1, SessionInvKept DEF IInv
  <2>3. ControlInv' /\ SubscribedInv'
    BY <1>13, <2>1 DEF EventPublish, IInv, SessionInv, ControlInv,
         SubscribedInv, Connecting, Serving, Goto, SessionClosed, session,
         locals
  <2> QED BY <2>2, <2>3 DEF IInv
<1>14. CASE EventClear
  BY <1>14 DEF EventClear, IInv, SessionInv, ControlInv, SubscribedInv,
       Connecting, Serving, Goto, session, locals, others
<1> QED
  BY <1>1, <1>2, <1>3, <1>4, <1>5, <1>6, <1>7, <1>8, <1>9, <1>10, <1>11, <1>12,
       <1>13, <1>14 DEF ResumeStep

(* Publishing, yielding and disconnecting never leave an open session      *)
(* without its subscriptions.                                               *)
LEMMA SendSubscribed ==
    TypeInv /\ IInv /\ SendStep => IInv'
<1> SUFFICES ASSUME TypeInv, IInv, SendStep PROVE IInv'
  OBVIOUS
<1>1. CASE PubSend
  <2>1. UNCHANGED session \/ SessionClosed'
    BY <1>1, PublishKeepsOrCloses DEF PubSend, IInv
  <2>2. SessionInv'
    BY <2>1, SessionInvKept DEF IInv
  <2>3. ControlInv' /\ SubscribedInv'
    BY <1>1, <2>1 DEF PubSend, IInv, SessionInv, ControlInv, SubscribedInv,
         Connecting, Serving, Goto, SessionClosed, session, locals
  <2> QED BY <2>2, <2>3 DEF IInv
<1>2. CASE PubFailed
  BY <1>2 DEF PubFailed, LostConnection, IInv, SessionInv, ControlInv,
       SubscribedInv, Connecting, Serving, Goto, session, locals, others
<1>3. CASE EvtSend
  <2>1. UNCHANGED session \/ SessionClosed'
    BY <1>3, PublishKeepsOrCloses DEF EvtSend, IInv
  <2>2. SessionInv'
    BY <2>1, SessionInvKept DEF IInv
  <2>3. ControlInv' /\ SubscribedInv'
    BY <1>3, <2>1 DEF EvtSend, IInv, SessionInv, ControlInv, SubscribedInv,
         Connecting, Serving, Goto, SessionClosed, session, locals
  <2> QED BY <2>2, <2>3 DEF IInv
<1>4. CASE EvtFailed
  BY <1>4 DEF EvtFailed, LostConnection, IInv, SessionInv, ControlInv,
       SubscribedInv, Connecting, Serving, Goto, session, locals, others
<1>5. CASE EvtStore
  BY <1>5 DEF EvtStore, IInv, SessionInv, ControlInv, SubscribedInv,
       Connecting, Serving, Goto, session, locals, others
<1>6. CASE Yield
  <2>1. UNCHANGED session \/ SessionClosed'
    BY <1>6, YieldKeepsOrCloses DEF Yield, IInv
  <2>2. SessionInv'
    BY <2>1, SessionInvKept DEF IInv
  <2>3. ControlInv' /\ SubscribedInv'
    BY <1>6, <2>1 DEF Yield, IInv, SessionInv, ControlInv, SubscribedInv,
         Connecting, Serving, Goto, SessionClosed, session, locals
  <2> QED BY <2>2, <2>3 DEF IInv
<1>7. CASE YieldFailed
  BY <1>7 DEF YieldFailed, LostConnection, IInv, SessionInv, ControlInv,
       SubscribedInv, Connecting, Serving, Goto, session, locals, others
<1>8. CASE DisMqtt
  <2>1. UNCHANGED session \/ SessionClosed'
    BY <1>8, CloseCloses DEF DisMqtt, IInv
  <2>2. SessionInv'
    BY <2>1, SessionInvKept DEF IInv
  <2>3. ControlInv' /\ SubscribedInv'
    BY <1>8, <2>1 DEF DisMqtt, IInv, SessionInv, ControlInv, SubscribedInv,
         Connecting, Serving, Goto, SessionClosed, session, locals
  <2> QED BY <2>2, <2>3 DEF IInv
<1>9. CASE DisNet
  BY <1>9 DEF DisNet, IInv, SessionInv, ControlInv, SubscribedInv, Connecting,
       Serving, Goto, session, locals, others
<1>10. CASE DisSet
  BY <1>10 DEF DisSet, IInv, SessionInv, ControlInv, SubscribedInv, Connecting,
       Serving, Goto, session, locals, others
<1> QED
  BY <1>1, <1>2, <1>3, <1>4, <1>5, <1>6, <1>7, <1>8, <1>9, <1>10
     DEF SendStep

(* A call starts from a subscribed session; a new handler is the argument  *)
(* of the subscription that follows.                                        *)
LEMMA CallSubscribed ==
    TypeInv /\ IInv /\ Call => IInv'
<1> SUFFICES ASSUME TypeInv, IInv, Call PROVE IInv'
  OBVIOUS
<1>1. CASE CallConnect
  BY <1>1 DEF CallConnect, IInv, SessionInv, ControlInv, SubscribedInv,
       Connecting, Serving, Goto, session, locals, others
<1>2. CASE CallReconnect
  BY <1>2 DEF CallReconnect, IInv, SessionInv, ControlInv, SubscribedInv,
       Connecting, Serving, Goto, session, locals, others
<1>3. CASE CallPublish
  BY <1>3 DEF CallPublish, IInv, SessionInv, ControlInv, SubscribedInv,
       Connecting, Serving, Goto, session, locals, others
<1>4. CASE CallYield
  BY <1>4 DEF CallYield, IInv, SessionInv, ControlInv, SubscribedInv,
       Connecting, Serving, Goto, session, locals, others
<1>5. CASE CallDisconnect
  BY <1>5 DEF CallDisconnect, TypeInv, TypeOK, AppTypeOK, ClientStates, IInv,
       SessionInv, ControlInv, SubscribedInv, Connecting, Serving, Goto,
       session, locals, others
<1>6. ASSUME NEW t \in Topics, CallSubscribe(t) PROVE IInv'
  BY <1>6 DEF CallSubscribe, IInv, SessionInv, ControlInv, SubscribedInv,
       Connecting, Serving, Goto, session
<1>7. CASE CallDispatchEvent
  BY <1>7 DEF CallDispatchEvent, IInv, SessionInv, ControlInv, SubscribedInv,
       Connecting, Serving, Goto, session, locals
<1> QED
  BY <1>1, <1>2, <1>3, <1>4, <1>5, <1>6, <1>7
     DEF Call

(* A thread can only close the session or set the state to DISCONNECTED.   *)
LEMMA ThreadSubscribed ==
    ASSUME IInv, NEW m \in Messages, Thread(m) PROVE IInv'
<1>1. UNCHANGED session \/ SessionClosed'
  BY PublishKeepsOrCloses
     DEF Thread, StartMessage, PublishReceived, PublishAck, CheckConnected,
         MarkDisconnected, StoreAck, IInv
<1>2. /\ UNCHANGED <<handlers, pc, via, arg>>
      /\ current_state' \in {current_state, "DISCONNECTED"}
  BY DEF Thread, StartMessage, PublishReceived, PublishAck, CheckConnected,
         MarkDisconnected, StoreAck, client, locals
<1>3. SessionInv'
  BY <1>1, SessionInvKept DEF IInv
<1>4. ControlInv'
  BY <1>2 DEF IInv, ControlInv
<1>5. SubscribedInv'
  BY <1>1, <1>2 DEF IInv, SubscribedInv, SessionClosed, session
<1> QED BY <1>3, <1>4, <1>5 DEF IInv

(* Init /\ [][Next]_vars keeps IInv, the inductive strengthening.          *)
LEMMA InductiveSubscribed == Spec => [](TypeInv /\ IInv)
<1>1. Init => TypeInv /\ IInv
  BY InitTypes DEF Init, IInv, SessionInv, ControlInv, SubscribedInv,
       Connecting, Serving, Goto
<1>2. TypeInv /\ IInv /\ [Next]_vars => (TypeInv /\ IInv)'
  <2> SUFFICES ASSUME TypeInv, IInv, [Next]_vars PROVE IInv'
    BY TypeStep
  <2>1. CASE LinkDown
    BY <2>1 DEF LinkDown, IInv, SessionInv, ControlInv, SubscribedInv,
         Connecting, Serving, Goto, session, locals
  <2>2. CASE UNCHANGED vars
    BY <2>2 DEF vars, IInv, SessionInv, ControlInv, SubscribedInv, Connecting,
         Serving, Goto, session, locals
  <2> QED
    BY <2>1, <2>2, ConnectSubscribed, ResumeSubscribed, SendSubscribed,
       CallSubscribed, ThreadSubscribed
       DEF Next, InCall
<1> QED BY <1>1, <1>2, PTL DEF Spec

(* Between two API calls a CONNECTED client with an open session is        *)
(* subscribed to every topic that has a handler: zclient_reconnect never   *)
(* forgets a subscription, for any number of messages, threads in flight   *)
(* and network failures.                                                   *)
THEOREM Subscribed == Spec => []SubscribedWhenUsable
<1>1. IInv => SubscribedWhenUsable
  BY DEF IInv, SubscribedInv, SubscribedWhenUsable
<1> QED BY <1>1, InductiveSubscribed, PTL

(* What a step can do to the session: leave it alone, close and empty it,  *)
(* leave it open, keep its table while it connects, or leave one handler   *)
(* in it.                                                                  *)
LEMMA SessionSteps ==
    ASSUME TypeInv, IInv, [Next]_vars
    PROVE  \/ UNCHANGED session
           \/ SessionClosed'
           \/ isconnected'
           \/ ~isconnected' /\ UNCHANGED <<isconnected, messageHandlers>>
           \/ messageHandlers' \subseteq {arg}
<1>1. CASE ConnectStep
  BY <1>1 DEF ConnectStep, Teardown, NetConnect, MqttInit, MqttConnect, SetConnected,
       NetDisconnect, MQTTClientInit, MQTTConnectOk, MQTTConnectFail, SessionClosed,
       TypeInv, TypeOK, NetTypeOK
<1>2. CASE SubSend
  <2>1. CASE MQTTCloseSession
    BY <2>1, CloseCloses DEF IInv
  <2>2. CASE MQTTSubscribeOk(arg)
    BY <2>2 DEF MQTTSubscribeOk, IInv, SessionInv
  <2> QED BY <1>2, <2>1, <2>2 DEF SubSend
<1>3. CASE AckPublish \/ EventPublish \/ PubSend \/ EvtSend
  BY <1>3, PublishKeepsOrCloses DEF AckPublish, EventPublish, PubSend, EvtSend, IInv
<1>4. CASE Yield
  BY <1>4, YieldKeepsOrCloses DEF Yield, IInv
<1>5. CASE DisMqtt
  BY <1>5, CloseCloses DEF DisMqtt, IInv
<1>6. CASE \/ Reset \/ SubCheck \/ SubFailed \/ AckCheck \/ AckPrint \/ AckTopic
           \/ AckClear \/ EventCheck \/ EventExpiry \/ EventPrint \/ EventClear
           \/ PubFailed \/ EvtFailed \/ EvtStore \/ YieldFailed \/ DisNet \/ DisSet
           \/ Call \/ LinkDown
  BY <1>6 DEF Reset, SubCheck, SubFailed, AckCheck, AckPrint, AckTopic, AckClear,
       EventCheck, EventExpiry, EventPrint, EventClear, PubFailed, EvtFailed,
       EvtStore, YieldFailed, LostConnection, DisNet, DisSet, Call, CallConnect,
       CallReconnect, CallPublish, CallYield, CallDisconnect, CallDispatchEvent,
       CallSubscribe, LinkDown
<1>7. ASSUME NEW m \in Messages, Thread(m)
      PROVE  UNCHANGED session \/ SessionClosed'
  BY <1>7, PublishKeepsOrCloses
     DEF Thread, StartMessage, PublishReceived, PublishAck, CheckConnected,
         MarkDisconnected, StoreAck, IInv
<1>8. CASE UNCHANGED vars
  BY <1>8 DEF vars
<1> QED BY <1>1, <1>2, <1>3, <1>4, <1>5, <1>6, <1>7, <1>8
           DEF Next, InCall, ResumeStep, SendStep

(* A closed session has forgotten its subscriptions, but for the one whose *)
(* SUBACK was read after the session had been closed.                      *)
THEOREM ClosedForgets == Spec => []ClosedSessionForgets
<1>1. Init => ClosedSessionForgets
  BY DEF Init, ClosedSessionForgets, Topics
<1>2. TypeInv /\ IInv /\ ClosedSessionForgets /\ [Next]_vars => ClosedSessionForgets'
  <2> SUFFICES ASSUME TypeInv, IInv, ClosedSessionForgets, [Next]_vars
               PROVE  ClosedSessionForgets'
    OBVIOUS
  <2>1. CASE UNCHANGED <<isconnected, messageHandlers>>
    BY <2>1 DEF ClosedSessionForgets
  <2>2. CASE SessionClosed' \/ isconnected'
    BY <2>2 DEF ClosedSessionForgets, SessionClosed, Topics
  <2>3. CASE messageHandlers' \subseteq {arg}
    BY <2>3 DEF ClosedSessionForgets, TypeInv, TypeOK, AppTypeOK
  <2> QED BY <2>1, <2>2, <2>3, SessionSteps DEF session
<1> QED BY <1>1, <1>2, InductiveSubscribed, PTL DEF Spec
=============================================================================
