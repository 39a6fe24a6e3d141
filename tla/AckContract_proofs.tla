------------------------ MODULE AckContract_proofs ------------------------
(***************************************************************************)
(* The acknowledgement slot of ClientSession, for any set of messages and  *)
(* any number of failures: the slot invariants, and that ClientSession     *)
(* implements AckContract.                                                 *)
(***************************************************************************)
EXTENDS ClientSession_proofs

Retrying == {"ack_topic", "ack_publish", "ack_clear"}
AckPC == {"ack_print"} \union Retrying

(* An acknowledgement is in one place: with its thread until that is done, *)
(* then confirmed, in the slot, or in the hands of the retry.              *)
OnePlace ==
    \A m \in Messages : thread[m] # "done" =>
        /\ m \notin confirmed
        /\ failedACK.ackPayload # m
        /\ pc \in Retrying => payload # m

Received == \A m \in Messages : kind[m] = NULL => thread[m] = "none"

SlotTopic == retryACK => failedACK.topic = kind[failedACK.ackPayload]

RetryInv ==
    /\ pc \in {"ack_topic", "ack_publish"} => payload \notin confirmed
    /\ pc = "ack_clear" => payload \in confirmed

AckInv == /\ RetriedAckPresent /\ ConfirmedAckNotPending /\ ResentOnItsTopic
          /\ OnePlace /\ Received /\ SlotTopic /\ RetryInv

(* A message is received once.                                             *)
KindKept == \A m \in Messages : kind[m] # NULL => kind'[m] = kind[m]

ThreadsAdvance ==
    /\ \A m \in Messages : thread[m] = "done" => thread'[m] = "done"
    /\ \A m \in Messages : kind'[m] = NULL => thread'[m] = "none"

(* deliverMessage never takes a message for another one.                   *)
LEMMA DeliverKeepsKind ==
    ASSUME TypeInv, deliverMessage \/ UNCHANGED kind
    PROVE  KindKept
BY DEF TypeInv, TypeOK, NetTypeOK, deliverMessage, KindKept

(* A step that leaves slot and confirmations alone, and the retry too      *)
(* unless it is outside of it, keeps the invariant.                        *)
LEMMA AckFrame ==
    ASSUME TypeInv, TypeInv', AckInv, KindKept, ThreadsAdvance,
           UNCHANGED <<failedACK, retryACK, confirmed>>,
           \/ UNCHANGED <<pc, payload, topic>>
           \/ pc \notin AckPC /\ pc' \notin AckPC
    PROVE  AckInv'
<1> USE DEF AckInv
<1>1. RetriedAckPresent'
  BY DEF RetriedAckPresent, AckPC, Retrying
<1>2. ConfirmedAckNotPending'
  BY DEF ConfirmedAckNotPending, AckPC, Retrying
<1>3. OnePlace'
  BY DEF OnePlace, ThreadsAdvance, AckPC, Retrying
<1>4. Received'
  BY DEF Received, ThreadsAdvance
<1>5. SlotTopic'
  <2>1. CASE ~retryACK
    BY <2>1 DEF SlotTopic
  <2>2. CASE retryACK
    <3>1. failedACK.ackPayload \in Messages
      BY <2>2 DEF RetriedAckPresent, TypeInv, TypeOK, SlotTypeOK
    <3>2. thread[failedACK.ackPayload] = "done"
      BY <3>1 DEF OnePlace
    <3>3. kind[failedACK.ackPayload] # NULL
      BY <3>1, <3>2 DEF Received
    <3> QED BY <2>2, <3>1, <3>3 DEF KindKept, SlotTopic
  <2> QED BY <2>1, <2>2
<1>6. RetryInv'
  BY DEF RetryInv, AckPC, Retrying
<1>7. ResentOnItsTopic'
  <2>1. CASE UNCHANGED <<pc, payload, topic>> /\ pc = "ack_publish"
    <3>1. payload \in Messages
      BY <2>1 DEF TypeInv, LocalsOK
    <3>2. kind[payload] # NULL
      BY <2>1, <3>1 DEF OnePlace, Received, Retrying
    <3> QED BY <2>1, <3>1, <3>2 DEF KindKept, ResentOnItsTopic
  <2>2. CASE pc' # "ack_publish"
    BY <2>2 DEF ResentOnItsTopic
  <2> QED BY <2>1, <2>2 DEF AckPC, Retrying
<1> QED BY <1>1, <1>2, <1>3, <1>4, <1>5, <1>6, <1>7

(* The same for the steps of the application thread, whose steps leave the *)
(* message threads alone.                                                  *)
LEMMA AppFrame ==
    ASSUME TypeInv, TypeInv', AckInv, deliverMessage \/ UNCHANGED kind,
           UNCHANGED <<failedACK, retryACK, confirmed, threads>>,
           pc \notin AckPC, pc' \notin AckPC
    PROVE  AckInv'
<1>1. KindKept
  BY DeliverKeepsKind
<1>2. ThreadsAdvance
  BY <1>1 DEF ThreadsAdvance, KindKept, AckInv, Received, threads
<1> QED BY <1>1, <1>2, AckFrame DEF threads

-----------------------------------------------------------------------------
(* The steps outside the retry of the acknowledgement.                     *)

(* publishMessage can deliver another message and changes nothing else     *)
(* that matters here.                                                      *)
LEMMA PublishDelivers ==
    ASSUME NEW p, publishMessageOk(p) \/ publishMessageFail(p)
    PROVE  deliverMessage \/ UNCHANGED kind
BY DEF publishMessageOk, publishMessageFail

(* Connecting does not touch acknowledgements.                             *)
LEMMA ConnectAcks ==
    ASSUME TypeInv, TypeInv', AckInv, ConnectStep PROVE AckInv'
<1>1. UNCHANGED <<failedACK, retryACK, confirmed, threads, kind>>
  BY DEF ConnectStep, Teardown, NetConnect, MqttInit, MqttConnect,
         SetConnected, NetDisconnect, slots, others
<1>2. pc \notin AckPC /\ pc' \notin AckPC
  BY DEF ConnectStep, Teardown, NetConnect, MqttInit, MqttConnect,
         SetConnected, NetDisconnect, Goto, AckPC, Retrying
<1> QED BY <1>1, <1>2, AppFrame

(* Neither do publishing, events, yielding and disconnecting.              *)
LEMMA SendAcks ==
    ASSUME TypeInv, TypeInv', AckInv, SendStep PROVE AckInv'
<1>1. UNCHANGED <<failedACK, retryACK, confirmed, threads>>
  BY DEF SendStep, PubSend, PubFailed, EvtSend, EvtFailed, EvtStore, Yield,
         YieldFailed, DisMqtt, DisNet, DisSet, LostConnection, slots, others
<1>2. pc \notin AckPC /\ pc' \notin AckPC
  BY DEF SendStep, PubSend, PubFailed, EvtSend, EvtFailed, EvtStore, Yield,
         YieldFailed, DisMqtt, DisNet, DisSet, LostConnection, Goto, AckPC,
         Retrying
<1>3. deliverMessage \/ UNCHANGED kind
  BY PublishDelivers
     DEF SendStep, PubSend, PubFailed, EvtSend, EvtFailed, EvtStore, Yield,
         YieldFailed, DisMqtt, DisNet, DisSet, LostConnection, others
<1> QED BY <1>1, <1>2, <1>3, AppFrame

(* Entering a call does not.                                               *)
LEMMA CallAcks ==
    ASSUME TypeInv, TypeInv', AckInv, Call PROVE AckInv'
<1>1. UNCHANGED <<failedACK, retryACK, confirmed, threads, kind>>
  BY DEF Call, CallConnect, CallReconnect, CallPublish, CallYield,
         CallDisconnect, CallSubscribe, CallDispatchEvent, slots, others
<1>2. pc \notin AckPC /\ pc' \notin AckPC
  BY DEF Call, CallConnect, CallReconnect, CallPublish, CallYield, TypeInv,
         CallDisconnect, CallSubscribe, CallDispatchEvent, Goto, AckPC,
         Retrying, TypeOK, AppTypeOK, ClientStates
<1> QED BY <1>1, <1>2, AppFrame

-----------------------------------------------------------------------------
(* The rest of zclient_reconnect: only AckPrint to AckClear are within the *)
(* retry of the acknowledgement.                                           *)
Outside == Reset \/ SubCheck \/ SubSend \/ SubFailed \/ EventCheck
             \/ EventExpiry \/ EventPrint \/ EventPublish \/ EventClear

(* Resubscribing and the retry of the event do not touch it.               *)
LEMMA OutsideAcks ==
    ASSUME TypeInv, TypeInv', AckInv, Outside PROVE AckInv'
<1>1. UNCHANGED <<failedACK, retryACK, confirmed, threads>>
  BY DEF Outside, Reset, SubCheck, SubSend, SubFailed, EventCheck, EventExpiry,
         EventPrint, EventPublish, EventClear, slots, others
<1>2. pc \notin AckPC /\ pc' \notin AckPC
  BY DEF Outside, Reset, SubCheck, SubSend, SubFailed, EventCheck, EventExpiry,
         EventPrint, EventPublish, EventClear, SubscribeNext, Goto, AckPC,
         Retrying
<1>3. deliverMessage \/ UNCHANGED kind
  BY PublishDelivers
     DEF Outside, Reset, SubCheck, SubSend, SubFailed, EventCheck, EventExpiry,
         EventPrint, EventPublish, EventClear, others
<1> QED BY <1>1, <1>2, <1>3, AppFrame

(* The retry keeps the invariant: it takes the acknowledgement that is in  *)
(* the slot, which nobody else can confirm any more.                       *)
LEMMA RetryAcks ==
    ASSUME TypeInv, TypeInv', AckInv,
           AckCheck \/ AckPrint \/ AckTopic \/ AckPublish \/ AckClear
    PROVE  AckInv'
<1> USE DEF AckInv
<1>1. CASE AckCheck
  BY <1>1 DEF AckCheck, Goto, slots, locals, others, threads, Retrying,
       RetriedAckPresent, ConfirmedAckNotPending, ResentOnItsTopic, OnePlace,
       Received, SlotTopic, RetryInv
<1>2. CASE AckPrint
  <2>1. payload' = failedACK.ackPayload /\ retryACK
    BY <1>2 DEF AckPrint, Goto, RetriedAckPresent
  <2> QED
    BY <1>2, <2>1
       DEF AckPrint, Goto, slots, others, threads, Retrying,
         RetriedAckPresent, ConfirmedAckNotPending, ResentOnItsTopic, OnePlace,
         Received, SlotTopic, RetryInv
<1>3. CASE AckTopic
  BY <1>3 DEF AckTopic, Goto, slots, others, threads, Retrying,
       RetriedAckPresent, ConfirmedAckNotPending, ResentOnItsTopic, OnePlace,
       Received, SlotTopic, RetryInv
<1>4. CASE AckPublish
  <2>1. KindKept
    BY <1>4, PublishDelivers, DeliverKeepsKind DEF AckPublish
  <2>2. UNCHANGED <<failedACK, retryACK, payload, topic, thread>>
    BY <1>4 DEF AckPublish, slots, locals, threads
  <2>3. ThreadsAdvance
    BY <2>1, <2>2 DEF ThreadsAdvance, KindKept, Received
  <2>4. pc = "ack_publish" /\ payload \in Messages
    BY <1>4 DEF AckPublish, Goto, TypeInv, LocalsOK
  <2>5. thread[payload] = "done" /\ payload \notin confirmed /\ retryACK
    BY <2>4 DEF OnePlace, RetryInv, Retrying, RetriedAckPresent
  <2>6. \/ pc' = "ack_clear" /\ confirmed' = confirmed \union {payload}
        \/ pc' = "event_check" /\ UNCHANGED confirmed
    BY <1>4 DEF AckPublish, Goto
  <2>7. SlotTopic'
    <3>1. failedACK.ackPayload \in Messages
      BY <2>5 DEF RetriedAckPresent, TypeInv, TypeOK, SlotTypeOK
    <3>2. kind[failedACK.ackPayload] # NULL
      BY <3>1 DEF OnePlace, Received
    <3> QED BY <2>1, <2>2, <3>1, <3>2 DEF KindKept, SlotTopic
  <2>8. OnePlace' /\ Received'
    BY <2>2, <2>3, <2>4, <2>5, <2>6
       DEF OnePlace, Received, ThreadsAdvance, Retrying
  <2>9. /\ RetriedAckPresent' /\ ConfirmedAckNotPending'
        /\ ResentOnItsTopic' /\ RetryInv'
    BY <2>2, <2>4, <2>5, <2>6
       DEF RetriedAckPresent, ConfirmedAckNotPending, ResentOnItsTopic,
           RetryInv
  <2> QED BY <2>7, <2>8, <2>9
<1>5. CASE AckClear
  <2>1. /\ failedACK'.ackPayload = NULL /\ ~retryACK' /\ pc' = "event_check"
        /\ UNCHANGED <<confirmed, thread, kind, payload, topic>>
    BY <1>5 DEF AckClear, Goto, others, locals, threads, TypeInv, TypeOK,
         SlotTypeOK
  <2>2. OnePlace'
    BY <2>1, MessagesAssumption DEF OnePlace, Retrying
  <2> QED
    BY <2>1, <2>2
       DEF RetriedAckPresent, ConfirmedAckNotPending, ResentOnItsTopic,
           Received, SlotTopic, RetryInv
<1> QED BY <1>1, <1>2, <1>3, <1>4, <1>5

-----------------------------------------------------------------------------
(* The message threads.  A thread stores or confirms only its own          *)
(* acknowledgement, and only before it is done.                            *)
LEMMA ThreadAcks ==
    ASSUME TypeInv, TypeInv', AckInv, NEW m \in Messages, Thread(m)
    PROVE  AckInv'
<1> USE DEF AckInv
<1>1. UNCHANGED <<pc, payload, topic>>
  BY DEF Thread, StartMessage, PublishReceived, PublishAck, CheckConnected,
         MarkDisconnected, StoreAck, client, locals
<1>2. KindKept
  <2>1. deliverMessage \/ UNCHANGED kind
    BY PublishDelivers
       DEF Thread, StartMessage, PublishReceived, PublishAck, CheckConnected,
           MarkDisconnected, StoreAck
  <2> QED BY <2>1, DeliverKeepsKind
<1>3. CASE StartMessage(m)
  <2>1. ThreadsAdvance /\ UNCHANGED <<failedACK, retryACK, confirmed>>
    BY <1>3 DEF StartMessage, slots, ThreadsAdvance, Received, TypeInv, TypeOK,
         ThreadTypeOK
  <2> QED BY <1>1, <1>2, <2>1, AckFrame
<1>4. CASE PublishReceived(m)
  <2>1. ThreadsAdvance /\ UNCHANGED <<failedACK, retryACK, confirmed>>
    BY <1>2, <1>4 DEF PublishReceived, slots, ThreadsAdvance, Received,
         KindKept
  <2> QED BY <1>1, <1>2, <2>1, AckFrame
<1>5. CASE CheckConnected(m) \/ MarkDisconnected(m)
  <2>1. ThreadsAdvance /\ UNCHANGED <<failedACK, retryACK, confirmed>>
    BY <1>5 DEF CheckConnected, MarkDisconnected, At, slots, ThreadsAdvance,
         Received, TypeInv, TypeOK, ThreadTypeOK
  <2> QED BY <1>1, <1>2, <2>1, AckFrame
<1>6. CASE PublishAck(m)
  <2>1. /\ thread[m] = "publish" /\ kind[m] # NULL
        /\ ThreadsAdvance /\ UNCHANGED <<failedACK, retryACK>>
    BY <1>2, <1>6 DEF PublishAck, At, slots, ThreadsAdvance, Received,
         KindKept, TypeInv, TypeOK, ThreadTypeOK
  <2>2. CASE UNCHANGED confirmed
    BY <1>1, <1>2, <2>1, <2>2, AckFrame
  <2>3. CASE confirmed' = confirmed \union {m} /\ thread'[m] = "done"
    <3>1. m # failedACK.ackPayload /\ (pc \in Retrying => payload # m)
      BY <2>1 DEF OnePlace
    <3>2. OnePlace' /\ Received'
      BY <1>1, <2>1, <2>3 DEF OnePlace, Received, ThreadsAdvance, Retrying
    <3>3. SlotTopic'
      <4>1. CASE ~retryACK
        BY <2>1, <4>1 DEF SlotTopic
      <4>2. CASE retryACK
        <5>1. failedACK.ackPayload \in Messages
          BY <4>2 DEF RetriedAckPresent, TypeInv, TypeOK, SlotTypeOK
        <5>2. kind[failedACK.ackPayload] # NULL
          BY <5>1 DEF OnePlace, Received
        <5> QED BY <1>2, <2>1, <4>2, <5>1, <5>2 DEF KindKept, SlotTopic
      <4> QED BY <4>1, <4>2
    <3>4. ResentOnItsTopic'
      <4>1. CASE pc # "ack_publish"
        BY <1>1, <4>1 DEF ResentOnItsTopic
      <4>2. CASE pc = "ack_publish"
        <5>1. payload \in Messages /\ kind[payload] # NULL
          BY <4>2 DEF TypeInv, LocalsOK, OnePlace, Received, Retrying
        <5> QED BY <1>1, <1>2, <2>1, <5>1 DEF KindKept, ResentOnItsTopic
      <4> QED BY <4>1, <4>2
    <3>5. /\ RetriedAckPresent' /\ ConfirmedAckNotPending' /\ RetryInv'
      BY <1>1, <2>1, <2>3, <3>1
         DEF RetriedAckPresent, ConfirmedAckNotPending, RetryInv, Retrying
    <3> QED BY <3>2, <3>3, <3>4, <3>5
  <2>4. \/ UNCHANGED confirmed
        \/ confirmed' = confirmed \union {m} /\ thread'[m] = "done"
    BY <1>6 DEF PublishAck, At, TypeInv, TypeOK, ThreadTypeOK
  <2> QED BY <2>2, <2>3, <2>4
<1>7. CASE StoreAck(m)
  <2>1. /\ thread[m] = "store" /\ UNCHANGED <<confirmed, kind>>
        /\ failedACK' = [ackPayload |-> m, topic |-> kind[m]] /\ retryACK'
        /\ thread' = [thread EXCEPT ![m] = "done"]
    BY <1>7 DEF StoreAck, At
  <2>2. m \notin confirmed /\ (pc \in Retrying => payload # m) /\ m # NULL
    BY <2>1, MessagesAssumption DEF OnePlace
  <2>3. OnePlace' /\ Received'
    BY <1>1, <2>1, <2>2 DEF OnePlace, Received, Retrying, TypeInv, TypeOK,
         ThreadTypeOK
  <2> QED
    BY <1>1, <2>1, <2>2, <2>3
       DEF RetriedAckPresent, ConfirmedAckNotPending, ResentOnItsTopic,
           SlotTopic, RetryInv, Retrying
<1> QED BY <1>3, <1>4, <1>5, <1>6, <1>7 DEF Thread

(* The invariant of the slot, for every behaviour.                         *)
LEMMA AckInvariant == Spec => [](TypeInv /\ AckInv)
<1>1. Init => TypeInv /\ AckInv
  <2>1. Init => AckInv
    BY MessagesAssumption
       DEF Init, AckInv, RetriedAckPresent, ConfirmedAckNotPending,
         ResentOnItsTopic, OnePlace, Received, SlotTopic, RetryInv, Retrying
  <2> QED BY <2>1, InitTypes
<1>2. TypeInv /\ AckInv /\ [Next]_vars => (TypeInv /\ AckInv)'
  <2> SUFFICES ASSUME TypeInv, AckInv, [Next]_vars PROVE TypeInv' /\ AckInv'
    OBVIOUS
  <2>1. TypeInv'
    BY TypeStep
  <2>2. CASE LinkDown \/ UNCHANGED vars
    <3>1. /\ UNCHANGED <<failedACK, retryACK, confirmed, kind, threads>>
          /\ UNCHANGED <<pc, payload, topic>>
      BY <2>2 DEF LinkDown, vars, slots, locals
    <3>2. KindKept /\ ThreadsAdvance
      BY <3>1 DEF KindKept, ThreadsAdvance, threads, AckInv, Received
    <3> QED BY <2>1, <3>1, <3>2, AckFrame
  <2> QED
    BY <2>1, <2>2, ConnectAcks, SendAcks, CallAcks, OutsideAcks, RetryAcks,
       ThreadAcks
       DEF Next, InCall, ResumeStep, Outside
<1> QED BY <1>1, <1>2, PTL DEF Spec

(* From the test of retryACK on, zclient_reconnect finds an                *)
(* acknowledgement in the slot.                                            *)
THEOREM RetryHasAck == Spec => []RetriedAckPresent
<1>1. AckInv => RetriedAckPresent
  BY DEF AckInv
<1> QED BY <1>1, AckInvariant, PTL

(* A confirmed acknowledgement is not kept for another resend.             *)
THEOREM ConfirmedNotKept == Spec => []ConfirmedAckNotPending
<1>1. AckInv => ConfirmedAckNotPending
  BY DEF AckInv
<1> QED BY <1>1, AckInvariant, PTL

(* An acknowledgement that is still in the slot is resent on its own topic.*)
THEOREM ResentTopic == Spec => []ResentOnItsTopic
<1>1. AckInv => ResentOnItsTopic
  BY DEF AckInv
<1> QED BY <1>1, AckInvariant, PTL

-----------------------------------------------------------------------------
(* Refinement.  What AckContract calls received.                           *)
Arrived == {m \in Messages : kind[m] # NULL}

(* A delivery is a Receive of AckContract.                                 *)
LEMMA DeliveryIsReceive ==
    ASSUME TypeInv, deliverMessage \/ UNCHANGED kind
    PROVE  \/ UNCHANGED Arrived
           \/ \E m \in Messages : m \notin Arrived
                                  /\ Arrived' = Arrived \union {m}
<1>1. CASE UNCHANGED kind
  BY <1>1 DEF Arrived
<1>2. CASE \E m \in Messages, t \in messageHandlers :
              kind[m] = NULL /\ kind' = [kind EXCEPT ![m] = t]
  <2>1. PICK m \in Messages, t \in messageHandlers :
           kind[m] = NULL /\ kind' = [kind EXCEPT ![m] = t]
    BY <1>2
  <2>2. t # NULL /\ m \notin Arrived
    BY <2>1, MessagesAssumption
       DEF Arrived, TypeInv, TypeOK, NetTypeOK, Topics
  <2>3. Arrived' = Arrived \union {m}
    BY <2>1, <2>2 DEF Arrived, TypeInv, TypeOK, NetTypeOK
  <2> QED BY <2>2, <2>3
<1> QED BY <1>1, <1>2 DEF deliverMessage

(* Every step delivers at most one message.                                *)
LEMMA EveryStepDelivers ==
    ASSUME [Next]_vars PROVE deliverMessage \/ UNCHANGED kind
<1>1. CASE ConnectStep
  BY <1>1 DEF ConnectStep, Teardown, NetConnect, MqttInit, MqttConnect,
         SetConnected, NetDisconnect, others
<1>2. CASE ResumeStep
  BY <1>2, PublishDelivers
     DEF ResumeStep, Reset, SubCheck, SubSend, SubFailed, AckCheck, AckPrint,
         AckTopic, AckPublish, AckClear, EventCheck, EventExpiry, EventPrint,
         EventPublish, EventClear, others
<1>3. CASE SendStep
  BY <1>3, PublishDelivers
     DEF SendStep, PubSend, PubFailed, EvtSend, EvtFailed, EvtStore, Yield,
         YieldFailed, DisMqtt, DisNet, DisSet, LostConnection, others
<1>4. CASE Call
  BY <1>4 DEF Call, CallConnect, CallReconnect, CallPublish, CallYield,
         CallDisconnect, CallSubscribe, CallDispatchEvent, others
<1>5. ASSUME NEW m \in Messages, Thread(m)
      PROVE  deliverMessage \/ UNCHANGED kind
  BY <1>5, PublishDelivers
     DEF Thread, StartMessage, PublishReceived, PublishAck, CheckConnected,
         MarkDisconnected, StoreAck
<1>6. CASE LinkDown \/ UNCHANGED vars
  BY <1>6 DEF LinkDown, vars
<1> QED BY <1>1, <1>2, <1>3, <1>4, <1>5, <1>6 DEF Next, InCall

(* What a step does to confirmations and slot, in the terms of AckContract.*)
LEMMA EveryStepAcks ==
    ASSUME TypeInv, AckInv, [Next]_vars
    PROVE  \/ UNCHANGED <<confirmed, failedACK>>
           \/ \E m \in Arrived \ confirmed :
                 \/ confirmed' = confirmed \union {m} /\ UNCHANGED failedACK
                 \/ failedACK'.ackPayload = m /\ UNCHANGED confirmed
           \/ /\ failedACK.ackPayload # NULL /\ confirmed # {}
              /\ failedACK'.ackPayload = NULL /\ UNCHANGED confirmed
<1>1. CASE ConnectStep
  BY <1>1 DEF ConnectStep, Teardown, NetConnect, MqttInit, MqttConnect,
         SetConnected, NetDisconnect, slots, others
<1>2. CASE Outside \/ AckCheck \/ AckPrint \/ AckTopic
  BY <1>2
     DEF Outside, Reset, SubCheck, SubSend, SubFailed, AckCheck, AckPrint,
         AckTopic, EventCheck, EventExpiry, EventPrint, EventPublish,
         EventClear, slots, others
<1>3. CASE AckPublish
  <2>1. payload \in Messages /\ payload \notin confirmed
    BY <1>3 DEF AckPublish, Goto, TypeInv, LocalsOK, AckInv, RetryInv
  <2>2. payload \in Arrived
    BY <1>3, <2>1 DEF AckPublish, Goto, Arrived, AckInv, OnePlace, Received,
         Retrying
  <2> QED BY <1>3, <2>1, <2>2 DEF AckPublish, slots
<1>4. CASE AckClear
  BY <1>4 DEF AckClear, Goto, others, AckInv, RetryInv, RetriedAckPresent,
         TypeInv, TypeOK, SlotTypeOK
<1>5. CASE SendStep
  BY <1>5
     DEF SendStep, PubSend, PubFailed, EvtSend, EvtFailed, EvtStore, Yield,
         YieldFailed, DisMqtt, DisNet, DisSet, LostConnection, slots, others
<1>6. CASE Call
  BY <1>6 DEF Call, CallConnect, CallReconnect, CallPublish, CallYield,
         CallDisconnect, CallSubscribe, CallDispatchEvent, slots, others
<1>7. CASE \E m \in Messages : Thread(m)
  <2>1. PICK m \in Messages : Thread(m)
    BY <1>7
  <2>2. CASE StartMessage(m) \/ PublishReceived(m) \/ CheckConnected(m)
               \/ MarkDisconnected(m)
    BY <2>2 DEF StartMessage, PublishReceived, CheckConnected,
         MarkDisconnected, slots
  <2>3. CASE PublishAck(m)
    <3>1. m \in Arrived \ confirmed
      BY <2>3 DEF PublishAck, At, AckInv, OnePlace, Received, Arrived
    <3> QED BY <2>3, <3>1 DEF PublishAck, slots
  <2>4. CASE StoreAck(m)
    <3>1. m \in Arrived \ confirmed
      BY <2>4 DEF StoreAck, At, AckInv, OnePlace, Received, Arrived
    <3>2. failedACK'.ackPayload = m /\ UNCHANGED confirmed
      BY <2>4 DEF StoreAck
    <3> QED BY <3>1, <3>2
  <2> QED BY <2>1, <2>2, <2>3, <2>4 DEF Thread
<1>8. CASE LinkDown \/ UNCHANGED vars
  BY <1>8 DEF LinkDown, vars, slots
<1> QED
  BY <1>1, <1>2, <1>3, <1>4, <1>5, <1>6, <1>7, <1>8
     DEF Next, InCall, ResumeStep, Outside

(* ClientSession implements AckContract: whatever the interleaving of the  *)
(* application's calls, the message threads and the network's failures, an *)
(* acknowledgement is confirmed at most once and only for a message that   *)
(* was received, and a confirmed one is not stored again.                  *)
THEOREM ImplementsAckContract == Spec => AckContractKept
<1>1. Init => Contract!Init
  BY MessagesAssumption DEF Init, Contract!Init
<1>2. TypeInv /\ AckInv /\ [Next]_vars
        => [Contract!Next]_(Contract!cvars)
  <2> SUFFICES ASSUME TypeInv, AckInv, [Next]_vars
               PROVE  Contract!Next
    OBVIOUS
  <2>1. \/ UNCHANGED Arrived
        \/ \E m \in Messages : Contract!Receive(m)
    BY EveryStepDelivers, DeliveryIsReceive DEF Contract!Receive, Arrived
  <2>2. \/ UNCHANGED <<confirmed, failedACK.ackPayload>>
        \/ \E m \in Messages : Contract!Acknowledge(m) \/ Contract!Keep(m)
        \/ Contract!Discard
    BY EveryStepAcks
       DEF Contract!Acknowledge, Contract!Keep, Contract!Discard, Arrived
  <2> QED BY <2>1, <2>2 DEF Contract!Next, Arrived
<1> QED BY <1>1, <1>2, AckInvariant, PTL DEF Spec, AckContractKept,
                                             Contract!Spec
=============================================================================
