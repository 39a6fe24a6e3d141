---------------------------- MODULE MqttSession ----------------------------
(***************************************************************************)
(* The part of the embedded Paho client (struct MQTTClient) the SDK relies *)
(* on: whether the MQTT session is open, which topic filters have a        *)
(* message handler, and the transport underneath.  Each operator is the    *)
(* effect of one library call; the SDK makes every one of these calls      *)
(* while it holds client->lock, so a call is one atomic step.              *)
(*                                                                         *)
(* Abstracted: packets, packet ids and timers.  A call that waits for an   *)
(* answer either gets it (..Ok) or fails (..Fail); the specification that  *)
(* uses the operator says when a failure may happen.  The handler table    *)
(* (MAX_MESSAGE_HANDLERS = 5 slots) is a set: the SDK uses two filters, so *)
(* it never fills up.                                                      *)
(***************************************************************************)
VARIABLES
    isconnected,      \* c->isconnected: the MQTT session is open
    messageHandlers,  \* topics whose filter is in c->messageHandlers
    cleansession,     \* c->cleansession
    link              \* c->ipstack: "down", "tcp" before CONNECT, "up" after

session == <<isconnected, messageHandlers, cleansession>>

MQTTClientInit ==
    /\ isconnected' = FALSE
    /\ messageHandlers' = {}
    /\ cleansession' = FALSE

(* MQTTConnect with the cleansession = 1 that zclient_connect asks for.    *)
MQTTConnectOk ==
    /\ ~isconnected
    /\ link = "tcp"
    /\ link' = "up"
    /\ isconnected' = TRUE
    /\ cleansession' = TRUE
    /\ UNCHANGED messageHandlers

MQTTConnectFail ==
    /\ cleansession' = IF isconnected THEN cleansession ELSE TRUE
    /\ UNCHANGED <<isconnected, messageHandlers>>

(* Mutant of MQTTCloseSession: the handler table survives.                 *)
MutCloseSession ==
    /\ isconnected' = FALSE
    /\ UNCHANGED <<messageHandlers, cleansession>>

(* A closed clean session forgets its subscriptions.                       *)
MQTTCloseSession ==
    /\ isconnected' = FALSE
    /\ messageHandlers' = IF cleansession THEN {} ELSE messageHandlers
    /\ UNCHANGED cleansession

(* A packet of a type that cycle() does not know closes the session, yet   *)
(* waitfor and MQTTYield go on reading: a subscription whose SUBACK comes  *)
(* behind such a packet gets its handler in a closed session.              *)
MQTTSubscribeOk(t) ==
    /\ isconnected
    /\ link = "up"
    /\ \/ /\ messageHandlers' = messageHandlers \union {t}
          /\ UNCHANGED isconnected
       \/ /\ messageHandlers' = (IF cleansession THEN {} ELSE messageHandlers) \union {t}
          /\ isconnected' = FALSE
    /\ UNCHANGED cleansession

(* Publishing at QoS 1 succeeds when the PUBACK arrives, and so behind a   *)
(* packet that has closed the session.                                     *)
MQTTPublishOk ==
    /\ isconnected
    /\ link = "up"
    /\ UNCHANGED session \/ MQTTCloseSession

(* MQTTYield succeeds when nothing comes, and whatever packet comes.       *)
MQTTYieldOk ==
    UNCHANGED session \/ (isconnected /\ link = "up" /\ MQTTCloseSession)

(* cycle() closes the session only when it is still open.                  *)
MQTTYieldFail ==
    IF isconnected THEN MQTTCloseSession ELSE UNCHANGED session
=============================================================================
