-------------------------- MODULE MqttWire_proofs --------------------------
(***************************************************************************)
(* Proofs about MqttWire, for any number of publishes, any keepalive and   *)
(* time-outs, any largest packet id, and any number of faults, commands    *)
(* and connections.                                                        *)
(***************************************************************************)
EXTENDS MqttWire, TLAPS

(* The silent session: only a cycle that leaves a ping outstanding can end *)
(* well after last_received has expired.                                   *)
SilentInv ==
    silent # 0 => /\ silent = 1
                  /\ client.isconnected
                  /\ client.ping_outstanding
                  /\ client.last_received = 0

(* The positions of a stream that hold a publish or its acknowledgement.   *)
Publishes(s) == {i \in DOMAIN s : s[i].type = "PUBLISH"}
Pubacks(s) == {i \in DOMAIN s : s[i].type = "PUBACK"}

(* One call is in progress, of one message.                                *)
OneCall ==
    /\ \A m \in Messages : result[m] = "calling" => call.op = "publish"
    /\ \A m, k \in Messages :
          result[m] = "calling" /\ result[k] = "calling" => m = k

(* A publish is in one place at most, none before its call, none after it  *)
(* was accepted.                                                           *)
OnePlace ==
    /\ \A m \in Messages : result[m] = "new" => accepted[m] = 0 /\ m \notin late
    /\ \A m \in late : accepted[m] = 0
    /\ \A i \in Publishes(toServer) :
          /\ result[toServer[i].msg] # "new"
          /\ accepted[toServer[i].msg] = 0
          /\ toServer[i].msg \notin late
    /\ \A i, j \in Publishes(toServer) :
          toServer[i].msg = toServer[j].msg => i = j

(* On an open stream in step, all that is under way is the publish of the  *)
(* call in progress or its acknowledgement, once.                          *)
InStep == ~garbled /\ (client.isconnected \/ call.op = "connect")
OwnPublish(i) == /\ call.op = "publish"
                 /\ toServer[i].id = call.id
                 /\ result[toServer[i].msg] = "calling"
                 /\ Pubacks(toClient) = {}
OwnPuback(i) == /\ call.op = "publish"
                /\ toClient[i].id = call.id
                /\ \A m \in Messages : result[m] = "calling" => accepted[m] > 0
Stream ==
    InStep => /\ \A i \in Publishes(toServer) : OwnPublish(i)
              /\ \A i \in Pubacks(toClient) : OwnPuback(i)
              /\ \A i, j \in Publishes(toServer) : i = j
              /\ \A i, j \in Pubacks(toClient) : i = j

WireInv == TypeOK /\ SilentInv /\ OneCall /\ OnePlace /\ Stream

-----------------------------------------------------------------------------
(* Streams.                                                                *)

(* A stream u that has the same publishes as s at the same places.         *)
Quiet(s, u) == /\ u \in Seq(ServerPackets)
               /\ Publishes(u) = Publishes(s)
               /\ \A i \in Publishes(s) : u[i] = s[i]

(* Appending a packet that is no publish is quiet.                         *)
LEMMA QuietAppend ==
    ASSUME NEW s \in Seq(ServerPackets), NEW p \in ServerPackets,
           p.type # "PUBLISH"
    PROVE  Quiet(s, Append(s, p))
<1> DEFINE u == Append(s, p)
<1>1. /\ u \in Seq(ServerPackets)
      /\ DOMAIN s = 1..Len(s) /\ Len(s) \in Nat
      /\ DOMAIN u = 1..(Len(s) + 1)
      /\ \A i \in 1..Len(s) : u[i] = s[i]
      /\ u[Len(s) + 1] = p
  OBVIOUS
<1> HIDE DEF u
<1>2. Publishes(u) = Publishes(s)
  BY <1>1 DEF Publishes
<1>3. \A i \in Publishes(s) : u[i] = s[i]
  BY <1>1 DEF Publishes
<1> QED BY <1>1, <1>2, <1>3 DEF Quiet, u

(* Quiet changes add up.                                                   *)
LEMMA QuietTransitive ==
    ASSUME NEW s, NEW t, NEW u, Quiet(s, t), Quiet(t, u)
    PROVE  Quiet(s, u)
BY DEF Quiet

(* No change is a quiet one.                                               *)
LEMMA QuietSame == \A s \in Seq(ServerPackets) : Quiet(s, s)
BY DEF Quiet

(* Tails of a stream: the positions move down by one.                      *)
LEMMA TailPositions ==
    ASSUME NEW S, NEW s \in Seq(S), s # <<>>
    PROVE  /\ Head(s) = s[1] /\ 1 \in DOMAIN s /\ Head(s) \in S
           /\ Tail(s) \in Seq(S)
           /\ DOMAIN s \subseteq Nat /\ DOMAIN Tail(s) \subseteq Nat
           /\ \A i \in DOMAIN Tail(s) : /\ i + 1 \in DOMAIN s
                                        /\ Tail(s)[i] = s[i + 1]
OBVIOUS

(* Appending to a stream adds one position.                                *)
LEMMA AppendPositions ==
    ASSUME NEW S, NEW s \in Seq(S), NEW p \in S
    PROVE  /\ Append(s, p) \in Seq(S)
           /\ DOMAIN Append(s, p) = DOMAIN s \cup {Len(s) + 1}
           /\ Len(s) + 1 \notin DOMAIN s
           /\ \A i \in DOMAIN s : Append(s, p)[i] = s[i]
           /\ Append(s, p)[Len(s) + 1] = p
OBVIOUS

(* A publish on its way carries one of the messages, other packets none.   *)
LEMMA PacketMessage ==
    \A p \in ServerPackets : /\ p.type = "PUBLISH" => p.msg \in Messages
                             /\ p.type # "PUBLISH" => p.msg = NoMessage
BY DEF ServerPackets

(* So does every publish of a stream.                                      *)
LEMMA PublishMessage ==
    ASSUME NEW s \in Seq(ServerPackets), NEW i \in Publishes(s)
    PROVE  s[i] \in ServerPackets /\ s[i].msg \in Messages
<1>1. s[i] \in ServerPackets /\ s[i].type = "PUBLISH"
  BY DEF Publishes
<1> QED BY <1>1, PacketMessage

(* The packets that the client makes.                                      *)
LEMMA PacketTypes ==
    /\ \A t \in {"CONNECT", "SUBSCRIBE", "PUBACK", "PINGREQ", "DISCONNECT"} :
          Packet(t) \in ServerPackets /\ Packet(t).type = t
    /\ \A t \in AckTypes \cup {"PUBLISH", "error"} :
          Packet(t) \in ClientPackets /\ Packet(t).type = t
BY WireAssumption DEF Packet, ServerPackets, ClientPackets, PacketIds

-----------------------------------------------------------------------------
(* Sending and the cycle.                                                  *)

(* What sendPacket leaves alone: all of the client but last_sent, and the  *)
(* stream but for the packet.                                              *)
LEMMA SendOutcome ==
    ASSUME NEW c \in ClientType, NEW out, NEW p, NEW s \in sendPacket(c, out, p)
    PROVE  /\ s.c \in ClientType
           /\ s.c.isconnected = c.isconnected
           /\ s.c.ping_outstanding = c.ping_outstanding
           /\ s.c.last_received = c.last_received
           /\ s.out = out \/ s.out = Append(out, p)
           /\ s.ok \in BOOLEAN
<1>1. PICK k \in {"short", "whole", "over"} :
        s = [c   |-> IF k = "whole" THEN [c EXCEPT !.last_sent = KeepAlive] ELSE c,
             out |-> IF k # "short" /\ link = "up" THEN Append(out, p) ELSE out,
             ok  |-> k = "whole"]
  BY DEF sendPacket
<1>2. /\ s.c = c \/ s.c = [c EXCEPT !.last_sent = KeepAlive]
      /\ s.out = out \/ s.out = Append(out, p)
      /\ s.ok \in BOOLEAN
  BY <1>1
<1> QED BY <1>2, WireAssumption DEF ClientType

(* What a cycle works on.                                                  *)
ReadTypes == AckTypes \cup {"PUBLISH", "none", "other", "error"}
WorkType == [c : ClientType, out : Seq(ServerPackets),
             rc : ReadTypes \cup {"FAILURE"}, timer : CallTimes]

(* keepalive: what it returns without FAILURE has a timer running or a new *)
(* ping outstanding.                                                       *)
LEMMA KeepaliveOutcome ==
    ASSUME NEW w \in WorkType, NEW v \in keepalive(w)
    PROVE  /\ v \in WorkType
           /\ v.c.isconnected = w.c.isconnected
           /\ v.c.last_received = w.c.last_received
           /\ Quiet(w.out, v.out)
           /\ v.timer = w.timer
           /\ v.rc \in {w.rc, "FAILURE"}
           /\ v.rc # "FAILURE" /\ v.c.last_received = 0
                 => v.c.ping_outstanding /\ ~w.c.ping_outstanding
<1>0. w.c \in ClientType /\ w.out \in Seq(ServerPackets)
  BY DEF WorkType
<1>1. CASE w.c.last_sent > 0 /\ w.c.last_received > 0
  <2>1. v = w
    BY <1>1 DEF keepalive
  <2> QED BY <1>0, <1>1, <2>1, QuietSame
<1>2. CASE ~(w.c.last_sent > 0 /\ w.c.last_received > 0) /\ w.c.ping_outstanding
  <2>1. v = [w EXCEPT !.rc = "FAILURE"]
    BY <1>2 DEF keepalive
  <2>2. /\ v \in WorkType /\ v.c = w.c /\ v.out = w.out /\ v.timer = w.timer
        /\ v.rc = "FAILURE"
    BY <2>1 DEF WorkType
  <2> QED BY <1>0, <2>2, QuietSame
<1>3. CASE ~(w.c.last_sent > 0 /\ w.c.last_received > 0) /\ ~w.c.ping_outstanding
  <2>1. PICK s \in sendPacket(w.c, w.out, Packet("PINGREQ")) :
          v = [w EXCEPT !.c = [s.c EXCEPT !.ping_outstanding = s.ok],
                        !.out = s.out, !.rc = IF s.ok THEN @ ELSE "FAILURE"]
    BY <1>3 DEF keepalive
  <2>2. /\ s.c \in ClientType
        /\ s.c.isconnected = w.c.isconnected
        /\ s.c.last_received = w.c.last_received
        /\ s.out = w.out \/ s.out = Append(w.out, Packet("PINGREQ"))
        /\ s.ok \in BOOLEAN
    BY <1>0, <2>1, SendOutcome
  <2>3. Quiet(w.out, s.out)
    BY <1>0, <2>2, QuietSame, QuietAppend, PacketTypes
  <2> DEFINE d == [s.c EXCEPT !.ping_outstanding = s.ok]
  <2>4. /\ d \in ClientType /\ d.isconnected = w.c.isconnected
        /\ d.last_received = w.c.last_received /\ d.ping_outstanding = s.ok
    BY <2>2 DEF ClientType
  <2> HIDE DEF d
  <2>5. /\ v.c = d /\ v.out = s.out /\ v.timer = w.timer
        /\ v.rc = IF s.ok THEN w.rc ELSE "FAILURE"
    BY <2>1 DEF WorkType, d
  <2>6. v = [c |-> d, out |-> s.out, rc |-> v.rc, timer |-> w.timer]
    BY <2>1, <2>5 DEF WorkType, d
  <2>7. v \in WorkType
    BY <2>3, <2>4, <2>5, <2>6 DEF WorkType, Quiet
  <2> QED BY <1>3, <2>3, <2>4, <2>5, <2>7
<1> QED BY <1>1, <1>2, <1>3

(* The records of a cycle, field by field.                                 *)
LEMMA AnsweredRecord ==
    ASSUME NEW w \in WorkType, NEW a, a = [w EXCEPT !.c.ping_outstanding = FALSE]
    PROVE  a = [c |-> [w.c EXCEPT !.ping_outstanding = FALSE], out |-> w.out,
                rc |-> w.rc, timer |-> w.timer]
BY DEF WorkType

(* The same for the acknowledgement of a message.                          *)
LEMMA AcknowledgedRecord ==
    ASSUME NEW w \in WorkType, NEW s, NEW a,
           a = [w EXCEPT !.c = s.c, !.out = s.out,
                         !.timer = IF @ = 0 THEN PubackTime ELSE @]
    PROVE  a = [c |-> s.c, out |-> s.out, rc |-> w.rc,
                timer |-> IF w.timer = 0 THEN PubackTime ELSE w.timer]
BY DEF WorkType

(* Acknowledging a message opens no session and sends no publish.          *)
LEMMA AcknowledgeOutcome ==
    ASSUME NEW w \in WorkType, NEW v \in Acknowledge(w)
    PROVE  /\ v \in WorkType
           /\ v.c.isconnected = w.c.isconnected
           /\ v.c.last_received = w.c.last_received
           /\ Quiet(w.out, v.out)
           /\ v.rc \in {w.rc, "FAILURE"}
<1>0. PICK s \in sendPacket(w.c, w.out, Packet("PUBACK")) : \E a :
         /\ a = [w EXCEPT !.c = s.c, !.out = s.out,
                          !.timer = IF @ = 0 THEN PubackTime ELSE @]
         /\ v \in IF s.ok THEN keepalive(a) ELSE {[a EXCEPT !.rc = "FAILURE"]}
  BY DEF Acknowledge
<1>1. PICK a :
         /\ a = [w EXCEPT !.c = s.c, !.out = s.out,
                          !.timer = IF @ = 0 THEN PubackTime ELSE @]
         /\ v \in IF s.ok THEN keepalive(a) ELSE {[a EXCEPT !.rc = "FAILURE"]}
  BY <1>0
<1>2. /\ w.c \in ClientType /\ w.out \in Seq(ServerPackets)
      /\ w.rc \in ReadTypes \cup {"FAILURE"} /\ w.timer \in CallTimes
  BY DEF WorkType
<1>3. /\ s.c \in ClientType
      /\ s.c.isconnected = w.c.isconnected
      /\ s.c.last_received = w.c.last_received
      /\ s.out = w.out \/ s.out = Append(w.out, Packet("PUBACK"))
  BY <1>1, <1>2, SendOutcome
<1>4. Quiet(w.out, s.out)
  BY <1>2, <1>3, QuietSame, QuietAppend, PacketTypes
<1>5. s.out \in Seq(ServerPackets)
  BY <1>4 DEF Quiet
<1>6. a = [c |-> s.c, out |-> s.out, rc |-> w.rc,
           timer |-> IF w.timer = 0 THEN PubackTime ELSE w.timer]
  BY <1>1, AcknowledgedRecord
<1>7. a.c = s.c /\ a.out = s.out /\ a.rc = w.rc /\ a \in WorkType
  <2>1. (IF w.timer = 0 THEN PubackTime ELSE w.timer) \in CallTimes
    BY <1>2, WireAssumption DEF CallTimes
  <2> QED BY <1>2, <1>3, <1>5, <1>6, <2>1 DEF WorkType
<1>8. CASE v \in keepalive(a)
  <2>1. /\ v \in WorkType
        /\ v.c.isconnected = a.c.isconnected
        /\ v.c.last_received = a.c.last_received
        /\ Quiet(a.out, v.out)
        /\ v.rc \in {a.rc, "FAILURE"}
    BY <1>7, <1>8, KeepaliveOutcome
  <2>2. Quiet(w.out, v.out)
    BY <1>4, <1>7, <2>1, QuietTransitive
  <2> QED BY <1>3, <1>7, <2>1, <2>2
<1>9. CASE v = [a EXCEPT !.rc = "FAILURE"]
  <2>1. v \in WorkType /\ v.c = a.c /\ v.out = a.out /\ v.rc = "FAILURE"
    BY <1>7, <1>9 DEF WorkType
  <2> QED BY <1>3, <1>4, <1>7, <2>1
<1> QED BY <1>1, <1>8, <1>9

(* The switch: it opens no session, sends no publish, and leaves a silent  *)
(* session only after a time-out, with a new ping outstanding.             *)
LEMMA SwitchOutcome ==
    ASSUME TypeOK, NEW t \in ReadTypes, NEW whole \in BOOLEAN,
           NEW v \in Switch(client, t, whole)
    PROVE  /\ v \in WorkType
           /\ v.c.isconnected = client.isconnected
           /\ Quiet(toServer, v.out)
           /\ v.rc \in {t, "FAILURE"}
           /\ v.rc \notin {"FAILURE", "other"} /\ v.c.last_received = 0
                 => t = "none" /\ v.c.ping_outstanding /\ ~client.ping_outstanding
<1> DEFINE c == Received(client, t)
           w == [c |-> c, out |-> toServer, rc |-> t, timer |-> call.timer]
<1>1. /\ c \in ClientType /\ c.isconnected = client.isconnected
      /\ c.ping_outstanding = client.ping_outstanding
      /\ t \notin {"none", "error"} => c.last_received = KeepAlive
  <2>1. CASE t \in {"none", "error"}
    BY <2>1 DEF Received, TypeOK
  <2>2. CASE t \notin {"none", "error"}
    <3>1. c = [client EXCEPT !.last_received = KeepAlive]
      BY <2>2 DEF Received
    <3>2. client \in ClientType
      BY DEF TypeOK
    <3> HIDE DEF c
    <3> QED BY <2>2, <3>1, <3>2, WireAssumption DEF ClientType
  <2> QED BY <2>1, <2>2
<1>2. toServer \in Seq(ServerPackets) /\ call.timer \in CallTimes
  BY DEF TypeOK, CallType
<1> HIDE DEF c
<1>3. /\ w \in WorkType /\ w.c = c /\ w.out = toServer /\ w.rc = t
      /\ w.timer = call.timer
  BY <1>1, <1>2 DEF WorkType
<1>4. Quiet(toServer, w.out)
  BY <1>2, <1>3, QuietSame
<1>5. KeepAlive > 0
  BY WireAssumption
<1>6. CASE t = "error"
  <2>1. v = [w EXCEPT !.rc = "FAILURE"]
    BY <1>6 DEF Switch, c
  <2>2. /\ v \in WorkType /\ v.c = w.c /\ v.out = w.out /\ v.rc = "FAILURE"
    BY <2>1, <1>3 DEF WorkType
  <2> QED BY <1>1, <1>3, <1>4, <2>2
<1>7. CASE t = "other"
  <2>1. v = w
    BY <1>7 DEF Switch, c
  <2> QED BY <1>1, <1>3, <1>4, <1>7, <2>1
<1>8. CASE t = "PINGRESP"
  <2>1. PICK a : /\ a = [w EXCEPT !.c.ping_outstanding = FALSE]
                 /\ v \in keepalive(a)
    BY <1>8 DEF Switch, c
  <2>2. a = [c |-> [c EXCEPT !.ping_outstanding = FALSE], out |-> toServer,
             rc |-> t, timer |-> call.timer]
    <3> HIDE DEF w
    <3> QED BY <1>3, <2>1, AnsweredRecord
  <2>3. /\ a.c \in ClientType /\ a.c.isconnected = client.isconnected
        /\ a.c.last_received = KeepAlive
    BY <1>1, <1>8, <2>2 DEF ClientType
  <2>4. a \in WorkType /\ a.out = toServer /\ a.rc = t
    BY <1>2, <2>2, <2>3 DEF WorkType
  <2>5. /\ v \in WorkType
        /\ v.c.isconnected = a.c.isconnected
        /\ v.c.last_received = a.c.last_received
        /\ Quiet(a.out, v.out)
        /\ v.rc \in {a.rc, "FAILURE"}
    BY <2>1, <2>4, KeepaliveOutcome
  <2> QED BY <1>5, <2>3, <2>4, <2>5
<1>9. CASE v \in keepalive(w) /\ t \notin {"error", "other"}
  <2>1. /\ v \in WorkType
        /\ v.c.isconnected = c.isconnected
        /\ v.c.last_received = c.last_received
        /\ Quiet(toServer, v.out)
        /\ v.rc \in {t, "FAILURE"}
        /\ v.rc # "FAILURE" /\ v.c.last_received = 0
              => v.c.ping_outstanding /\ ~c.ping_outstanding
    <3> HIDE DEF w
    <3> QED BY <1>3, <1>9, KeepaliveOutcome
  <2> QED BY <1>1, <1>5, <1>9, <2>1
<1>10. CASE t = "PUBLISH" /\ v \notin keepalive(w)
  <2>1. CASE ~whole
    <3>1. v = w
      BY <1>10, <2>1 DEF Switch, c
    <3> QED BY <1>1, <1>3, <1>4, <1>5, <1>10, <3>1
  <2>2. CASE whole
    <3>1. v \in Acknowledge(w)
      BY <1>10, <2>2 DEF Switch, c
    <3>2. /\ v \in WorkType
          /\ v.c.isconnected = c.isconnected
          /\ v.c.last_received = c.last_received
          /\ Quiet(toServer, v.out)
          /\ v.rc \in {t, "FAILURE"}
      <4> HIDE DEF w
      <4> QED BY <1>3, <3>1, AcknowledgeOutcome
    <3> QED BY <1>1, <1>5, <1>10, <3>2
  <2> QED BY <2>1, <2>2
<1>11. CASE t \in ReadTypes \ {"error", "other", "PINGRESP", "PUBLISH"}
  <2>1. v \in keepalive(w)
    BY <1>11 DEF Switch, c
  <2> QED BY <1>9, <1>11, <2>1
<1> QED BY <1>6, <1>7, <1>8, <1>9, <1>10, <1>11

(* A cycle ends the session when it fails, and otherwise as the switch.    *)
LEMMA CycleOutcome ==
    ASSUME TypeOK, NEW t \in ReadTypes, NEW whole \in BOOLEAN,
           NEW w \in cycle(t, whole)
    PROVE  /\ w \in WorkType
           /\ w.c.isconnected => client.isconnected
           /\ Quiet(toServer, w.out)
           /\ w.rc \in {t, "FAILURE"}
           /\ w.rc \in {"FAILURE", "other"} => ~w.c.isconnected
           /\ w.rc \notin {"FAILURE", "other"} /\ client.isconnected
                 => w.c.isconnected
           /\ w.rc \notin {"FAILURE", "other"} /\ w.c.last_received = 0
                 => t = "none" /\ w.c.ping_outstanding /\ ~client.ping_outstanding
<1>1. PICK v \in Switch(client, t, whole) :
         w = IF v.rc \in {"FAILURE", "other"} /\ v.c.isconnected
             THEN [v EXCEPT !.c = MQTTCloseSession(v.c)] ELSE v
  BY DEF cycle
<1>2. /\ v \in WorkType
      /\ v.c.isconnected = client.isconnected
      /\ Quiet(toServer, v.out)
      /\ v.rc \in {t, "FAILURE"}
      /\ v.rc \notin {"FAILURE", "other"} /\ v.c.last_received = 0
            => t = "none" /\ v.c.ping_outstanding /\ ~client.ping_outstanding
  BY SwitchOutcome
<1>3. CASE v.rc \in {"FAILURE", "other"} /\ v.c.isconnected
  <2> DEFINE d == MQTTCloseSession(v.c)
  <2>1. d \in ClientType /\ ~d.isconnected
    BY <1>2 DEF MQTTCloseSession, ClientType, WorkType
  <2> HIDE DEF d
  <2>2. /\ w.c = d /\ w.out = v.out /\ w.rc = v.rc /\ w \in WorkType
    BY <1>1, <1>2, <1>3, <2>1 DEF WorkType, d
  <2> QED BY <1>2, <1>3, <2>1, <2>2
<1>4. CASE ~(v.rc \in {"FAILURE", "other"} /\ v.c.isconnected)
  BY <1>1, <1>2, <1>4
<1> QED BY <1>3, <1>4

-----------------------------------------------------------------------------
(* The calls.                                                              *)

(* Closing a session keeps the type and leaves it closed.                  *)
LEMMA CloseType ==
    ASSUME NEW c \in ClientType
    PROVE  MQTTCloseSession(c) \in ClientType /\ ~MQTTCloseSession(c).isconnected
BY DEF MQTTCloseSession, ClientType

(* A call in its idle state.                                               *)
LEMMA IdleType == Idle \in CallType /\ Idle.op = "none"
BY WireAssumption DEF Idle, CallType, PacketIds, CallTimes

ResultType == [Messages -> {"new", "calling", "ok", "failed"}]

(* What a cycle does to a call: it goes on, or ends with or without        *)
(* success.  A publish or subscribe that ends without it ends the session. *)
GoesOn == /\ UNCHANGED result
          /\ call'.op = call.op
          /\ call'.id = call.id
          /\ client'.isconnected => client.isconnected
Ends(t, valid, ok) ==
    /\ Settle(ok)
    /\ call' = Idle
    /\ client'.isconnected => client.isconnected \/ call.op = "connect"
    /\ ok => valid /\ t = Expected(call.op)
    /\ call.op = "publish" /\ ~ok => ~client'.isconnected

(* Setting the outcome of a call keeps the types of the results.           *)
LEMMA SettleType ==
    ASSUME TypeOK, NEW ok \in BOOLEAN, Settle(ok)
    PROVE  /\ result' \in ResultType
           /\ \A m \in Messages : result'[m] = "new" <=> result[m] = "new"
           /\ \A m \in Messages : result'[m] = "calling" => result[m] = "calling"
BY DEF TypeOK, Settle, ResultType, Calling

(* A cycle keeps the types and sends no publish; a session on which it     *)
(* received nothing it leaves with a new ping outstanding.                 *)
LEMMA CycleStep ==
    ASSUME TypeOK, NEW t \in ReadTypes, NEW whole \in BOOLEAN,
           NEW valid \in BOOLEAN, Cycle(t, whole, valid)
    PROVE  /\ client' \in ClientType /\ call' \in CallType
           /\ result' \in ResultType
           /\ Quiet(toServer, toServer')
           /\ GoesOn \/ \E ok \in BOOLEAN : Ends(t, valid, ok)
           /\ call'.op # "none" /\ t # "other" /\ client.isconnected
                 => client'.isconnected
           /\ client'.isconnected /\ client'.last_received = 0
                 => client'.ping_outstanding /\ ~client.ping_outstanding
<1>1. PICK w \in cycle(t, whole) : toServer' = w.out /\ waitfor(w, valid)
  BY DEF Cycle
<1>2. /\ w \in WorkType
      /\ w.c.isconnected => client.isconnected
      /\ Quiet(toServer, w.out)
      /\ w.rc \in {t, "FAILURE"}
      /\ w.rc \in {"FAILURE", "other"} => ~w.c.isconnected
      /\ w.rc \notin {"FAILURE", "other"} /\ client.isconnected
            => w.c.isconnected
      /\ w.rc \notin {"FAILURE", "other"} /\ w.c.last_received = 0
            => t = "none" /\ w.c.ping_outstanding /\ ~client.ping_outstanding
  BY CycleOutcome
<1>3. w.c \in ClientType /\ w.timer \in CallTimes
  BY <1>2 DEF WorkType
<1>4. call \in CallType /\ result \in ResultType
  BY DEF TypeOK, ResultType
<1> DEFINE hit == w.rc = Expected(call.op)
<1>5. CASE hit \/ w.rc = "FAILURE" \/ w.timer = 0
  <2> DEFINE ok == hit /\ valid
  <2>1. Return(w.c, ok)
    BY <1>1, <1>5 DEF waitfor
  <2>2. Settle(ok) /\ call' = Idle /\ ok \in BOOLEAN
    BY <2>1 DEF Return
  <2>3. result' \in ResultType /\ call' \in CallType
    BY <2>2, SettleType, IdleType
  <2>4. ok => valid /\ t = Expected(call.op) /\ w.rc = t /\ t # "FAILURE"
    <3>1. Expected(call.op) # "FAILURE"
      BY DEF Expected
    <3> QED BY <1>2, <3>1
  <2>5. CASE call.op = "connect" /\ ok
    <3>1. client' = [w.c EXCEPT !.isconnected = TRUE, !.ping_outstanding = FALSE]
      BY <2>1, <2>5 DEF Return
    <3>2. client' \in ClientType /\ client'.last_received = w.c.last_received
      BY <1>3, <3>1 DEF ClientType
    <3>3. t = "CONNACK"
      BY <2>4, <2>5 DEF Expected
    <3> QED BY <1>1, <1>2, <2>2, <2>3, <2>4, <2>5, <3>2, <3>3, IdleType DEF Ends
  <2>6. CASE call.op \in {"subscribe", "publish"} /\ ~ok
    <3>1. client' = MQTTCloseSession(w.c)
      BY <2>1, <2>6 DEF Return
    <3>2. client' \in ClientType /\ ~client'.isconnected
      BY <1>3, <3>1, CloseType
    <3> QED BY <1>1, <1>2, <2>2, <2>3, <2>4, <2>6, <3>2, IdleType DEF Ends
  <2>7. CASE ~(call.op = "connect" /\ ok)
             /\ ~(call.op \in {"subscribe", "publish"} /\ ~ok)
    <3>1. client' = w.c
      BY <2>1, <2>7 DEF Return
    <3> QED BY <1>1, <1>2, <1>3, <2>2, <2>3, <2>4, <2>7, <3>1, IdleType DEF Ends
  <2> QED BY <2>5, <2>6, <2>7
<1>6. CASE ~(hit \/ w.rc = "FAILURE" \/ w.timer = 0)
  <2>1. /\ client' = w.c
        /\ call' = [call EXCEPT !.timer = w.timer]
        /\ UNCHANGED result
    BY <1>1, <1>6 DEF waitfor
  <2>2. call' \in CallType /\ call'.op = call.op /\ call'.id = call.id
    BY <1>3, <1>4, <2>1 DEF CallType
  <2>3. t # "other" /\ client.isconnected => client'.isconnected
    BY <1>2, <1>6, <2>1
  <2> QED BY <1>1, <1>2, <1>3, <1>4, <2>1, <2>2, <2>3 DEF GoesOn
<1> QED BY <1>5, <1>6

(* The packet at the head of the stream was cut off behind its first byte. *)
CutOff(t) == toClient # <<>> /\ (~garbled /\ t = "PUBACK" => Head(toClient).type = "PUBACK")

(* Every read is a cycle: of the packet at the head of the stream, of the  *)
(* first byte of it, or of none, which no call can succeed on.             *)
LEMMA ReadStep ==
    ASSUME TypeOK, Read
    PROVE  \E t \in ReadTypes, whole \in BOOLEAN, valid \in BOOLEAN :
              /\ Cycle(t, whole, valid)
              /\ toClient' \in Seq(ClientPackets)
              /\ garbled' \in BOOLEAN /\ (garbled' = garbled \/ garbled')
              /\ faults' \in 0..MaxFaults
              /\ ~garbled => t # "other"
              /\ \/ toClient' = toClient /\ ~valid
                 \/ toClient' = toClient /\ garbled' /\ CutOff(t)
                 \/ /\ toClient # <<>> /\ toClient' = Tail(toClient)
                    /\ garbled' = garbled
                    /\ ~garbled => t = Head(toClient).type
<1>0. /\ toClient \in Seq(ClientPackets) /\ garbled \in BOOLEAN
      /\ faults \in 0..MaxFaults /\ MaxFaults \in Nat
  BY WireAssumption DEF TypeOK
<1>1. toClient # <<>> => /\ Head(toClient).type \in ReadTypes
                         /\ Head(toClient).type # "other"
                         /\ Head(toClient).ok \in BOOLEAN
                         /\ Tail(toClient) \in Seq(ClientPackets)
  <2> SUFFICES ASSUME toClient # <<>>
               PROVE  /\ Head(toClient).type \in ReadTypes
                      /\ Head(toClient).type # "other"
                      /\ Head(toClient).ok \in BOOLEAN
                      /\ Tail(toClient) \in Seq(ClientPackets)
    OBVIOUS
  <2>1. Head(toClient) \in ClientPackets /\ Tail(toClient) \in Seq(ClientPackets)
    BY <1>0, TailPositions
  <2> QED BY <2>1 DEF ClientPackets, ReadTypes, AckTypes
<1>2. CASE ReadPacket
  <2>1. /\ toClient # <<>> /\ toClient' = Tail(toClient)
        /\ garbled' = garbled /\ faults' = faults
    BY <1>2 DEF ReadPacket
  <2>2. CASE garbled
    BY <1>0, <1>1, <1>2, <2>1, <2>2 DEF ReadPacket, ReadTypes
  <2>3. CASE ~garbled
    BY <1>0, <1>1, <1>2, <2>1, <2>3 DEF ReadPacket
  <2> QED BY <2>2, <2>3
<1>3. CASE ReadTimeout \/ ReadError
  BY <1>0, <1>3 DEF ReadTimeout, ReadError, ReadTypes
<1>4. CASE ReadStalled
  <2>1. /\ garbled' /\ garbled' \in BOOLEAN
        /\ toClient # <<>> /\ toClient' = toClient
    BY <1>4 DEF ReadStalled
  <2>2. toClient' \in Seq(ClientPackets) /\ faults' \in 0..MaxFaults
    BY <1>0, <1>4, <2>1 DEF ReadStalled
  <2>3. CASE Cycle("none", FALSE, FALSE)
    BY <2>1, <2>2, <2>3 DEF ReadTypes
  <2>4. ASSUME NEW t \in HeaderTypes, Cycle(t, TRUE, TRUE)
        PROVE  /\ t \in ReadTypes /\ CutOff(t)
               /\ ~garbled => t # "other"
    <3>1. CASE garbled
      BY <2>1, <2>4, <3>1 DEF HeaderTypes, ReadTypes, CutOff
    <3>2. CASE ~garbled /\ Head(toClient).type = "error"
      BY <2>1, <2>4, <3>2 DEF HeaderTypes, ReadTypes, CutOff
    <3>3. CASE ~garbled /\ Head(toClient).type # "error"
      BY <1>1, <2>1, <2>4, <3>3 DEF HeaderTypes, CutOff
    <3> QED BY <3>1, <3>2, <3>3
  <2>5. ASSUME NEW t \in HeaderTypes, Cycle(t, TRUE, TRUE)
        PROVE  \E u \in ReadTypes, whole \in BOOLEAN, valid \in BOOLEAN :
              /\ Cycle(u, whole, valid)
              /\ ~garbled => u # "other"
              /\ CutOff(u)
    BY <2>4, <2>5
  <2> QED BY <1>4, <2>1, <2>2, <2>3, <2>5 DEF ReadStalled
<1> QED BY <1>2, <1>3, <1>4 DEF Read

-----------------------------------------------------------------------------
(* The steps.                                                              *)

(* A quiet change of the stream to the broker keeps each publish in one    *)
(* place, whatever calls end.                                              *)
LEMMA PlaceKept ==
    ASSUME TypeOK, OnePlace, Quiet(toServer, toServer'),
           UNCHANGED <<late, accepted>>,
           \A m \in Messages : result'[m] = "new" <=> result[m] = "new"
    PROVE  OnePlace'
<1>1. /\ Publishes(toServer') = Publishes(toServer)
      /\ \A i \in Publishes(toServer) : toServer'[i] = toServer[i]
  BY DEF Quiet
<1>2. \A i \in Publishes(toServer) : toServer[i].msg \in Messages
  BY PublishMessage DEF TypeOK
<1>3. Publishes(toServer)' = Publishes(toServer')
  BY DEF Publishes
<1> HIDE DEF Publishes
<1> QED BY <1>1, <1>2, <1>3 DEF OnePlace

(* A read keeps the invariant: a call that ends with success has taken the *)
(* only acknowledgement, any other publish that ends closes the session.   *)
LEMMA ReadKeeps ==
    ASSUME WireInv, Read
    PROVE  WireInv'
<1> USE DEF WireInv
<1>1. PICK t \in ReadTypes, whole \in BOOLEAN, valid \in BOOLEAN :
              /\ Cycle(t, whole, valid)
              /\ toClient' \in Seq(ClientPackets)
              /\ garbled' \in BOOLEAN /\ (garbled' = garbled \/ garbled')
              /\ faults' \in 0..MaxFaults
              /\ ~garbled => t # "other"
              /\ \/ toClient' = toClient /\ ~valid
                 \/ toClient' = toClient /\ garbled' /\ CutOff(t)
                 \/ /\ toClient # <<>> /\ toClient' = Tail(toClient)
                    /\ garbled' = garbled
                    /\ ~garbled => t = Head(toClient).type
  BY ReadStep
<1>2. /\ client' \in ClientType /\ call' \in CallType
      /\ result' \in ResultType
      /\ Quiet(toServer, toServer')
      /\ GoesOn \/ \E ok \in BOOLEAN : Ends(t, valid, ok)
      /\ client'.isconnected /\ client'.last_received = 0
            => client'.ping_outstanding /\ ~client.ping_outstanding
  BY <1>1, CycleStep
<1>3. /\ UNCHANGED <<link, serving, late, accepted, commands>>
      /\ silent' = IF client'.isconnected /\ client'.last_received = 0
                   THEN IF silent < 2 THEN silent + 1 ELSE 2 ELSE 0
  BY <1>1 DEF Cycle
<1>4. toServer' \in Seq(ServerPackets)
  BY <1>2 DEF Quiet
<1>5. silent' \in 0..2 /\ SilentInv'
  BY <1>2, <1>3 DEF SilentInv, TypeOK
<1>6. TypeOK'
  BY <1>1, <1>2, <1>3, <1>4, <1>5 DEF TypeOK, ResultType
<1>7. /\ \A m \in Messages : result'[m] = "new" <=> result[m] = "new"
      /\ \A m \in Messages : result'[m] = "calling" => result[m] = "calling"
      /\ (\E ok \in BOOLEAN : Ends(t, valid, ok))
           => \A m \in Messages : result'[m] # "calling"
  <2>1. CASE GoesOn /\ ~\E ok \in BOOLEAN : Ends(t, valid, ok)
    BY <2>1 DEF GoesOn
  <2>2. ASSUME NEW ok \in BOOLEAN, Ends(t, valid, ok)
        PROVE  \A m \in Messages : result'[m] # "calling"
    <3>1. Settle(ok)
      BY <2>2 DEF Ends
    <3>2. \A m \in Messages : result[m] = "calling" => call.op = "publish"
      BY DEF OneCall
    <3> QED BY <3>1, <3>2 DEF Settle, Calling
  <2>3. (\E ok \in BOOLEAN : Settle(ok)) =>
          /\ \A m \in Messages : result'[m] = "new" <=> result[m] = "new"
          /\ \A m \in Messages : result'[m] = "calling" => result[m] = "calling"
    BY SettleType
  <2>4. (\E ok \in BOOLEAN : Ends(t, valid, ok)) => \E ok \in BOOLEAN : Settle(ok)
    BY DEF Ends
  <2> QED BY <1>2, <2>1, <2>2, <2>3, <2>4
<1>8. OnePlace'
  BY <1>2, <1>3, <1>7, PlaceKept
<1>9. OneCall'
  <2>1. CASE GoesOn
    BY <2>1 DEF GoesOn, OneCall
  <2>2. CASE \E ok \in BOOLEAN : Ends(t, valid, ok)
    BY <1>7, <2>2 DEF OneCall
  <2> QED BY <1>2, <2>1, <2>2
<1>10. Stream'
  <2> SUFFICES ASSUME InStep' PROVE Stream'
    BY DEF Stream
  <2>1. InStep
    <3>1. ~garbled
      BY <1>1 DEF InStep, TypeOK
    <3>2. client.isconnected \/ call.op = "connect"
      BY <1>2, IdleType DEF InStep, GoesOn, Ends
    <3> QED BY <3>1, <3>2 DEF InStep
  <2>2. /\ \A i \in Publishes(toServer) : OwnPublish(i)
        /\ \A i \in Pubacks(toClient) : OwnPuback(i)
        /\ \A i, j \in Publishes(toServer) : i = j
        /\ \A i, j \in Pubacks(toClient) : i = j
    BY <2>1 DEF Stream
  <2>3. /\ Publishes(toServer') = Publishes(toServer)
        /\ \A i \in Publishes(toServer) : toServer'[i] = toServer[i]
    BY <1>2 DEF Quiet
  <2> DEFINE k == IF toClient' = toClient THEN 0 ELSE 1
  <2>4. \A i \in Pubacks(toClient') : /\ i \in Nat /\ i + k \in Pubacks(toClient)
                                     /\ toClient'[i] = toClient[i + k]
    <3>1. CASE toClient' = toClient
      BY <3>1 DEF Pubacks, TypeOK
    <3>2. CASE toClient' # toClient
      <4>1. toClient \in Seq(ClientPackets) /\ toClient # <<>> /\ toClient' = Tail(toClient)
        BY <1>1, <3>2 DEF TypeOK
      <4>2. \A i \in DOMAIN Tail(toClient) : /\ i \in Nat /\ i + 1 \in DOMAIN toClient
                                            /\ Tail(toClient)[i] = toClient[i + 1]
        BY <4>1, TailPositions
      <4> QED BY <3>2, <4>1, <4>2 DEF Pubacks
    <3> QED BY <3>1, <3>2
  <2>5. /\ Publishes(toServer)' = Publishes(toServer')
        /\ Pubacks(toClient)' = Pubacks(toClient')
    BY DEF Publishes, Pubacks
  <2> HIDE DEF k
  <2>6. CASE GoesOn
    <3>1. call'.op = call.op /\ call'.id = call.id /\ result' = result
          /\ accepted' = accepted
      BY <1>3, <2>6 DEF GoesOn
    <3>2. \A i \in Publishes(toServer') : OwnPublish(i)'
      BY <2>2, <2>3, <2>4, <2>5, <3>1 DEF OwnPublish
    <3>3. \A i \in Pubacks(toClient') : OwnPuback(i)'
      BY <2>2, <2>4, <3>1 DEF OwnPuback
    <3>4. \A i, j \in Pubacks(toClient') : i = j
      <4>1. k \in Nat
        BY DEF k
      <4> QED BY <2>2, <2>4, <4>1
    <3> QED BY <2>2, <2>3, <2>5, <3>2, <3>3, <3>4 DEF Stream
  <2>7. ASSUME NEW ok \in BOOLEAN, Ends(t, valid, ok)
        PROVE  Stream'
    <3>1. /\ call.op = "publish" => ok
          /\ ok => valid /\ t = Expected(call.op)
      BY <2>7, IdleType DEF Ends, InStep
    <3>2. CASE call.op # "publish"
      <4>1. Publishes(toServer) = {} /\ Pubacks(toClient) = {}
        BY <2>2, <3>2 DEF OwnPublish, OwnPuback
      <4>2. Publishes(toServer)' = {} /\ Pubacks(toClient)' = {}
        BY <2>3, <2>4, <2>5, <4>1
      <4> QED BY <4>2 DEF Stream
    <3>3. CASE call.op = "publish"
      <4>1. valid /\ t = "PUBACK"
        BY <3>1, <3>3 DEF Expected
      <4>2. /\ toClient # <<>> /\ toClient' = Tail(toClient)
            /\ Head(toClient).type = "PUBACK"
        BY <1>1, <2>1, <4>1 DEF InStep
      <4>3. toClient \in Seq(ClientPackets)
        BY DEF TypeOK
      <4>4. 1 \in Pubacks(toClient)
        BY <4>2, <4>3, TailPositions DEF Pubacks
      <4>5. Publishes(toServer)' = {}
        BY <2>2, <2>3, <2>5, <4>4 DEF OwnPublish
      <4>6. Pubacks(toClient)' = {}
        <5> SUFFICES ASSUME NEW i \in Pubacks(toClient') PROVE FALSE
          BY <2>5
        <5>1. k = 1
          <6>1. toClient' # toClient
            BY <4>2, <4>3
          <6> QED BY <6>1 DEF k
        <5>2. i \in Nat /\ i + 1 \in Pubacks(toClient)
          BY <2>4, <5>1
        <5>3. i + 1 = 1
          BY <2>2, <4>4, <5>2
        <5>4. i \in DOMAIN Tail(toClient)
          BY <4>2 DEF Pubacks
        <5> QED BY <4>2, <4>3, <5>2, <5>3, <5>4
      <4> QED BY <4>5, <4>6 DEF Stream
    <3> QED BY <3>2, <3>3
  <2> QED BY <1>2, <2>6, <2>7
<1> QED BY <1>5, <1>6, <1>8, <1>9, <1>10

(* getNextPacketId stays within the range of packet ids.                   *)
LEMMA NextIdType ==
    ASSUME NEW c \in ClientType
    PROVE  getNextPacketId(c) \in 1..MAX_PACKET_ID
BY WireAssumption DEF getNextPacketId, ClientType

(* The packets of MQTTPublish and MQTTSubscribe.                           *)
LEMMA PublishRecord ==
    ASSUME NEW id, NEW m, NEW p,
           p = [Packet("PUBLISH") EXCEPT !.id = id, !.msg = m]
    PROVE  p = [type |-> "PUBLISH", id |-> id, ok |-> TRUE, msg |-> m]
BY DEF Packet

(* The same for MQTTSubscribe.                                             *)
LEMMA SubscribeRecord ==
    ASSUME NEW id, NEW p, p = [Packet("SUBSCRIBE") EXCEPT !.id = id]
    PROVE  p = [type |-> "SUBSCRIBE", id |-> id, ok |-> TRUE, msg |-> NoMessage]
BY DEF Packet

(* Both are packets for the broker.                                        *)
LEMMA CallPacket ==
    ASSUME NEW id \in 1..MAX_PACKET_ID, NEW p,
           \/ \E m \in Messages :
                 p = [type |-> "PUBLISH", id |-> id, ok |-> TRUE, msg |-> m]
           \/ p = [type |-> "SUBSCRIBE", id |-> id, ok |-> TRUE, msg |-> NoMessage]
    PROVE  p \in ServerPackets
<1>1. id \in PacketIds
  BY WireAssumption DEF PacketIds
<1>2. CASE \E m \in Messages :
              p = [type |-> "PUBLISH", id |-> id, ok |-> TRUE, msg |-> m]
  BY <1>1, <1>2 DEF ServerPackets
<1>3. CASE p = [type |-> "SUBSCRIBE", id |-> id, ok |-> TRUE, msg |-> NoMessage]
  BY <1>1, <1>3 DEF ServerPackets
<1> QED BY <1>2, <1>3

SameSession(c, d) == /\ c.isconnected = d.isconnected
                     /\ c.ping_outstanding = d.ping_outstanding
                     /\ c.last_received = d.last_received

(* Taking a packet id changes nothing else of the client.                  *)
LEMMA NextIdRecord ==
    ASSUME NEW d \in ClientType, NEW id \in 1..MAX_PACKET_ID, NEW c,
           c = [d EXCEPT !.next_packetid = id]
    PROVE  c \in ClientType /\ SameSession(c, d)
BY DEF ClientType, SameSession

(* A call sends its packet first.                                          *)
LEMMA BeginSend ==
    ASSUME NEW c \in ClientType, NEW op, NEW p, Begin(op, c, p, CommandTimeout)
    PROVE  \E s : /\ s.c \in ClientType
                  /\ s.c.isconnected = c.isconnected
                  /\ s.c.ping_outstanding = c.ping_outstanding
                  /\ s.c.last_received = c.last_received
                  /\ s.out = toServer \/ s.out = Append(toServer, p)
                  /\ toServer' = s.out
                  /\ IF s.ok
                     THEN /\ client' = s.c
                          /\ call' = [op |-> op, id |-> p.id,
                                      timer |-> CommandTimeout]
                     ELSE /\ client' = MQTTCloseSession(s.c)
                          /\ call' = Idle
                  /\ silent' = IF client'.isconnected THEN silent ELSE 0
BY SendOutcome DEF Begin

(* A call that begins waits for its answer, or ends the session at once.   *)
LEMMA BeginStep ==
    ASSUME TypeOK, SilentInv, client.isconnected,
           NEW op \in {"subscribe", "publish"}, NEW p \in ServerPackets,
           NEW c \in ClientType, SameSession(c, client),
           Begin(op, c, p, CommandTimeout)
    PROVE  /\ client' \in ClientType /\ call' \in CallType
           /\ toServer' = toServer \/ toServer' = Append(toServer, p)
           /\ silent' \in 0..2 /\ SilentInv'
           /\ \/ call'.op = op /\ call'.id = p.id /\ client'.isconnected
              \/ call' = Idle /\ ~client'.isconnected
<1>1. PICK s : /\ s.c \in ClientType
               /\ s.c.isconnected = c.isconnected
               /\ s.c.ping_outstanding = c.ping_outstanding
               /\ s.c.last_received = c.last_received
               /\ s.out = toServer \/ s.out = Append(toServer, p)
               /\ toServer' = s.out
               /\ IF s.ok
                  THEN /\ client' = s.c
                       /\ call' = [op |-> op, id |-> p.id, timer |-> CommandTimeout]
                  ELSE /\ client' = MQTTCloseSession(s.c)
                       /\ call' = Idle
               /\ silent' = IF client'.isconnected THEN silent ELSE 0
  BY BeginSend
<1>2. silent \in 0..2
  BY DEF TypeOK
<1>3. CASE s.ok
  <2>1. call' \in CallType /\ call'.op = op /\ call'.id = p.id
    <3>1. p.id \in PacketIds /\ CommandTimeout \in CallTimes
      <4>1. p.id \in PacketIds
        BY DEF ServerPackets
      <4>2. CommandTimeout \in CallTimes
        BY WireAssumption DEF CallTimes
      <4> QED BY <4>1, <4>2
    <3> QED BY <1>1, <1>3, <3>1 DEF CallType
  <2> QED BY <1>1, <1>2, <1>3, <2>1 DEF SilentInv, SameSession
<1>4. CASE ~s.ok
  <2>1. client' \in ClientType /\ ~client'.isconnected
    BY <1>1, <1>4, CloseType
  <2> QED BY <1>1, <1>4, <2>1, IdleType DEF SilentInv, SameSession
<1> QED BY <1>3, <1>4

(* Without a call in progress nothing is under way on an open stream.      *)
LEMMA NothingUnderWay ==
    ASSUME WireInv, call.op = "none"
    PROVE  /\ \A m \in Messages : result[m] # "calling"
           /\ InStep => Publishes(toServer) = {} /\ Pubacks(toClient) = {}
BY DEF WireInv, OneCall, Stream, OwnPublish, OwnPuback

(* MQTTSubscribe.                                                          *)
LEMMA SubscribeKeeps ==
    ASSUME WireInv, MQTTSubscribe
    PROVE  WireInv'
<1> DEFINE id == getNextPacketId(client)
<1>1. /\ call.op = "none" /\ client.isconnected
      /\ UNCHANGED <<network, toClient, result, garbled>>
  BY DEF MQTTSubscribe
<1>2. PICK p, c : /\ p = [Packet("SUBSCRIBE") EXCEPT !.id = id]
                  /\ c = [client EXCEPT !.next_packetid = id]
                  /\ Begin("subscribe", c, p, CommandTimeout)
  BY DEF MQTTSubscribe
<1>3. /\ p \in ServerPackets /\ p.id = id /\ p.type = "SUBSCRIBE"
      /\ c \in ClientType /\ SameSession(c, client)
  <2>1. id \in 1..MAX_PACKET_ID /\ client \in ClientType
    BY NextIdType DEF WireInv, TypeOK
  <2> HIDE DEF id
  <2>2. p = [type |-> "SUBSCRIBE", id |-> id, ok |-> TRUE, msg |-> NoMessage]
    BY <1>2, SubscribeRecord
  <2>3. p \in ServerPackets /\ p.id = id /\ p.type = "SUBSCRIBE"
    BY <2>1, <2>2, CallPacket
  <2> QED BY <1>2, <2>1, <2>3, NextIdRecord
<1> HIDE DEF id
<1>4. /\ client' \in ClientType /\ call' \in CallType
      /\ toServer' = toServer \/ toServer' = Append(toServer, p)
      /\ silent' \in 0..2 /\ SilentInv'
      /\ call'.op = "subscribe" \/ (call' = Idle /\ ~client'.isconnected)
  <2>1. Begin("subscribe", c, p, CommandTimeout)
    BY <1>2
  <2> QED BY <1>1, <1>3, <2>1, BeginStep DEF WireInv
<1>5. Quiet(toServer, toServer')
  BY <1>3, <1>4, QuietAppend, QuietSame DEF WireInv, TypeOK
<1>6. TypeOK'
  BY <1>1, <1>4, <1>5 DEF WireInv, TypeOK, network, Quiet
<1>7. OneCall'
  BY <1>1, NothingUnderWay DEF OneCall
<1>8. OnePlace'
  BY <1>1, <1>5, PlaceKept DEF WireInv, network
<1>9. Stream'
  <2> SUFFICES ASSUME InStep' PROVE Stream'
    BY DEF Stream
  <2>1. InStep
    BY <1>1 DEF InStep
  <2>2. Publishes(toServer') = {} /\ Pubacks(toClient') = {}
    BY <1>1, <1>5, <2>1, NothingUnderWay DEF Quiet
  <2>3. Publishes(toServer)' = {} /\ Pubacks(toClient)' = {}
    BY <2>2 DEF Publishes, Pubacks
  <2> QED BY <2>3 DEF Stream
<1> QED BY <1>4, <1>6, <1>7, <1>8, <1>9 DEF WireInv

(* MQTTPublish.                                                            *)
LEMMA PublishKeeps ==
    ASSUME WireInv, NEW m \in Messages, MQTTPublish(m)
    PROVE  WireInv'
<1> DEFINE id == getNextPacketId(client)
<1>1. /\ call.op = "none" /\ result[m] = "new"
      /\ result' = [result EXCEPT ![m] = IF call'.op = "none" THEN "failed" ELSE "calling"]
      /\ UNCHANGED <<network, toClient, garbled>>
  BY DEF MQTTPublish
<1>2. result' \in [Messages -> {"new", "calling", "ok", "failed"}]
  BY <1>1 DEF WireInv, TypeOK
<1>3. CASE ~client.isconnected
  <2>1. /\ client' = MQTTCloseSession(client)
        /\ UNCHANGED <<toServer, call, silent>>
    BY <1>3 DEF MQTTPublish
  <2>2. client' \in ClientType /\ ~client'.isconnected
    BY <2>1, CloseType DEF WireInv, TypeOK
  <2>3. TypeOK'
    BY <1>1, <1>2, <2>1, <2>2 DEF WireInv, TypeOK, network
  <2>4. SilentInv'
    BY <1>3, <2>1 DEF WireInv, SilentInv
  <2>5. OneCall'
    BY <1>1, <2>1, NothingUnderWay DEF WireInv, TypeOK, OneCall
  <2>6. OnePlace'
    <3>1. Publishes(toServer)' = Publishes(toServer)
      BY <2>1 DEF Publishes
    <3>2. result \in [Messages -> {"new", "calling", "ok", "failed"}]
      BY DEF WireInv, TypeOK
    <3>3. \A i \in Publishes(toServer) : toServer[i].msg \in Messages
      BY PublishMessage DEF WireInv, TypeOK
    <3> QED BY <1>1, <2>1, <3>1, <3>2, <3>3 DEF WireInv, OnePlace, network
  <2>7. Stream'
    BY <1>1, <2>1, <2>2 DEF Stream, InStep
  <2> QED BY <2>3, <2>4, <2>5, <2>6, <2>7 DEF WireInv
<1>4. CASE client.isconnected
  <2>1. PICK p, c : /\ p = [Packet("PUBLISH") EXCEPT !.id = id, !.msg = m]
                    /\ c = [client EXCEPT !.next_packetid = id]
                    /\ Begin("publish", c, p, CommandTimeout)
    BY <1>4 DEF MQTTPublish
  <2>2. id \in 1..MAX_PACKET_ID
    BY NextIdType DEF WireInv, TypeOK
  <2> HIDE DEF id
  <2>3. /\ p \in ServerPackets /\ p.id = id /\ p.type = "PUBLISH" /\ p.msg = m
        /\ c \in ClientType /\ SameSession(c, client)
    <3>1. p = [type |-> "PUBLISH", id |-> id, ok |-> TRUE, msg |-> m]
      BY <2>1, PublishRecord
    <3>2. p \in ServerPackets /\ p.id = id /\ p.type = "PUBLISH" /\ p.msg = m
      BY <2>2, <3>1, CallPacket
    <3>3. client \in ClientType
      BY DEF WireInv, TypeOK
    <3> QED BY <2>1, <2>2, <3>2, <3>3, NextIdRecord
  <2>4. /\ client' \in ClientType /\ call' \in CallType
        /\ toServer' = toServer \/ toServer' = Append(toServer, p)
        /\ silent' \in 0..2 /\ SilentInv'
        /\ \/ call'.op = "publish" /\ call'.id = p.id
           \/ call' = Idle /\ ~client'.isconnected
    <3>1. Begin("publish", c, p, CommandTimeout)
      BY <2>1
    <3> QED BY <1>4, <2>3, <3>1, BeginStep DEF WireInv
  <2> DEFINE n == Len(toServer) + 1
  <2>5. toServer \in Seq(ServerPackets)
    BY DEF WireInv, TypeOK
  <2>6. /\ toServer' \in Seq(ServerPackets)
        /\ Publishes(toServer') \subseteq Publishes(toServer) \cup {n}
        /\ \A i \in Publishes(toServer) : toServer'[i] = toServer[i]
        /\ n \in Publishes(toServer') => toServer'[n] = p
        /\ n \notin Publishes(toServer)
    <3>1. n \notin DOMAIN toServer
      BY <2>3, <2>5, AppendPositions
    <3>2. CASE toServer' = toServer
      BY <2>5, <3>1, <3>2 DEF Publishes
    <3>3. CASE toServer' = Append(toServer, p)
      <4>1. /\ toServer' \in Seq(ServerPackets)
            /\ DOMAIN toServer' = DOMAIN toServer \cup {n}
            /\ \A i \in DOMAIN toServer : toServer'[i] = toServer[i]
            /\ toServer'[n] = p
        BY <2>3, <2>5, <3>3, AppendPositions
      <4> QED BY <3>1, <4>1 DEF Publishes
    <3> QED BY <2>4, <3>2, <3>3
  <2> HIDE DEF n
  <2>7. \A i \in Publishes(toServer) : toServer[i].msg \in Messages
    BY <2>5, PublishMessage
  <2>8. TypeOK'
    BY <1>1, <1>2, <2>4, <2>6 DEF WireInv, TypeOK, network
  <2>9. /\ result'[m] = IF call'.op = "none" THEN "failed" ELSE "calling"
        /\ \A k \in Messages : k # m => result'[k] = result[k]
    BY <1>1 DEF WireInv, TypeOK
  <2>10. OneCall'
    BY <1>1, <2>4, <2>9, IdleType, NothingUnderWay DEF OneCall
  <2>11. Publishes(toServer)' = Publishes(toServer')
    BY DEF Publishes
  <2>12. \A i \in Publishes(toServer) : toServer[i].msg # m
    BY <1>1 DEF WireInv, OnePlace
  <2>13. OnePlace'
    <3>1. late' = late /\ accepted' = accepted /\ late \subseteq Messages
      BY <1>1 DEF network, WireInv, TypeOK
    <3>2. accepted[m] = 0 /\ m \notin late
      BY <1>1 DEF WireInv, OnePlace
    <3>3. \A k \in Messages : result'[k] = "new" => accepted[k] = 0 /\ k \notin late
      BY <1>1, <2>9 DEF WireInv, OnePlace
    <3>4. \A i \in Publishes(toServer') :
             /\ result'[toServer'[i].msg] # "new"
             /\ accepted[toServer'[i].msg] = 0
             /\ toServer'[i].msg \notin late
      BY <2>3, <2>6, <2>7, <2>9, <2>12, <3>2 DEF WireInv, OnePlace
    <3>5. \A i, j \in Publishes(toServer') :
             toServer'[i].msg = toServer'[j].msg => i = j
      BY <2>3, <2>6, <2>12 DEF WireInv, OnePlace
    <3> QED BY <2>11, <3>1, <3>3, <3>4, <3>5 DEF WireInv, OnePlace
  <2>14. Stream'
    <3> SUFFICES ASSUME InStep' PROVE Stream'
      BY DEF Stream
    <3>1. InStep
      BY <1>1, <1>4 DEF InStep
    <3>2. Publishes(toServer) = {} /\ Pubacks(toClient) = {}
      BY <1>1, <3>1, NothingUnderWay
    <3>3. call'.op = "publish" /\ call'.id = p.id
      BY <2>4, IdleType DEF InStep
    <3>4. Pubacks(toClient)' = {}
      BY <1>1, <3>2 DEF Pubacks
    <3>5. \A i \in Publishes(toServer)' : i = n /\ OwnPublish(i)'
      BY <2>3, <2>6, <2>9, <2>11, <3>2, <3>3, <3>4 DEF OwnPublish
    <3> QED BY <3>4, <3>5 DEF Stream
  <2> QED BY <2>4, <2>8, <2>10, <2>13, <2>14 DEF WireInv
<1> QED BY <1>3, <1>4

(* The client that MQTTConnect starts with.                                *)
LEMMA ConnectRecord ==
    ASSUME NEW c, \/ c = [MQTTClientInit EXCEPT !.last_sent = KeepAlive,
                                               !.last_received = KeepAlive]
                  \/ c = [MQTTClientInit EXCEPT !.last_received = KeepAlive]
    PROVE  \E n \in {0, KeepAlive} :
              c = [isconnected |-> FALSE, ping_outstanding |-> FALSE,
                   next_packetid |-> 1, last_sent |-> n,
                   last_received |-> KeepAlive]
BY DEF MQTTClientInit

(* Such a client is a client.                                              *)
LEMMA ConnectClient ==
    ASSUME NEW n \in {0, KeepAlive}, NEW c,
           c = [isconnected |-> FALSE, ping_outstanding |-> FALSE,
                next_packetid |-> 1, last_sent |-> n, last_received |-> KeepAlive]
    PROVE  c \in ClientType /\ ~c.isconnected
<1>1. 1 \in 1..MAX_PACKET_ID /\ n \in 0..KeepAlive /\ KeepAlive \in 0..KeepAlive
  BY WireAssumption
<1> QED BY <1>1 DEF ClientType

(* MQTTConnect: the new stream is empty, what the old one carried is late. *)
LEMMA ConnectKeeps ==
    ASSUME WireInv, MQTTConnect
    PROVE  WireInv'
<1>1. /\ call.op = "none" /\ ~client.isconnected
      /\ late' = late \cup ({toServer[i].msg : i \in DOMAIN toServer} \ {NoMessage})
      /\ link' = "up" /\ toClient' = <<>> /\ serving' = FALSE /\ garbled' = FALSE
      /\ silent' = 0
      /\ UNCHANGED <<result, accepted, faults, commands>>
  BY DEF MQTTConnect
<1>2. client' \in ClientType /\ ~client'.isconnected
  BY ConnectRecord, ConnectClient DEF MQTTConnect
<1>3. toServer' = <<Packet("CONNECT")>> \/ toServer' = <<>>
  BY DEF MQTTConnect
<1>4. toServer' \in Seq(ServerPackets) /\ Publishes(toServer') = {}
  <2>1. CASE toServer' = <<>>
    BY <2>1 DEF Publishes
  <2>2. CASE toServer' = <<Packet("CONNECT")>>
    <3>1. Packet("CONNECT") \in ServerPackets /\ Packet("CONNECT").type # "PUBLISH"
      BY PacketTypes
    <3>2. toServer' \in Seq(ServerPackets)
      BY <2>2, <3>1
    <3>3. \A i \in DOMAIN toServer' : toServer'[i] = Packet("CONNECT")
      BY <2>2
    <3> QED BY <3>1, <3>2, <3>3 DEF Publishes
  <2> QED BY <1>3, <2>1, <2>2
<1>5. toClient' \in Seq(ClientPackets) /\ Pubacks(toClient') = {}
  BY <1>1 DEF Pubacks
<1>6. call' \in CallType
  <2>1. \/ call' = [op |-> "connect", id |-> 0, timer |-> CommandTimeout]
        \/ call' = Idle
    BY DEF MQTTConnect
  <2>2. 0 \in PacketIds /\ CommandTimeout \in CallTimes
    BY WireAssumption DEF PacketIds, CallTimes
  <2> QED BY <2>1, <2>2, IdleType DEF CallType
<1>7. /\ late' \subseteq Messages
      /\ \A m \in late' : m \in late \/ \E i \in Publishes(toServer) : toServer[i].msg = m
  <2>1. \A i \in DOMAIN toServer : toServer[i] \in ServerPackets
    BY DEF WireInv, TypeOK
  <2>2. \A i \in DOMAIN toServer :
           toServer[i].msg # NoMessage
              => i \in Publishes(toServer) /\ toServer[i].msg \in Messages
    BY <2>1, PacketMessage DEF Publishes
  <2> QED BY <1>1, <2>2 DEF WireInv, TypeOK
<1>8. TypeOK'
  <2>1. serving' \in BOOLEAN /\ garbled' \in BOOLEAN
    BY <1>1
  <2> QED BY <1>1, <1>2, <1>4, <1>5, <1>6, <1>7, <2>1 DEF WireInv, TypeOK
<1>9. SilentInv'
  BY <1>1 DEF SilentInv
<1>10. OneCall'
  BY <1>1, NothingUnderWay DEF OneCall
<1>11. Publishes(toServer)' = {} /\ Pubacks(toClient)' = {}
  BY <1>4, <1>5 DEF Publishes, Pubacks
<1>12. OnePlace'
  <2>1. \A m \in late' : accepted'[m] = 0 /\ result'[m] # "new"
    BY <1>1, <1>7 DEF WireInv, TypeOK, OnePlace
  <2>2. \A m \in Messages : result'[m] = "new" => accepted'[m] = 0 /\ m \notin late'
    BY <1>1, <2>1 DEF WireInv, OnePlace
  <2> QED BY <1>11, <2>1, <2>2 DEF OnePlace
<1>13. Stream'
  BY <1>11 DEF Stream
<1> QED BY <1>8, <1>9, <1>10, <1>12, <1>13 DEF WireInv

(* Time changes the timers only, and those that have expired not at all.   *)
LEMMA TickedClient ==
    ASSUME NEW d \in ClientType, NEW c,
           c = [d EXCEPT !.last_sent = IF @ = 0 THEN 0 ELSE @ - 1,
                         !.last_received = IF @ = 0 THEN 0 ELSE @ - 1]
    PROVE  /\ c \in ClientType
           /\ c.isconnected = d.isconnected
           /\ c.ping_outstanding = d.ping_outstanding
           /\ d.last_received = 0 => c.last_received = 0
<1>1. /\ d.last_sent \in 0..KeepAlive /\ d.last_received \in 0..KeepAlive
      /\ KeepAlive \in Nat
  BY WireAssumption DEF ClientType
<1>2. \A n \in 0..KeepAlive : (IF n = 0 THEN 0 ELSE n - 1) \in 0..KeepAlive
  BY <1>1
<1>3. PICK x \in 0..KeepAlive, y \in 0..KeepAlive :
         /\ x = IF d.last_sent = 0 THEN 0 ELSE d.last_sent - 1
         /\ y = IF d.last_received = 0 THEN 0 ELSE d.last_received - 1
  BY <1>1, <1>2
<1>4. c = [d EXCEPT !.last_sent = x, !.last_received = y]
  BY <1>3
<1> QED BY <1>3, <1>4 DEF ClientType

(* MQTTYield, MQTTDisconnect and time send no publish.                     *)
LEMMA OtherKeeps ==
    ASSUME WireInv, MQTTYield \/ MQTTDisconnect \/ Tick
    PROVE  WireInv'
<1>1. CASE MQTTYield
  <2>1. /\ call.op = "none"
        /\ call' = [op |-> "yield", id |-> 0, timer |-> YieldTime]
        /\ UNCHANGED <<client, toServer, toClient, network, result, garbled, silent>>
    BY <1>1 DEF MQTTYield
  <2>2. call' \in CallType /\ call'.op = "yield"
    <3>1. 0 \in PacketIds /\ YieldTime \in CallTimes
      BY WireAssumption DEF PacketIds, CallTimes
    <3> QED BY <2>1, <3>1 DEF CallType
  <2>3. TypeOK'
    BY <2>1, <2>2 DEF WireInv, TypeOK, network
  <2>4. SilentInv'
    BY <2>1 DEF WireInv, SilentInv
  <2>5. OneCall'
    BY <2>1, NothingUnderWay DEF OneCall
  <2>6. OnePlace'
    BY <2>1 DEF WireInv, OnePlace, Publishes, network
  <2>7. Stream'
    <3>1. InStep' => InStep
      BY <2>1, <2>2 DEF InStep
    <3>2. InStep => Publishes(toServer)' = {} /\ Pubacks(toClient)' = {}
      BY <2>1, NothingUnderWay DEF Publishes, Pubacks
    <3> QED BY <3>1, <3>2 DEF Stream
  <2> QED BY <2>3, <2>4, <2>5, <2>6, <2>7 DEF WireInv
<1>2. CASE MQTTDisconnect
  <2>1. PICK s \in sendPacket(client, toServer, Packet("DISCONNECT")) :
           toServer' = s.out /\ client' = MQTTCloseSession(s.c)
    BY <1>2 DEF MQTTDisconnect
  <2>2. client \in ClientType
    BY DEF WireInv, TypeOK
  <2>3. /\ s.c \in ClientType
        /\ s.out = toServer \/ s.out = Append(toServer, Packet("DISCONNECT"))
    BY <2>2, SendOutcome
  <2>4. client' \in ClientType /\ ~client'.isconnected
    BY <2>1, <2>3, CloseType
  <2>5. Quiet(toServer, toServer')
    BY <2>1, <2>3, QuietSame, QuietAppend, PacketTypes DEF WireInv, TypeOK
  <2>6. /\ call.op = "none" /\ silent' = 0
        /\ UNCHANGED <<call, toClient, network, result, garbled>>
    BY <1>2 DEF MQTTDisconnect
  <2>7. TypeOK'
    BY <2>4, <2>5, <2>6 DEF WireInv, TypeOK, network, Quiet
  <2>8. SilentInv'
    BY <2>6 DEF SilentInv
  <2>9. OneCall'
    BY <2>6 DEF WireInv, OneCall
  <2>10. OnePlace'
    BY <2>5, <2>6, PlaceKept DEF WireInv, network
  <2>11. Stream'
    BY <2>4, <2>6 DEF Stream, InStep
  <2> QED BY <2>7, <2>8, <2>9, <2>10, <2>11 DEF WireInv
<1>3. CASE Tick
  <2> DEFINE Less(n) == IF n = 0 THEN 0 ELSE n - 1
  <2>1. /\ client' = [client EXCEPT !.last_sent = Less(@), !.last_received = Less(@)]
        /\ call' = [call EXCEPT !.timer = Less(@)]
        /\ UNCHANGED <<toServer, toClient, network, result, garbled, silent>>
    BY <1>3 DEF Tick
  <2>2. client \in ClientType /\ call \in CallType
    BY DEF WireInv, TypeOK
  <2>3. /\ client' \in ClientType
        /\ client'.isconnected = client.isconnected
        /\ client'.ping_outstanding = client.ping_outstanding
        /\ client.last_received = 0 => client'.last_received = 0
    BY <2>1, <2>2, TickedClient, ZenonT(40)
  <2>4. /\ call' \in CallType /\ call'.op = call.op /\ call'.id = call.id
    BY <2>1, <2>2, WireAssumption DEF CallType, CallTimes
  <2>5. TypeOK'
    BY <2>1, <2>3, <2>4 DEF WireInv, TypeOK, network
  <2>6. SilentInv'
    BY <2>1, <2>3 DEF WireInv, SilentInv
  <2>7. OneCall'
    BY <2>1, <2>4 DEF WireInv, OneCall
  <2>8. OnePlace'
    BY <2>1 DEF WireInv, OnePlace, Publishes, network
  <2>9. Stream'
    BY <2>1, <2>3, <2>4
       DEF WireInv, Stream, InStep, OwnPublish, OwnPuback, Publishes, Pubacks,
           network
  <2> QED BY <2>5, <2>6, <2>7, <2>8, <2>9 DEF WireInv
<1> QED BY <1>1, <1>2, <1>3

(* The fields of the broker's answers.                                     *)
LEMMA PubackRecord ==
    ASSUME NEW id, NEW a, a = [Packet("PUBACK") EXCEPT !.id = id]
    PROVE  a = [type |-> "PUBACK", id |-> id, ok |-> TRUE, msg |-> NoMessage]
BY DEF Packet

LEMMA SubackRecord ==
    ASSUME NEW id, NEW ok, NEW a, a = [Packet("SUBACK") EXCEPT !.ok = ok, !.id = id]
    PROVE  a = [type |-> "SUBACK", id |-> id, ok |-> ok, msg |-> NoMessage]
BY DEF Packet

(* The broker's answers: a PUBACK to a publish only, and always to one.    *)
LEMMA AnswerTypes ==
    ASSUME NEW p \in ServerPackets
    PROVE  /\ \A a \in Answers(p) :
                 /\ a \in ClientPackets
                 /\ a.type = "PUBACK" => p.type = "PUBLISH" /\ a.id = p.id
                 /\ p.type = "PUBLISH" => a.type = "PUBACK"
           /\ p.type = "PUBLISH" => Answers(p) # {}
<1>1. p.id \in PacketIds /\ 0 \in PacketIds
  <2>1. p.id \in PacketIds
    BY DEF ServerPackets
  <2>2. 0 \in PacketIds
    BY WireAssumption DEF PacketIds
  <2> QED BY <2>1, <2>2
<1>2. p.type \in {"PUBLISH", "CONNECT", "SUBSCRIBE", "PUBACK", "PINGREQ", "DISCONNECT"}
  BY DEF ServerPackets
<1>3. CASE p.type = "PUBLISH"
  <2>1. Answers(p) = {[Packet("PUBACK") EXCEPT !.id = p.id]}
    BY <1>3 DEF Answers
  <2>2. \A a \in Answers(p) :
           a = [type |-> "PUBACK", id |-> p.id, ok |-> TRUE, msg |-> NoMessage]
    <3> SUFFICES ASSUME NEW a, a = [Packet("PUBACK") EXCEPT !.id = p.id]
                 PROVE  a = [type |-> "PUBACK", id |-> p.id, ok |-> TRUE,
                             msg |-> NoMessage]
      BY <2>1
    <3> QED BY PubackRecord
  <2>3. \A a \in Answers(p) : a \in ClientPackets
    <3>1. \A id \in PacketIds :
             [type |-> "PUBACK", id |-> id, ok |-> TRUE, msg |-> NoMessage] \in ClientPackets
      BY DEF ClientPackets, AckTypes
    <3> QED BY <1>1, <2>2, <3>1
  <2>4. Answers(p) # {}
    BY <2>1
  <2>5. \A a \in Answers(p) : a.type = "PUBACK" /\ a.id = p.id
    BY <2>2
  <2> QED BY <1>3, <2>3, <2>4, <2>5
<1>4. CASE p.type = "CONNECT"
  <2>1. \A a \in Answers(p) : \E ok \in BOOLEAN :
           a = [Packet("CONNACK") EXCEPT !.ok = ok]
    BY <1>4 DEF Answers
  <2>2. \A a \in Answers(p) : \E ok \in BOOLEAN :
           a = [type |-> "CONNACK", id |-> 0, ok |-> ok, msg |-> NoMessage]
    BY <2>1 DEF Packet
  <2>3. \A a \in Answers(p) : a \in ClientPackets /\ a.type = "CONNACK"
    BY <1>1, <2>2 DEF ClientPackets, AckTypes
  <2> QED BY <1>4, <2>3
<1>5. CASE p.type = "SUBSCRIBE"
  <2>1. \A a \in Answers(p) : \E ok \in BOOLEAN :
           a = [Packet("SUBACK") EXCEPT !.ok = ok, !.id = p.id]
    BY <1>5 DEF Answers
  <2>2. \A a \in Answers(p) : \E ok \in BOOLEAN :
           a = [type |-> "SUBACK", id |-> p.id, ok |-> ok, msg |-> NoMessage]
    <3> SUFFICES ASSUME NEW a \in Answers(p), NEW ok \in BOOLEAN,
                        a = [Packet("SUBACK") EXCEPT !.ok = ok, !.id = p.id]
                 PROVE  a = [type |-> "SUBACK", id |-> p.id, ok |-> ok,
                             msg |-> NoMessage]
      BY <2>1
    <3> QED BY SubackRecord
  <2>3. \A a \in Answers(p) : a \in ClientPackets /\ a.type = "SUBACK"
    BY <1>1, <2>2 DEF ClientPackets, AckTypes
  <2> QED BY <1>5, <2>3
<1>6. CASE p.type = "PINGREQ"
  <2>1. Answers(p) = {Packet("PINGRESP")}
    BY <1>6 DEF Answers
  <2>2. Packet("PINGRESP") \in ClientPackets /\ Packet("PINGRESP").type = "PINGRESP"
    BY PacketTypes DEF AckTypes
  <2> QED BY <1>6, <2>1, <2>2
<1>7. CASE p.type = "PUBACK" \/ p.type = "DISCONNECT"
  <2>1. Answers(p) = {}
    BY <1>7 DEF Answers
  <2> QED BY <1>7, <2>1
<1> QED BY <1>2, <1>3, <1>4, <1>5, <1>6, <1>7

(* The broker takes a packet: a publish is accepted and answered, and      *)
(* nothing else of it is left in the stream.                               *)
LEMMA ReceiveKeeps ==
    ASSUME WireInv, BrokerReceive
    PROVE  WireInv'
<1> DEFINE p == Head(toServer)
           n == Len(toClient) + 1
<1>1. /\ toServer # <<>> /\ toServer' = Tail(toServer)
      /\ accepted' = [m \in Messages |-> IF m = p.msg THEN accepted[m] + 1
                                                     ELSE accepted[m]]
      /\ UNCHANGED <<client, call, link, late, result, garbled, silent, faults, commands>>
  BY DEF BrokerReceive
<1>2. /\ toServer \in Seq(ServerPackets) /\ toClient \in Seq(ClientPackets)
      /\ accepted \in [Messages -> Nat] /\ serving \in BOOLEAN
  BY DEF WireInv, TypeOK
<1>3. /\ p = toServer[1] /\ 1 \in DOMAIN toServer /\ p \in ServerPackets
      /\ toServer' \in Seq(ServerPackets)
      /\ \A i \in DOMAIN toServer' : /\ i \in Nat /\ i # 0
                                    /\ i + 1 \in DOMAIN toServer
                                    /\ toServer'[i] = toServer[i + 1]
  <2>1. \A i \in DOMAIN toServer' : i # 0
    BY <1>1, <1>2
  <2> QED BY <1>1, <1>2, <2>1, TailPositions
<1>4. \/ UNCHANGED <<toClient, serving>> /\ Answers(p) = {}
      \/ \E a \in Answers(p) : /\ toClient' = Append(toClient, a)
                               /\ serving' = (serving \/ (a.type = "CONNACK" /\ a.ok))
  BY DEF BrokerReceive
<1> HIDE DEF p
<1>5. /\ \A a \in Answers(p) :
            /\ a \in ClientPackets
            /\ a.type = "PUBACK" => p.type = "PUBLISH" /\ a.id = p.id
            /\ p.type = "PUBLISH" => a.type = "PUBACK"
      /\ p.type = "PUBLISH" => Answers(p) # {}
  BY <1>3, AnswerTypes
<1>6. /\ toClient' \in Seq(ClientPackets)
      /\ Pubacks(toClient') = IF p.type = "PUBLISH"
                              THEN Pubacks(toClient) \cup {n} ELSE Pubacks(toClient)
      /\ \A i \in Pubacks(toClient) : toClient'[i] = toClient[i]
      /\ p.type = "PUBLISH" => toClient'[n].id = p.id
  <2>1. CASE UNCHANGED <<toClient, serving>> /\ Answers(p) = {}
    BY <1>2, <1>5, <2>1
  <2>2. ASSUME NEW a \in Answers(p), toClient' = Append(toClient, a)
        PROVE  <1>6!1 /\ <1>6!2 /\ <1>6!3 /\ <1>6!4
    <3>1. /\ toClient' \in Seq(ClientPackets)
          /\ DOMAIN toClient' = DOMAIN toClient \cup {n}
          /\ n \notin DOMAIN toClient
          /\ \A i \in DOMAIN toClient : toClient'[i] = toClient[i]
          /\ toClient'[n] = a
      BY <1>2, <1>5, <2>2, AppendPositions
    <3> QED BY <1>5, <3>1 DEF Pubacks
  <2> QED BY <1>4, <2>1, <2>2
<1>7. serving' \in BOOLEAN
  BY <1>2, <1>4
<1>8. \A i \in Publishes(toServer') :
         i \in Nat /\ i # 0 /\ i + 1 \in Publishes(toServer) /\ toServer'[i] = toServer[i + 1]
  BY <1>3 DEF Publishes
<1>9. /\ p.type = "PUBLISH" => 1 \in Publishes(toServer) /\ p.msg \in Messages
      /\ p.type # "PUBLISH" => accepted' = accepted
  <2>1. p.type = "PUBLISH" => 1 \in Publishes(toServer) /\ p.msg \in Messages
    BY <1>3, PacketMessage DEF Publishes
  <2>2. p.type # "PUBLISH" => p.msg \notin Messages
    BY <1>3, PacketMessage, WireAssumption
  <2>3. p.type # "PUBLISH" => accepted' = accepted
    BY <1>1, <1>2, <2>2
  <2> QED BY <2>1, <2>3
<1>10. \A i \in Publishes(toServer) : toServer[i].msg \in Messages
  BY <1>2, PublishMessage
<1>11. Publishes(toServer)' = Publishes(toServer') /\ Pubacks(toClient)' = Pubacks(toClient')
  BY DEF Publishes, Pubacks
<1> HIDE DEF n
<1>12. /\ accepted' \in [Messages -> Nat]
       /\ \A m \in Messages : m # p.msg => accepted'[m] = accepted[m]
       /\ \A m \in Messages : m = p.msg => accepted'[m] = accepted[m] + 1
  BY <1>1, <1>2
<1>13. TypeOK'
  BY <1>1, <1>3, <1>6, <1>7, <1>12 DEF WireInv, TypeOK
<1>14. SilentInv' /\ OneCall'
  BY <1>1 DEF WireInv, SilentInv, OneCall
<1>15. OnePlace'
  <2>1. CASE p.type # "PUBLISH"
    <3>1. accepted' = accepted /\ result' = result /\ late' = late
      BY <1>1, <1>9, <2>1
    <3> QED BY <1>8, <1>11, <3>1 DEF WireInv, OnePlace
  <2>2. CASE p.type = "PUBLISH"
    <3>1. /\ result[p.msg] # "new" /\ accepted[p.msg] = 0 /\ p.msg \notin late
          /\ \A i \in Publishes(toServer) : i # 1 => toServer[i].msg # p.msg
      BY <1>3, <1>9, <2>2 DEF WireInv, OnePlace
    <3>2. \A i \in Publishes(toServer') : toServer'[i].msg # p.msg
                                         /\ toServer'[i].msg \in Messages
      BY <1>8, <1>10, <3>1
    <3>3. late \subseteq Messages
      BY DEF WireInv, TypeOK
    <3>4. \A m \in Messages : result[m] = "new" => accepted'[m] = 0 /\ m \notin late
      BY <1>12, <3>1 DEF WireInv, OnePlace
    <3>5. \A m \in late : accepted'[m] = 0
      BY <1>12, <3>1, <3>3 DEF WireInv, OnePlace
    <3>6. \A i \in Publishes(toServer') :
             /\ result[toServer'[i].msg] # "new"
             /\ accepted'[toServer'[i].msg] = 0
             /\ toServer'[i].msg \notin late
      BY <1>8, <1>12, <3>2 DEF WireInv, OnePlace
    <3>7. \A i, j \in Publishes(toServer') :
             toServer'[i].msg = toServer'[j].msg => i = j
      <4> SUFFICES ASSUME NEW i \in Publishes(toServer'), NEW j \in Publishes(toServer'),
                          toServer'[i].msg = toServer'[j].msg
                   PROVE  i = j
        OBVIOUS
      <4>1. i + 1 = j + 1
        BY <1>8 DEF WireInv, OnePlace
      <4> QED BY <1>8, <4>1
    <3>8. late' = late /\ result' = result
      BY <1>1
    <3> QED BY <1>11, <3>4, <3>5, <3>6, <3>7, <3>8 DEF OnePlace
  <2> QED BY <2>1, <2>2
<1>16. Stream'
  <2> SUFFICES ASSUME InStep' PROVE Stream'
    BY DEF Stream
  <2>1. /\ \A i \in Publishes(toServer) : OwnPublish(i)
        /\ \A i \in Pubacks(toClient) : OwnPuback(i)
        /\ \A i, j \in Publishes(toServer) : i = j
        /\ \A i, j \in Pubacks(toClient) : i = j
    BY <1>1 DEF WireInv, Stream, InStep
  <2>2. call' = call /\ result' = result
    BY <1>1
  <2>3. CASE p.type # "PUBLISH"
    <3>1. accepted' = accepted /\ Pubacks(toClient') = Pubacks(toClient)
      BY <1>6, <1>9, <2>3
    <3>2. \A i \in Publishes(toServer') : OwnPublish(i)'
      BY <1>8, <1>11, <2>1, <2>2, <3>1 DEF OwnPublish
    <3>3. \A i \in Pubacks(toClient') : OwnPuback(i)'
      BY <1>6, <2>1, <2>2, <3>1 DEF OwnPuback
    <3>4. \A i, j \in Publishes(toServer') : i = j
      <4> SUFFICES ASSUME NEW i \in Publishes(toServer'), NEW j \in Publishes(toServer')
                   PROVE  i = j
        OBVIOUS
      <4>1. i + 1 = j + 1
        BY <1>8, <2>1
      <4> QED BY <1>8, <4>1
    <3> QED BY <1>11, <2>1, <3>1, <3>2, <3>3, <3>4 DEF Stream
  <2>4. CASE p.type = "PUBLISH"
    <3>1. OwnPublish(1) /\ Pubacks(toClient) = {}
      BY <1>9, <2>1, <2>4 DEF OwnPublish
    <3>2. Publishes(toServer') = {}
      <4> SUFFICES ASSUME NEW i \in Publishes(toServer') PROVE FALSE
        OBVIOUS
      <4>1. i + 1 = 1
        BY <1>8, <1>9, <2>1, <2>4
      <4> QED BY <1>8, <4>1
    <3>3. Pubacks(toClient') = {n} /\ toClient'[n].id = p.id
      BY <1>6, <2>4, <3>1
    <3>4. \A m \in Messages : result[m] = "calling" => accepted'[m] > 0
      <4>1. result[p.msg] = "calling" /\ p.msg \in Messages
        BY <1>3, <1>9, <2>4, <3>1 DEF OwnPublish
      <4>2. \A m \in Messages : result[m] = "calling" => m = p.msg
        BY <4>1 DEF WireInv, OneCall
      <4> QED BY <1>2, <1>12, <4>2
    <3>5. call.op = "publish" /\ p.id = call.id
      BY <1>3, <3>1 DEF OwnPublish
    <3>6. \A i \in Pubacks(toClient') : i = n
      BY <3>3
    <3>7. \A i \in Pubacks(toClient') : OwnPuback(i)'
      <4> SUFFICES ASSUME NEW i \in Pubacks(toClient') PROVE OwnPuback(i)'
        OBVIOUS
      <4>1. toClient'[i].id = call.id
        BY <3>3, <3>5, <3>6
      <4> QED BY <2>2, <3>4, <3>5, <4>1 DEF OwnPuback
    <3>8. \A i, j \in Pubacks(toClient') : i = j
      BY <3>6
    <3> QED BY <1>11, <3>2, <3>7, <3>8 DEF Stream
  <2> QED BY <2>3, <2>4
<1> QED BY <1>13, <1>14, <1>15, <1>16 DEF WireInv

(* The broker sends a message: no acknowledgement among it.                *)
LEMMA BrokerKeeps ==
    ASSUME WireInv, BrokerPublish
    PROVE  WireInv'
<1>1. PICK t \in {"PUBLISH", "error"} : toClient' = Append(toClient, Packet(t))
  BY DEF BrokerPublish
<1>2. /\ commands > 0 /\ commands' = commands - 1
      /\ UNCHANGED <<client, call, toServer, link, serving, late, result, accepted,
                     garbled, silent, faults>>
  BY DEF BrokerPublish
<1>3. Packet(t) \in ClientPackets /\ Packet(t).type # "PUBACK"
  BY PacketTypes
<1>4. toClient \in Seq(ClientPackets)
  BY DEF WireInv, TypeOK
<1>5. /\ toClient' \in Seq(ClientPackets)
      /\ DOMAIN toClient' = DOMAIN toClient \cup {Len(toClient) + 1}
      /\ \A i \in DOMAIN toClient : toClient'[i] = toClient[i]
      /\ toClient'[Len(toClient) + 1] = Packet(t)
  BY <1>1, <1>3, <1>4, AppendPositions
<1>6. /\ Pubacks(toClient)' = Pubacks(toClient)
      /\ \A i \in Pubacks(toClient) : toClient'[i] = toClient[i]
  BY <1>3, <1>5 DEF Pubacks
<1>7. TypeOK'
  <2>1. commands' \in 0..MaxCommands
    BY <1>2, WireAssumption DEF WireInv, TypeOK
  <2> QED BY <1>2, <1>5, <2>1 DEF WireInv, TypeOK
<1>8. SilentInv' /\ OneCall' /\ OnePlace'
  BY <1>2 DEF WireInv, SilentInv, OneCall, OnePlace, Publishes
<1>9. Publishes(toServer)' = Publishes(toServer)
  BY <1>2 DEF Publishes
<1>10. Stream'
  BY <1>2, <1>6, <1>9 DEF WireInv, Stream, InStep, OwnPublish, OwnPuback
<1> QED BY <1>7, <1>8, <1>10 DEF WireInv

(* A publish that was in flight on an old connection arrives.              *)
LEMMA LateKeeps ==
    ASSUME WireInv, NEW m \in Messages, LateArrival(m)
    PROVE  WireInv'
<1>1. /\ m \in late /\ late' = late \ {m}
      /\ accepted' = [accepted EXCEPT ![m] = @ + 1]
      /\ UNCHANGED <<client, call, toServer, toClient, link, serving, result, garbled,
                     silent, faults, commands>>
  BY DEF LateArrival
<1>2. /\ accepted \in [Messages -> Nat] /\ late \subseteq Messages
      /\ toServer \in Seq(ServerPackets)
  BY DEF WireInv, TypeOK
<1>3. /\ accepted' \in [Messages -> Nat] /\ late' \subseteq Messages
      /\ accepted'[m] > 0
      /\ \A k \in Messages : k # m => accepted'[k] = accepted[k]
  BY <1>1, <1>2
<1>4. TypeOK'
  BY <1>1, <1>3 DEF WireInv, TypeOK
<1>5. SilentInv' /\ OneCall'
  BY <1>1 DEF WireInv, SilentInv, OneCall
<1>6. Publishes(toServer)' = Publishes(toServer) /\ Pubacks(toClient)' = Pubacks(toClient)
  BY <1>1 DEF Publishes, Pubacks
<1>7. \A i \in Publishes(toServer) : toServer[i].msg \in Messages /\ toServer[i].msg # m
  BY <1>1, <1>2, PublishMessage DEF WireInv, OnePlace
<1>8. OnePlace'
  BY <1>1, <1>2, <1>3, <1>6, <1>7 DEF WireInv, OnePlace
<1>9. \A k \in Messages : accepted[k] > 0 => accepted'[k] > 0
  BY <1>3
<1>10. Stream'
  BY <1>1, <1>6, <1>9 DEF WireInv, Stream, InStep, OwnPublish, OwnPuback
<1> QED BY <1>4, <1>5, <1>8, <1>10 DEF WireInv

(* The link fails: the packets to the broker are lost.                     *)
LEMMA LinkKeeps ==
    ASSUME WireInv, LinkFails
    PROVE  WireInv'
<1>1. /\ link' \in {"dead", "broken"} /\ toServer' = <<>>
      /\ toClient' \in {<<>>, toClient}
      /\ faults > 0 /\ faults' = faults - 1
      /\ UNCHANGED <<client, call, serving, late, result, accepted, garbled, silent,
                     commands>>
  BY DEF LinkFails
<1>2. faults' \in 0..MaxFaults
  BY <1>1, WireAssumption DEF WireInv, TypeOK
<1>3. toServer' \in Seq(ServerPackets) /\ toClient' \in Seq(ClientPackets)
  <2>1. <<>> \in Seq(ServerPackets) /\ <<>> \in Seq(ClientPackets)
    OBVIOUS
  <2>2. toClient \in Seq(ClientPackets)
    BY DEF WireInv, TypeOK
  <2> QED BY <1>1, <2>1, <2>2
<1>4. TypeOK'
  BY <1>1, <1>2, <1>3 DEF WireInv, TypeOK
<1>5. SilentInv' /\ OneCall'
  BY <1>1 DEF WireInv, SilentInv, OneCall
<1>6. Publishes(toServer)' = {}
  BY <1>1 DEF Publishes
<1>7. \A i \in Pubacks(toClient)' : i \in Pubacks(toClient) /\ toClient'[i] = toClient[i]
  BY <1>1 DEF Pubacks
<1>8. OnePlace'
  BY <1>1, <1>6 DEF WireInv, OnePlace
<1>9. Stream'
  BY <1>1, <1>6, <1>7 DEF WireInv, Stream, InStep, OwnPuback
<1> QED BY <1>4, <1>5, <1>8, <1>9 DEF WireInv

(* The invariant is inductive.                                             *)
LEMMA WireStep == WireInv /\ [Next]_vars => WireInv'
<1> SUFFICES ASSUME WireInv, [Next]_vars PROVE WireInv'
  OBVIOUS
<1>1. CASE MQTTConnect
  BY <1>1, ConnectKeeps
<1>2. CASE MQTTSubscribe
  BY <1>2, SubscribeKeeps
<1>3. CASE MQTTYield \/ MQTTDisconnect \/ Tick
  BY <1>3, OtherKeeps
<1>4. ASSUME NEW m \in Messages, MQTTPublish(m) \/ LateArrival(m)
      PROVE  WireInv'
  BY <1>4, PublishKeeps, LateKeeps
<1>5. CASE Read
  BY <1>5, ReadKeeps
<1>6. CASE BrokerReceive
  BY <1>6, ReceiveKeeps
<1>7. CASE BrokerPublish
  BY <1>7, BrokerKeeps
<1>8. CASE LinkFails
  BY <1>8, LinkKeeps
<1>9. CASE UNCHANGED vars
  BY <1>9
     DEF vars, WireInv, TypeOK, SilentInv, OneCall, OnePlace, Stream, InStep,
         OwnPublish, OwnPuback, Publishes, Pubacks
<1> QED BY <1>1, <1>2, <1>3, <1>4, <1>5, <1>6, <1>7, <1>8, <1>9 DEF Next, Read

(* It holds at the start, before the first connection.                     *)
LEMMA WireInit == Init => WireInv
<1> SUFFICES ASSUME Init PROVE WireInv
  OBVIOUS
<1>1. client \in ClientType /\ ~client.isconnected
  BY WireAssumption DEF Init, MQTTClientInit, ClientType
<1>2. call \in CallType /\ call.op = "none"
  BY IdleType DEF Init
<1>3. TypeOK
  <2>1. toServer \in Seq(ServerPackets) /\ toClient \in Seq(ClientPackets)
    BY DEF Init
  <2>2. faults \in 0..MaxFaults /\ commands \in 0..MaxCommands
    BY WireAssumption DEF Init
  <2>3. /\ late \subseteq Messages /\ accepted \in [Messages -> Nat]
        /\ result \in [Messages -> {"new", "calling", "ok", "failed"}]
    BY DEF Init
  <2>4. link \in {"up", "dead", "broken"} /\ silent \in 0..2
    BY DEF Init
  <2>5. serving \in BOOLEAN /\ garbled \in BOOLEAN
    BY DEF Init
  <2> QED BY <1>1, <1>2, <2>1, <2>2, <2>3, <2>4, <2>5 DEF TypeOK
<1>4. Publishes(toServer) = {} /\ Pubacks(toClient) = {}
  BY DEF Init, Publishes, Pubacks
<1>5. SilentInv /\ OneCall
  BY DEF Init, SilentInv, OneCall
<1>6. OnePlace
  BY <1>4 DEF Init, OnePlace
<1>7. Stream
  BY <1>4 DEF Stream
<1> QED BY <1>3, <1>5, <1>6, <1>7 DEF WireInv

(* So it holds always.                                                     *)
LEMMA WireInvariant == Spec => []WireInv
BY WireInit, WireStep, PTL DEF Spec

-----------------------------------------------------------------------------
(* What the invariant is for.                                              *)

(* A publish waits on an open session as long as the stream is in step:    *)
(* only a packet of an unknown type closes it and lets the call wait on.   *)
SessionOpen == call.op = "publish" /\ ~garbled => client.isconnected

(* A publish that waits was sent on an open session.                       *)
LEMMA PublishOpen ==
    ASSUME WireInv, NEW m \in Messages, MQTTPublish(m)
    PROVE  SessionOpen'
<1> DEFINE id == getNextPacketId(client)
<1>1. CASE ~client.isconnected
  BY <1>1 DEF MQTTPublish, SessionOpen
<1>2. CASE client.isconnected
  <2>1. PICK p, c : /\ c = [client EXCEPT !.next_packetid = id]
                    /\ Begin("publish", c, p, CommandTimeout)
    BY <1>2 DEF MQTTPublish
  <2>2. c \in ClientType /\ SameSession(c, client)
    <3>1. client \in ClientType /\ id \in 1..MAX_PACKET_ID
      BY NextIdType DEF WireInv, TypeOK
    <3> HIDE DEF id
    <3> QED BY <2>1, <3>1, NextIdRecord
  <2>3. PICK s : /\ s.c.isconnected = c.isconnected
                 /\ IF s.ok THEN client' = s.c ELSE call' = Idle
    <3>1. Begin("publish", c, p, CommandTimeout)
      BY <2>1
    <3> QED BY <2>2, <3>1, BeginSend
  <2> QED BY <1>2, <2>2, <2>3, IdleType DEF SessionOpen, SameSession
<1> QED BY <1>1, <1>2

(* No step breaks it.                                                      *)
LEMMA SessionStep == WireInv /\ SessionOpen /\ [Next]_vars => SessionOpen'
<1> SUFFICES ASSUME WireInv, SessionOpen, [Next]_vars PROVE SessionOpen'
  OBVIOUS
<1>0. /\ TypeOK /\ SilentInv /\ client \in ClientType /\ garbled \in BOOLEAN
  BY DEF WireInv, TypeOK
<1>1. CASE MQTTConnect
  BY <1>1, IdleType DEF MQTTConnect, SessionOpen
<1>2. CASE MQTTSubscribe
  <2> DEFINE id == getNextPacketId(client)
  <2>1. /\ client.isconnected
        /\ Begin("subscribe", [client EXCEPT !.next_packetid = id],
                 [Packet("SUBSCRIBE") EXCEPT !.id = id], CommandTimeout)
    BY <1>2 DEF MQTTSubscribe
  <2>2. call'.op = "subscribe" \/ call'.op = "none"
    BY <2>1, IdleType DEF Begin
  <2> QED BY <2>2 DEF SessionOpen
<1>3. CASE MQTTYield \/ MQTTDisconnect
  BY <1>3 DEF MQTTYield, MQTTDisconnect, SessionOpen
<1>4. CASE Tick
  BY <1>0, <1>4 DEF Tick, SessionOpen, ClientType, WireInv, TypeOK, CallType
<1>5. ASSUME NEW m \in Messages, MQTTPublish(m)
      PROVE  SessionOpen'
  BY <1>5, PublishOpen
<1>6. CASE Read
  <2>1. PICK t \in ReadTypes, whole \in BOOLEAN, valid \in BOOLEAN :
           /\ Cycle(t, whole, valid)
           /\ garbled' \in BOOLEAN /\ (garbled' = garbled \/ garbled')
           /\ ~garbled => t # "other"
    BY <1>0, <1>6, ReadStep
  <2>2. /\ GoesOn \/ \E ok \in BOOLEAN : Ends(t, valid, ok)
        /\ call'.op # "none" /\ t # "other" /\ client.isconnected
              => client'.isconnected
    BY <1>0, <2>1, CycleStep
  <2>3. call'.op = "publish" => call.op = "publish"
    BY <2>2, IdleType DEF GoesOn, Ends
  <2> QED BY <1>0, <2>1, <2>2, <2>3 DEF SessionOpen
<1>7. CASE BrokerReceive \/ BrokerPublish \/ LinkFails \/ (\E m \in Messages : LateArrival(m))
  BY <1>7 DEF BrokerReceive, BrokerPublish, LinkFails, LateArrival, SessionOpen
<1>8. CASE UNCHANGED vars
  BY <1>8 DEF vars, SessionOpen
<1> QED BY <1>1, <1>2, <1>3, <1>4, <1>5, <1>6, <1>7, <1>8 DEF Next, Read

(* It holds always.                                                        *)
LEMMA SessionInvariant == Spec => []SessionOpen
<1>1. Init => SessionOpen
  BY IdleType DEF Init, SessionOpen
<1> QED BY <1>1, SessionStep, WireInvariant, PTL DEF Spec

(* A publish that succeeds in step has read its own acknowledgement.       *)
LEMMA SucceedsOnItsOwn ==
    ASSUME WireInv, SessionOpen, Read, NEW m \in Messages,
           result[m] = "calling", result'[m] = "ok"
    PROVE  /\ garbled' = garbled \/ garbled'
           /\ ~garbled => /\ Head(toClient).type = "PUBACK"
                          /\ Head(toClient).id = call.id
                          /\ accepted[m] > 0
<1>1. TypeOK /\ toClient \in Seq(ClientPackets) /\ call.op = "publish"
  BY DEF WireInv, TypeOK, OneCall
<1>2. PICK t \in ReadTypes, whole \in BOOLEAN, valid \in BOOLEAN :
           /\ Cycle(t, whole, valid)
           /\ \/ toClient' = toClient /\ ~valid
              \/ toClient' = toClient /\ garbled' /\ CutOff(t)
              \/ /\ toClient # <<>> /\ toClient' = Tail(toClient)
                 /\ garbled' = garbled
                 /\ ~garbled => t = Head(toClient).type
  BY <1>1, ReadStep
<1>3. GoesOn \/ \E ok \in BOOLEAN : Ends(t, valid, ok)
  BY <1>1, <1>2, CycleStep
<1>4. PICK ok \in BOOLEAN : Ends(t, valid, ok)
  BY <1>3 DEF GoesOn
<1>5. ok
  BY <1>1, <1>4 DEF Ends, Settle, Calling
<1>6. valid /\ t = "PUBACK"
  BY <1>1, <1>4, <1>5 DEF Ends, Expected
<1>7. /\ toClient # <<>> /\ (garbled' = garbled \/ garbled')
      /\ ~garbled => Head(toClient).type = "PUBACK"
  BY <1>2, <1>6 DEF CutOff
<1>8. ASSUME ~garbled
      PROVE  /\ Head(toClient).type = "PUBACK"
             /\ Head(toClient).id = call.id
             /\ accepted[m] > 0
  <2>1. InStep
    BY <1>1, <1>8 DEF InStep, SessionOpen
  <2>2. Head(toClient) = toClient[1] /\ 1 \in DOMAIN toClient
    BY <1>1, <1>7, TailPositions
  <2>3. toClient[1].type = "PUBACK"
    BY <1>6, <1>7, <1>8, <2>2
  <2>4. 1 \in Pubacks(toClient)
    BY <2>2, <2>3 DEF Pubacks
  <2>5. OwnPuback(1)
    BY <2>1, <2>4 DEF WireInv, Stream
  <2> QED BY <2>2, <2>3, <2>5 DEF OwnPuback
<1> QED BY <1>7, <1>8

(* A read ends no call, or the only one there is.                          *)
LEMMA ReadResult ==
    ASSUME WireInv, Read
    PROVE  \/ UNCHANGED result
           \/ \E m \in Messages :
                 /\ result[m] = "calling"
                 /\ \/ result' = [result EXCEPT ![m] = "failed"]
                    \/ result' = [result EXCEPT ![m] = "ok"] /\ result'[m] = "ok"
<1>1. TypeOK /\ result \in ResultType
  BY DEF WireInv, TypeOK, ResultType
<1>2. PICK t \in ReadTypes, whole \in BOOLEAN, valid \in BOOLEAN :
           Cycle(t, whole, valid)
  BY <1>1, ReadStep
<1>3. GoesOn \/ \E ok \in BOOLEAN : Ends(t, valid, ok)
  BY <1>1, <1>2, CycleStep
<1>4. CASE GoesOn
  BY <1>4 DEF GoesOn
<1>5. ASSUME NEW ok \in BOOLEAN, Settle(ok)
      PROVE  \/ UNCHANGED result
             \/ \E m \in Messages :
                   /\ result[m] = "calling"
                   /\ \/ result' = [result EXCEPT ![m] = "failed"]
                      \/ result' = [result EXCEPT ![m] = "ok"] /\ result'[m] = "ok"
  <2>1. CASE \A m \in Messages : result[m] # "calling"
    BY <1>1, <1>5, <2>1 DEF Settle, Calling, ResultType
  <2>2. ASSUME NEW m \in Messages, result[m] = "calling"
        PROVE  \/ result' = [result EXCEPT ![m] = "failed"]
               \/ result' = [result EXCEPT ![m] = "ok"] /\ result'[m] = "ok"
    <3>1. /\ call.op = "publish"
          /\ \A k \in Messages : result[k] = "calling" => k = m
      BY <2>2 DEF WireInv, OneCall
    <3>2. CASE ok
      <4>1. result' = [k \in Messages |-> IF k = m THEN "ok" ELSE result[k]]
        BY <1>5, <2>2, <3>1, <3>2 DEF Settle, Calling
      <4> QED BY <1>1, <4>1 DEF ResultType
    <3>3. CASE ~ok
      <4>1. result' = [k \in Messages |-> IF k = m THEN "failed" ELSE result[k]]
        BY <1>5, <2>2, <3>1, <3>3 DEF Settle, Calling
      <4> QED BY <1>1, <4>1 DEF ResultType
    <3> QED BY <3>2, <3>3
  <2> QED BY <2>1, <2>2
<1>6. CASE \E ok \in BOOLEAN : Ends(t, valid, ok)
  BY <1>5, <1>6 DEF Ends
<1> QED BY <1>3, <1>4, <1>6

-----------------------------------------------------------------------------
(* The theorems.                                                           *)

(* The packet id stays in the range a packet can carry, and timers, calls  *)
(* and packets keep their types (getNextPacketId, waitfor, cycle).         *)
THEOREM Types == Spec => []TypeOK
<1>1. WireInv => TypeOK
  BY DEF WireInv
<1> QED BY <1>1, WireInvariant, PTL

(* keepalive ends a session on which nothing is received: at most one      *)
(* cycle ends well after last_received has expired.                        *)
THEOREM SilenceIsNoticed == Spec => []SilenceNoticed
<1>1. WireInv => SilenceNoticed
  BY DEF WireInv, SilentInv, SilenceNoticed
<1> QED BY <1>1, WireInvariant, PTL

(* MQTTPublish matches acknowledgements by type only; on a stream in step  *)
(* the one that ends a publish with success is nevertheless its own.       *)
THEOREM PublishTakesItsOwnAck == Spec => AcknowledgedByItsOwn
<1> DEFINE A == \A m \in Messages : result[m] = "calling" /\ result'[m] = "ok" /\ ~garbled
                   => /\ Head(toClient).type = "PUBACK"
                      /\ Head(toClient).id = call.id
<1>1. WireInv /\ SessionOpen /\ [Next]_vars => [A]_vars
  <2> SUFFICES ASSUME WireInv, SessionOpen, Next, NEW m \in Messages,
                      result[m] = "calling", result'[m] = "ok", ~garbled
               PROVE  /\ Head(toClient).type = "PUBACK"
                      /\ Head(toClient).id = call.id
    OBVIOUS
  <2>1. CASE Read
    BY <2>1, SucceedsOnItsOwn
  <2>2. ASSUME NEW k \in Messages, MQTTPublish(k)
        PROVE  FALSE
    <3>1. result \in [Messages -> {"new", "calling", "ok", "failed"}]
      BY DEF WireInv, TypeOK
    <3> QED BY <2>2, <3>1 DEF MQTTPublish
  <2>3. CASE result' = result
    BY <2>3
  <2> QED
    BY <2>1, <2>2, <2>3
       DEF Next, Read, MQTTConnect, MQTTSubscribe, MQTTYield, MQTTDisconnect,
           LateArrival, Tick, BrokerReceive, BrokerPublish, LinkFails
<1>2. Spec => [][Next]_vars
  BY DEF Spec
<1> QED BY <1>1, <1>2, WireInvariant, SessionInvariant, PTL DEF AcknowledgedByItsOwn

(* A step of the packets is a step of the contract.                        *)
LEMMA ContractStep ==
    WireInv /\ SessionOpen /\ [Next]_vars => [Contract!Next]_(Contract!cvars)
<1> SUFFICES ASSUME WireInv, SessionOpen, [Next]_vars
             PROVE  Contract!Next \/ UNCHANGED <<result, accepted, garbled>>
  BY DEF Contract!cvars
<1>1. /\ accepted \in [Messages -> Nat] /\ garbled \in BOOLEAN
      /\ result \in [Messages -> {"new", "calling", "ok", "failed"}]
      /\ toServer \in Seq(ServerPackets)
  BY DEF WireInv, TypeOK
<1>2. garbled' \in BOOLEAN
  <2>1. TypeOK'
    BY WireStep DEF WireInv
  <2> QED BY <2>1 DEF TypeOK
<1>3. CASE MQTTConnect
  <2>1. Contract!Garble
    BY <1>2, <1>3 DEF MQTTConnect, Contract!Garble
  <2> QED BY <2>1 DEF Contract!Next
<1>4. CASE MQTTSubscribe \/ MQTTYield \/ MQTTDisconnect \/ Tick \/ BrokerPublish
             \/ LinkFails \/ UNCHANGED vars
  BY <1>4 DEF MQTTSubscribe, MQTTYield, MQTTDisconnect, Tick, BrokerPublish,
              LinkFails, vars, network
<1>5. ASSUME NEW m \in Messages, MQTTPublish(m)
      PROVE  Contract!Next
  <2>1. /\ result[m] = "new" /\ UNCHANGED <<accepted, garbled>>
        /\ \/ result' = [result EXCEPT ![m] = "failed"]
           \/ result' = [result EXCEPT ![m] = "calling"]
    BY <1>5 DEF MQTTPublish, network
  <2> QED BY <2>1 DEF Contract!Next, Contract!Call, Contract!Fail
<1>6. ASSUME NEW m \in Messages, LateArrival(m)
      PROVE  Contract!Next
  <2>1. /\ accepted[m] = 0 /\ result[m] # "new" /\ UNCHANGED <<result, garbled>>
        /\ accepted' = [accepted EXCEPT ![m] = @ + 1]
    BY <1>6 DEF LateArrival, WireInv, OnePlace
  <2>2. accepted' = [accepted EXCEPT ![m] = 1]
    BY <1>1, <2>1
  <2> QED BY <2>1, <2>2 DEF Contract!Next, Contract!Accept
<1>7. CASE BrokerReceive
  <2> DEFINE p == Head(toServer)
  <2>1. /\ toServer # <<>> /\ UNCHANGED <<result, garbled>>
        /\ accepted' = [m \in Messages |-> IF m = p.msg THEN accepted[m] + 1
                                                       ELSE accepted[m]]
    BY <1>7 DEF BrokerReceive
  <2>2. p = toServer[1] /\ 1 \in DOMAIN toServer /\ p \in ServerPackets
    BY <1>1, <2>1, TailPositions
  <2> HIDE DEF p
  <2>3. CASE p.type # "PUBLISH"
    <3>1. p.msg \notin Messages
      BY <2>2, <2>3, PacketMessage, WireAssumption
    <3> QED BY <1>1, <2>1, <3>1
  <2>4. CASE p.type = "PUBLISH"
    <3>1. /\ p.msg \in Messages /\ result[p.msg] # "new" /\ accepted[p.msg] = 0
      <4>1. 1 \in Publishes(toServer)
        BY <2>2, <2>4 DEF Publishes
      <4>2. p.msg \in Messages
        BY <2>2, <2>4, PacketMessage
      <4> QED BY <2>2, <4>1, <4>2 DEF WireInv, OnePlace
    <3>2. accepted' = [accepted EXCEPT ![p.msg] = 1]
      <4>1. PICK k \in Messages : k = p.msg /\ accepted[k] = 0
        BY <3>1
      <4>2. accepted' = [m \in Messages |-> IF m = k THEN accepted[m] + 1
                                                    ELSE accepted[m]]
        BY <2>1, <4>1
      <4>3. accepted \in [Messages -> Nat]
        BY <1>1
      <4>4. accepted' = [m \in Messages |-> IF m = k THEN 1 ELSE accepted[m]]
        BY <4>1, <4>2, <4>3
      <4>5. accepted' = [accepted EXCEPT ![k] = 1]
        BY <4>3, <4>4
      <4> QED BY <4>1, <4>5
    <3> QED BY <2>1, <3>1, <3>2 DEF Contract!Next, Contract!Accept
  <2> QED BY <2>3, <2>4
<1>8. CASE Read
  <2>1. UNCHANGED accepted
    BY <1>8 DEF Read, ReadPacket, ReadTimeout, ReadError, ReadStalled, Cycle
  <2>2. CASE UNCHANGED result
    <3>1. Contract!Garble
      BY <1>2, <2>1, <2>2 DEF Contract!Garble
    <3> QED BY <3>1 DEF Contract!Next
  <2>3. ASSUME NEW m \in Messages, result[m] = "calling",
               result' = [result EXCEPT ![m] = "failed"]
        PROVE  Contract!Next
    <3>1. Contract!Garble
      BY <1>2, <2>1, <2>3 DEF Contract!Garble
    <3> QED BY <3>1 DEF Contract!Next
  <2>4. ASSUME NEW m \in Messages, result[m] = "calling",
               result' = [result EXCEPT ![m] = "ok"], result'[m] = "ok"
        PROVE  Contract!Next
    <3>1. ~garbled => accepted[m] > 0
      BY <1>8, <2>4, SucceedsOnItsOwn
    <3>2. CASE garbled' = garbled
      <4>1. Contract!Succeed(m)
        BY <2>1, <2>4, <3>1, <3>2 DEF Contract!Succeed
      <4> QED BY <4>1 DEF Contract!Next
    <3>3. CASE garbled' # garbled
      <4>1. ~garbled
        <5>1. garbled' = garbled \/ garbled'
          BY <1>8, <2>4, SucceedsOnItsOwn
        <5> QED BY <1>1, <1>2, <3>3, <5>1
      <4>2. Contract!Garble
        BY <1>2, <2>1, <2>4, <3>1, <4>1 DEF Contract!Garble
      <4> QED BY <4>2 DEF Contract!Next
    <3> QED BY <3>2, <3>3
  <2> QED BY <1>8, <2>2, <2>3, <2>4, ReadResult
<1> QED BY <1>3, <1>4, <1>5, <1>6, <1>7, <1>8 DEF Next, Read

(* MQTTPublish keeps its contract: whatever packets are lost or late,      *)
(* whatever times out and however often the client connects, a publish     *)
(* that returns SUCCESS on a stream in step was accepted by the broker,    *)
(* and none is accepted twice or before it was called.                     *)
THEOREM ImplementsPublishContract == Spec => ContractKept
<1>1. Init => Contract!Init
  BY DEF Init, Contract!Init
<1> QED BY <1>1, ContractStep, WireInvariant, SessionInvariant, PTL
           DEF Spec, ContractKept, Contract!Spec
=============================================================================
