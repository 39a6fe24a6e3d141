----------------------------- MODULE MqttWire -----------------------------
(***************************************************************************)
(* The packets between MQTTClient.c and the broker: sending with short     *)
(* writes, reading with time-outs, acknowledgements that are matched by    *)
(* their type only, the keepalive timers, links that die silently or break,*)
(* and packets of an old connection that arrive late.                      *)
(*                                                                         *)
(* The lock of the client is held for a whole call, so there is one caller.*)
(* Timers hold the time that is left: expired is 0.  The byte stream is    *)
(* abstracted to packets; a read cut off in the middle of one leaves the   *)
(* stream garbled, and every later read of it may see any packet.          *)
(***************************************************************************)
EXTENDS Naturals, Sequences

CONSTANTS Messages,        \* the calls of MQTTPublish, one value each
          NoMessage,       \* what the other packets carry
          MAX_PACKET_ID,   \* 65535 in the code
          KeepAlive,       \* keepAliveInterval
          CommandTimeout,  \* command_timeout_ms
          YieldTime,       \* timeout_ms of MQTTYield
          PubackTime,      \* what cycle gives an expired timer to send a PUBACK
          MaxFaults,       \* links that die or break, and reads cut off in a packet
          MaxCommands      \* messages the broker sends

ASSUME WireAssumption ==
    /\ NoMessage \notin Messages
    /\ MAX_PACKET_ID \in Nat \ {0} /\ KeepAlive \in Nat \ {0}
    /\ CommandTimeout \in Nat /\ YieldTime \in Nat /\ PubackTime \in Nat
    /\ MaxFaults \in Nat /\ MaxCommands \in Nat

VARIABLES
    client,      \* the fields of MQTTClient that the packets change
    call,        \* the call in progress
    toServer,    \* packets on their way to the broker
    toClient,    \* packets on their way to the client
    link,        \* the connection under them
    serving,     \* the broker has accepted this connection
    late,        \* publishes in flight on connections given up
    result,      \* what the caller of each MQTTPublish knows
    accepted,    \* how often the broker has accepted each publish
    garbled,     \* the stream is read out of step
    silent,      \* history: cycles finished since last_received expired
    faults, commands   \* what is left of each bound

vars == <<client, call, toServer, toClient, link, serving, late, result,
          accepted, garbled, silent, faults, commands>>
network == <<link, serving, late, accepted, faults, commands>>

AckTypes == {"CONNACK", "SUBACK", "PUBACK", "PINGRESP"}
Idle == [op |-> "none", id |-> 0, timer |-> 0]

Packet(t) == [type |-> t, id |-> 0, ok |-> TRUE, msg |-> NoMessage]

\* A packet carries a publish or nothing; a packet for the client that is too
\* long for its buffer is one of type "error".
PacketIds == 0..MAX_PACKET_ID
ServerPackets ==
    [type : {"PUBLISH"}, id : PacketIds, ok : {TRUE}, msg : Messages] \cup
    [type : {"CONNECT", "SUBSCRIBE", "PUBACK", "PINGREQ", "DISCONNECT"},
     id : PacketIds, ok : {TRUE}, msg : {NoMessage}]
ClientPackets ==
    [type : AckTypes \cup {"PUBLISH", "error"}, id : PacketIds, ok : BOOLEAN,
     msg : {NoMessage}]

Calling == {m \in Messages : result[m] = "calling"}

----------------------------------------------------------------------------
(* The client *)

MQTTClientInit ==
    [isconnected |-> FALSE, ping_outstanding |-> FALSE, next_packetid |-> 1,
     last_sent |-> 0, last_received |-> 0]

\* Mutant of getNextPacketId: the id does not wrap.
MutNextPacketId(c) == c.next_packetid + 1

getNextPacketId(c) ==
    IF c.next_packetid = MAX_PACKET_ID THEN 1 ELSE c.next_packetid + 1

MQTTCloseSession(c) ==
    [c EXCEPT !.ping_outstanding = FALSE, !.isconnected = FALSE]

\* Every write starts at buf[sent] and asks for the whole length again, so a
\* packet is complete only if the writes add up to its length exactly; after a
\* short write the rest may go out together with what lies behind it.
sendPacket(c, out, p) ==
    LET sends == IF link = "broken" THEN {"short"} ELSE {"short", "whole", "over"}
    IN {[c   |-> IF s = "whole" THEN [c EXCEPT !.last_sent = KeepAlive] ELSE c,
         out |-> IF s # "short" /\ link = "up" THEN Append(out, p) ELSE out,
         ok  |-> s = "whole"] : s \in sends}

\* Mutant of keepalive: an outstanding ping does not end the session.
MutKeepalive(w) ==
    IF w.c.last_sent > 0 /\ w.c.last_received > 0 THEN {w}
    ELSE {[w EXCEPT !.c = [s.c EXCEPT !.ping_outstanding = s.ok \/ @],
                    !.out = s.out, !.rc = IF s.ok THEN @ ELSE "FAILURE"]
             : s \in sendPacket(w.c, w.out, Packet("PINGREQ"))}

\* Expired timers send a PINGREQ, or end the session if one is outstanding.
\* Sending it restarts last_sent but not last_received.
keepalive(w) ==
    IF w.c.last_sent > 0 /\ w.c.last_received > 0 THEN {w}
    ELSE IF w.c.ping_outstanding THEN {[w EXCEPT !.rc = "FAILURE"]}
    ELSE {[w EXCEPT !.c = [s.c EXCEPT !.ping_outstanding = s.ok],
                    !.out = s.out, !.rc = IF s.ok THEN @ ELSE "FAILURE"]
             : s \in sendPacket(w.c, w.out, Packet("PINGREQ"))}

\* The read sets last_received unless it timed out or failed.
Received(c, t) ==
    IF t \in {"none", "error"} THEN c
    ELSE [c EXCEPT !.last_received = KeepAlive]

\* The PUBACK for a PUBLISH of QoS 1; the caller's timer is restarted for it if
\* it has expired.
Acknowledge(w) ==
    UNION {LET a == [w EXCEPT !.c = s.c, !.out = s.out,
                              !.timer = IF @ = 0 THEN PubackTime ELSE @]
           IN IF s.ok THEN keepalive(a) ELSE {[a EXCEPT !.rc = "FAILURE"]}
             : s \in sendPacket(w.c, w.out, Packet("PUBACK"))}

\* One cycle on a packet of type t, "none" for a time-out, "error" for a
\* negative read and "other" for a type that the switch does not know: the
\* switch, keepalive unless the switch left early, and the exit.  rc is
\* FAILURE or the type.  A PUBLISH of QoS 1 is acknowledged, one of QoS 0 not.
Switch(c, t, whole) ==
    LET w == [c |-> Received(c, t), out |-> toServer, rc |-> t, timer |-> call.timer]
    IN IF t = "error" THEN {[w EXCEPT !.rc = "FAILURE"]}
       ELSE IF t = "other" THEN {w}
       ELSE IF t = "PINGRESP" THEN keepalive([w EXCEPT !.c.ping_outstanding = FALSE])
       ELSE IF t # "PUBLISH" THEN keepalive(w)
       ELSE IF ~whole THEN {w}
       ELSE keepalive(w) \cup Acknowledge(w)

cycle(t, whole) ==
    {IF w.rc \in {"FAILURE", "other"} /\ w.c.isconnected
     THEN [w EXCEPT !.c = MQTTCloseSession(w.c)] ELSE w
       : w \in Switch(client, t, whole)}

\* What the calls wait for.
Expected(op) == IF op = "connect" THEN "CONNACK"
                ELSE IF op = "subscribe" THEN "SUBACK"
                ELSE IF op = "publish" THEN "PUBACK" ELSE "nothing"

Settle(ok) ==
    result' = [m \in Messages |-> IF m \in Calling /\ call.op = "publish"
                                  THEN IF ok THEN "ok" ELSE "failed"
                                  ELSE result[m]]

\* Mutant of Return: a failed call leaves the session open.
MutReturn(c, ok) ==
    /\ client' = IF call.op = "connect" /\ ok
                 THEN [c EXCEPT !.isconnected = TRUE, !.ping_outstanding = FALSE]
                 ELSE c
    /\ Settle(ok)
    /\ call' = Idle

\* The end of a call: MQTTConnect marks the session open, MQTTSubscribe and
\* MQTTPublish close it on every failure.
Return(c, ok) ==
    /\ client' = IF call.op = "connect" /\ ok
                 THEN [c EXCEPT !.isconnected = TRUE, !.ping_outstanding = FALSE]
                 ELSE IF call.op \in {"subscribe", "publish"} /\ ~ok
                 THEN MQTTCloseSession(c) ELSE c
    /\ Settle(ok)
    /\ call' = Idle

\* Mutant of waitfor: the timer is not looked at.
MutWaitfor(w, valid) ==
    LET hit == w.rc = Expected(call.op)
    IN IF hit \/ w.rc = "FAILURE"
       THEN Return(w.c, hit /\ valid)
       ELSE /\ client' = w.c
            /\ call' = [call EXCEPT !.timer = w.timer]
            /\ UNCHANGED result

\* The loop of waitfor and MQTTYield around a cycle: it stops at the expected
\* type, at a failure and when the timer has expired.  valid: the acknowledgement
\* could be parsed and grants the request.
waitfor(w, valid) ==
    LET hit == w.rc = Expected(call.op)
    IN IF hit \/ w.rc = "FAILURE" \/ w.timer = 0
       THEN Return(w.c, hit /\ valid)
       ELSE /\ client' = w.c
            /\ call' = [call EXCEPT !.timer = w.timer]
            /\ UNCHANGED result

Cycle(t, whole, valid) ==
    /\ call.op # "none"
    /\ \E w \in cycle(t, whole) :
         /\ toServer' = w.out
         /\ waitfor(w, valid)
    /\ silent' = IF client'.isconnected /\ client'.last_received = 0
                 THEN IF silent < 2 THEN silent + 1 ELSE 2 ELSE 0
    /\ UNCHANGED <<link, serving, late, accepted, commands>>

\* readPacket gets a whole packet; out of step it may be any.
ReadPacket ==
    /\ toClient # <<>> /\ link # "broken"
    /\ toClient' = Tail(toClient)
    /\ IF garbled
       THEN \E t \in AckTypes \cup {"PUBLISH", "none", "other", "error"}, valid \in BOOLEAN :
              Cycle(t, valid, valid)
       ELSE Cycle(Head(toClient).type, TRUE, Head(toClient).ok)
    /\ UNCHANGED <<garbled, faults>>

\* Nothing arrives before the timer expires; a connection closed by the broker
\* reads as this too.
ReadTimeout ==
    /\ call.timer = 0
    /\ Cycle("none", FALSE, FALSE)
    /\ UNCHANGED <<toClient, garbled, faults>>

ReadError ==
    /\ link = "broken"
    /\ Cycle("error", FALSE, FALSE)
    /\ UNCHANGED <<toClient, garbled, faults>>

\* The type in the first byte at the head of the stream; out of step any.
HeaderTypes ==
    IF garbled THEN AckTypes \cup {"PUBLISH", "other"}
    ELSE {IF Head(toClient).type = "error" THEN "PUBLISH" ELSE Head(toClient).type}

\* The timer expires in the middle of a packet.  Without its body it counts as
\* a time-out.  Without its length decodePacket's failure is not looked at and it
\* counts as a packet with nothing in it, of which every MQTTDeserialize function
\* returns the 1 of MQTTPacket_decodeBuf: a CONNACK, SUBACK or PUBACK of which only
\* the first byte was read ends its call with success, and a PUBLISH is acknowledged.
ReadStalled ==
    /\ call.timer = 0 /\ faults > 0
    /\ toClient # <<>> /\ link # "broken"
    /\ \/ Cycle("none", FALSE, FALSE)
       \/ \E t \in HeaderTypes : Cycle(t, TRUE, TRUE)
    /\ garbled' = TRUE
    /\ faults' = faults - 1
    /\ UNCHANGED toClient

\* A call serialises its packet, sends it and waits for the answer.
Begin(op, c, p, time) ==
    \E s \in sendPacket(c, toServer, p) :
       /\ toServer' = s.out
       /\ IF s.ok
          THEN /\ client' = s.c
               /\ call' = [op |-> op, id |-> p.id, timer |-> time]
          ELSE /\ client' = MQTTCloseSession(s.c)
               /\ call' = Idle
       /\ silent' = IF client'.isconnected THEN silent ELSE 0

\* zclient_connect opens a new connection under a new MQTTClient; what the old
\* one still carries can reach the broker, but no longer the client.
MQTTConnect ==
    /\ call.op = "none" /\ ~client.isconnected
    /\ late' = late \cup ({toServer[i].msg : i \in DOMAIN toServer} \ {NoMessage})
    /\ link' = "up" /\ toClient' = <<>> /\ serving' = FALSE /\ garbled' = FALSE
    /\ \/ /\ toServer' = <<Packet("CONNECT")>>
          /\ client' = [MQTTClientInit EXCEPT !.last_sent = KeepAlive,
                                              !.last_received = KeepAlive]
          /\ call' = [op |-> "connect", id |-> 0, timer |-> CommandTimeout]
       \/ /\ toServer' = <<>>
          /\ client' = [MQTTClientInit EXCEPT !.last_received = KeepAlive]
          /\ call' = Idle
    /\ silent' = 0
    /\ UNCHANGED <<result, accepted, faults, commands>>

MQTTSubscribe ==
    /\ call.op = "none" /\ client.isconnected
    /\ LET id == getNextPacketId(client)
       IN Begin("subscribe", [client EXCEPT !.next_packetid = id],
                [Packet("SUBSCRIBE") EXCEPT !.id = id], CommandTimeout)
    /\ UNCHANGED <<network, toClient, result, garbled>>

MQTTPublish(m) ==
    /\ call.op = "none" /\ result[m] = "new"
    /\ IF client.isconnected
       THEN LET id == getNextPacketId(client)
            IN Begin("publish", [client EXCEPT !.next_packetid = id],
                     [Packet("PUBLISH") EXCEPT !.id = id, !.msg = m], CommandTimeout)
       ELSE /\ client' = MQTTCloseSession(client)
            /\ UNCHANGED <<toServer, call, silent>>
    /\ result' = [result EXCEPT ![m] = IF call'.op = "none" THEN "failed" ELSE "calling"]
    /\ UNCHANGED <<network, toClient, garbled>>

MQTTYield ==
    /\ call.op = "none" /\ client.isconnected
    /\ call' = [op |-> "yield", id |-> 0, timer |-> YieldTime]
    /\ UNCHANGED <<client, toServer, toClient, network, result, garbled, silent>>

MQTTDisconnect ==
    /\ call.op = "none" /\ client.isconnected
    /\ \E s \in sendPacket(client, toServer, Packet("DISCONNECT")) :
         /\ toServer' = s.out
         /\ client' = MQTTCloseSession(s.c)
    /\ silent' = 0
    /\ UNCHANGED <<call, toClient, network, result, garbled>>

\* A call whose timer has expired returns before more time passes; nothing reads
\* the timers of a closed session.
Tick ==
    /\ client.isconnected \/ call.op # "none"
    /\ call.op # "none" => call.timer > 0
    /\ LET Less(n) == IF n = 0 THEN 0 ELSE n - 1
       IN /\ client' = [client EXCEPT !.last_sent = Less(@), !.last_received = Less(@)]
          /\ call' = [call EXCEPT !.timer = Less(@)]
    /\ UNCHANGED <<toServer, toClient, network, result, garbled, silent>>

----------------------------------------------------------------------------
(* The broker and the network, as the client uses them *)

\* The answer to a packet; PUBACK and DISCONNECT have none.
Answers(p) ==
    CASE p.type = "CONNECT"   -> {[Packet("CONNACK") EXCEPT !.ok = ok] : ok \in BOOLEAN}
      [] p.type = "SUBSCRIBE" -> {[Packet("SUBACK") EXCEPT !.ok = ok, !.id = p.id] : ok \in BOOLEAN}
      [] p.type = "PUBLISH"   -> {[Packet("PUBACK") EXCEPT !.id = p.id]}
      [] p.type = "PINGREQ"   -> {Packet("PINGRESP")}
      [] OTHER -> {}

BrokerReceive ==
    /\ link = "up" /\ toServer # <<>>
    /\ LET p == Head(toServer)
       IN /\ accepted' = [m \in Messages |-> IF m = p.msg THEN accepted[m] + 1
                                                         ELSE accepted[m]]
          /\ \/ /\ Answers(p) = {} /\ UNCHANGED <<toClient, serving>>
             \/ \E a \in Answers(p) :
                  /\ toClient' = Append(toClient, a)
                  /\ serving' = (serving \/ (a.type = "CONNACK" /\ a.ok))
    /\ toServer' = Tail(toServer)
    /\ UNCHANGED <<client, call, link, late, result, garbled, silent, faults, commands>>

\* A command for the client; one too long for its buffer is a read error.
BrokerPublish ==
    /\ link = "up" /\ serving /\ commands > 0
    /\ \E t \in {"PUBLISH", "error"} : toClient' = Append(toClient, Packet(t))
    /\ commands' = commands - 1
    /\ UNCHANGED <<client, call, toServer, link, serving, late, result, accepted,
                   garbled, silent, faults>>

LateArrival(m) ==
    /\ m \in late
    /\ late' = late \ {m}
    /\ accepted' = [accepted EXCEPT ![m] = @ + 1]
    /\ UNCHANGED <<client, call, toServer, toClient, link, serving, result, garbled,
                   silent, faults, commands>>

\* A dead link loses what it carries and says nothing; a broken one answers
\* every call with an error.
LinkFails ==
    /\ link = "up" /\ faults > 0
    /\ link' \in {"dead", "broken"}
    /\ toServer' = <<>>
    /\ toClient' \in {<<>>, toClient}
    /\ faults' = faults - 1
    /\ UNCHANGED <<client, call, serving, late, result, accepted, garbled, silent,
                   commands>>

----------------------------------------------------------------------------
Init ==
    /\ client = MQTTClientInit
    /\ call = Idle
    /\ toServer = <<>> /\ toClient = <<>>
    /\ link = "dead" /\ serving = FALSE /\ late = {}
    /\ result = [m \in Messages |-> "new"]
    /\ accepted = [m \in Messages |-> 0] /\ garbled = FALSE
    /\ silent = 0
    /\ faults = MaxFaults /\ commands = MaxCommands

Read == ReadPacket \/ ReadTimeout \/ ReadError \/ ReadStalled

Next ==
    \/ MQTTConnect \/ MQTTSubscribe \/ MQTTYield \/ MQTTDisconnect
    \/ \E m \in Messages : MQTTPublish(m) \/ LateArrival(m)
    \/ ReadPacket \/ ReadTimeout \/ ReadError \/ ReadStalled
    \/ Tick \/ BrokerReceive \/ BrokerPublish \/ LinkFails

Spec == Init /\ [][Next]_vars

\* Time passes, blocked reads return, and the application yields in its loop.
FairSpec == Spec /\ WF_vars(Tick) /\ WF_vars(Read) /\ WF_vars(MQTTYield)

----------------------------------------------------------------------------
(* Properties *)

ClientType == [isconnected : BOOLEAN, ping_outstanding : BOOLEAN,
               next_packetid : 1..MAX_PACKET_ID,
               last_sent : 0..KeepAlive, last_received : 0..KeepAlive]
CallTimes == 0..(CommandTimeout + YieldTime + PubackTime)
CallType == [op : {"none", "connect", "subscribe", "publish", "yield"},
             id : PacketIds, timer : CallTimes]

\* The packet id, the timers, the call and the packets have their types; the
\* id never leaves the range that a packet can carry (getNextPacketId).
TypeOK ==
    /\ client \in ClientType
    /\ call \in CallType
    /\ toServer \in Seq(ServerPackets) /\ toClient \in Seq(ClientPackets)
    /\ link \in {"up", "dead", "broken"}
    /\ serving \in BOOLEAN /\ garbled \in BOOLEAN
    /\ late \subseteq Messages /\ accepted \in [Messages -> Nat]
    /\ result \in [Messages -> {"new", "calling", "ok", "failed"}]
    /\ silent \in 0..2 /\ faults \in 0..MaxFaults /\ commands \in 0..MaxCommands

\* MQTTPublish compares the type of an acknowledgement and not its packet id, and
\* takes one whose id it could not read: a publish still succeeds only on the
\* acknowledgement of its own packet, because every call that fails closes the
\* session and every connection starts with an empty stream.
AcknowledgedByItsOwn ==
    [][\A m \in Messages : result[m] = "calling" /\ result'[m] = "ok" /\ ~garbled
          => /\ Head(toClient).type = "PUBACK"
             /\ Head(toClient).id = call.id]_vars

\* keepalive: of a session on which nothing is received any more at most one
\* cycle ends well after last_received has expired, the one that sends the ping.
SilenceNoticed == client.isconnected => silent <= 1

\* What MQTTPublish promises (PublishContract) is what the packets, the timers
\* and the connections make of it.
Contract == INSTANCE PublishContract
ContractKept == Contract!Spec

\* A link that dies without an error does not go unnoticed.
DeadLinkNoticed == (link = "dead" /\ client.isconnected) ~> ~client.isconnected

\* MQTTPublish returns, whatever arrives or does not, although each message that
\* is acknowledged after its timer has expired gives it more time.
PublishReturns == \A m \in Messages : result[m] = "calling" ~> result[m] # "calling"
=============================================================================
