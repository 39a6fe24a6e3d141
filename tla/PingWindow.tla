---------------------------- MODULE PingWindow ----------------------------
(***************************************************************************)
(* MqttWire with the age of the outstanding PINGREQ, to compare the moment *)
(* at which keepalive gives up with the one its comment names.             *)
(***************************************************************************)
EXTENDS MqttWire

VARIABLE pingAge           \* time since the outstanding PINGREQ was sent

WindowInit == Init /\ pingAge = 0

WindowNext ==
    /\ Next
    /\ pingAge' = IF ~(client.ping_outstanding /\ client'.ping_outstanding) THEN 0
                  ELSE IF Tick /\ pingAge < KeepAlive THEN pingAge + 1
                  ELSE pingAge

WindowSpec == WindowInit /\ [][WindowNext]_<<vars, pingAge>>

\* keepalive's comment on ending the session, "PINGRESP not received in keepalive
\* interval": a session that is polled on a working link and ended because of an
\* outstanding ping was given the interval to answer it.
PingGivenItsInterval ==
    [][/\ call.op = "yield" /\ link = "up" /\ toClient' = toClient
       /\ client.isconnected /\ ~client'.isconnected /\ client.ping_outstanding
       => pingAge >= KeepAlive]_<<vars, pingAge>>
=============================================================================
