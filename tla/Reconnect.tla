----------------------------- MODULE Reconnect -----------------------------
(***************************************************************************)
(* When a client connects, and with which socket: the back-off and the     *)
(* wall clock of zclient_reconnect, and the life of the transport under    *)
(* zclient_connect, zclient_reconnect and zclient_disconnect, in the build *)
(* with the embedded Paho client.                                          *)
(*                                                                         *)
(* Grain: one action per API call of the only application thread; the      *)
(* interleavings with the message threads are in ClientSession.            *)
(*                                                                         *)
(* Usage assumed, as in projects/: zclient_connect is called on a client   *)
(* that is INITIALIZED, zclient_reconnect in every state.                  *)
(***************************************************************************)
EXTENDS Integers

CONSTANTS
    MIN_RETRY_INTERVAL, MAX_RETRY_INTERVAL,
    Fds,            \* descriptors socket() can return, none of them 0
    CallTime,       \* how long a connection attempt can take
    MaxTime,        \* bound on the clock
    MaxAdjust,      \* bound on how often the clock is set back
    ULLONG_RANGE    \* 2^64 in the code, scaled down

ASSUME ReconnectAssumption ==
    /\ MIN_RETRY_INTERVAL \in Nat \ {0}
    /\ MAX_RETRY_INTERVAL \in Nat
    /\ MIN_RETRY_INTERVAL <= MAX_RETRY_INTERVAL
    /\ Fds \subseteq Nat \ {0}
    /\ CallTime \in Nat
    /\ MaxTime \in Nat
    /\ MaxAdjust \in Nat
    /\ ULLONG_RANGE \in Nat
    /\ ULLONG_RANGE > 2 * (MaxTime + CallTime) + 2 * MAX_RETRY_INTERVAL

VARIABLES
    TLS_MODE,        \* the build: mbedtls sockets or plain ones; never changes
    current_state,   \* client->current_state
    start_time,      \* client->start_time, 0 when no back-off is running
    ZretryInterval,  \* client->ZretryInterval
    retryCount,      \* client->retryCount
    net,             \* the transport, see NetStates
    now,             \* getCurrentTime()
    adjusted,        \* how often the clock was set back
    failedAt,        \* history: end of the last failed reconnect, 0 if none
    crashed          \* a null pointer was dereferenced

vars == <<TLS_MODE, current_state, start_time, ZretryInterval, retryCount, net,
          now, adjusted, failedAt, crashed>>

(* ipstack: client->mqtt_client.ipstack is not NULL.  my_socket: the       *)
(* descriptor NetworkDisconnect closes (server_fd.fd with TLS).            *)
(* sockets: the descriptors that are open.                                 *)
NetStates == [ipstack : BOOLEAN, my_socket : Fds \union {0},
              sockets : SUBSET Fds]

(* The type invariant.                                                     *)
TypeOK ==
    /\ TLS_MODE \in BOOLEAN
    /\ current_state \in {"INITIALIZED", "CONNECTED", "DISCONNECTED"}
    /\ start_time \in Nat
    /\ ZretryInterval \in Nat
    /\ retryCount \in Nat
    /\ net \in NetStates
    /\ now \in Nat
    /\ adjusted \in Nat
    /\ failedAt \in Nat
    /\ crashed \in BOOLEAN

(* zclient_init of a static client object.                                 *)
Init ==
    /\ TLS_MODE \in BOOLEAN
    /\ current_state = "INITIALIZED"
    /\ start_time = 0
    /\ ZretryInterval = MIN_RETRY_INTERVAL
    /\ retryCount = 0
    /\ net = [ipstack |-> FALSE, my_socket |-> 0, sockets |-> {}]
    /\ now = 1
    /\ adjusted = 0
    /\ failedAt = 0
    /\ crashed = FALSE

-----------------------------------------------------------------------------
(* The transport.                                                          *)

(* Mutant of NetworkDisconnect: the socket stays open.                     *)
MutNetworkDisconnect(n) == n

(* mbedtls_net_free forgets the descriptor, close does not.                *)
NetworkDisconnect(n) ==
    [n EXCEPT !.sockets = @ \ {n.my_socket},
              !.my_socket = IF TLS_MODE THEN 0 ELSE @]

(* Mutant of NetworkInit: the descriptor is no descriptor.                 *)
MutNetworkInit(n) == [n EXCEPT !.my_socket = -1]

(* NetworkInit forgets any descriptor the transport still holds.           *)
NetworkInit(n) == [n EXCEPT !.my_socket = 0]

WithSocket(n, fd) == [n EXCEPT !.my_socket = fd, !.sockets = @ \union {fd}]

(* NetworkConnectTLS: every failure goes through its cleanup.              *)
NetworkConnectTLS(n) ==
    {[rc |-> "failed", net |-> n]} \union
    {[rc |-> "ok", net |-> WithSocket(n, fd)] : fd \in Fds \ n.sockets}

(* NetworkConnect: a socket whose connect() fails stays open; a name that  *)
(* does not resolve is -11 (EAI_SYSTEM) or another error.                  *)
NetworkConnect(n) ==
    {[rc |-> rc, net |-> n] : rc \in {"failed", "-11"}} \union
    {[rc |-> rc, net |-> WithSocket(n, fd)] :
         rc \in {"failed", "ok"}, fd \in Fds \ n.sockets}

(* zclient_connect of an INITIALIZED client with transport n: MQTTConnect  *)
(* can fail on a connected transport, and -11 calls zclient_disconnect,    *)
(* which only sets the state of an INITIALIZED client.                     *)
MqttResults(n) ==
    LET m == [n EXCEPT !.ipstack = TRUE]
    IN  {[state |-> "CONNECTED", net |-> m, expired |-> FALSE],
         [state |-> "INITIALIZED", net |-> NetworkDisconnect(m),
          expired |-> FALSE]}

ConnectResults(n) ==
    LET results == IF TLS_MODE THEN NetworkConnectTLS(NetworkInit(n))
                               ELSE NetworkConnect(NetworkInit(n))
    IN  UNION {CASE r.rc = "ok" -> MqttResults(r.net)
                 [] r.rc = "failed" -> {[state |-> "INITIALIZED",
                                         net |-> r.net, expired |-> FALSE]}
                 [] r.rc = "-11" -> {[state |-> "DISCONNECTED",
                                      net |-> r.net, expired |-> TRUE]} :
               r \in results}

-----------------------------------------------------------------------------
(* The clock.  A connection attempt takes up to CallTime.                  *)

Tick ==
    /\ now < MaxTime
    /\ now' = now + 1
    /\ UNCHANGED <<TLS_MODE, current_state, start_time, ZretryInterval,
                   retryCount, net, adjusted, failedAt, crashed>>

(* CLOCK_REALTIME can be set back.                                         *)
SetBack ==
    /\ adjusted < MaxAdjust
    /\ adjusted' = adjusted + 1
    /\ now' \in 1..(now - 1)
    /\ UNCHANGED <<TLS_MODE, current_state, start_time, ZretryInterval,
                   retryCount, net, failedAt, crashed>>

(* Mutant of getRetryInterval: the comparison includes the maximum.        *)
MutGetRetryInterval(curr_delay) ==
    IF curr_delay <= MAX_RETRY_INTERVAL THEN curr_delay * 2
                                        ELSE MAX_RETRY_INTERVAL

getRetryInterval(curr_delay) ==
    IF curr_delay <= 0 THEN MIN_RETRY_INTERVAL
    ELSE IF curr_delay < MAX_RETRY_INTERVAL THEN curr_delay * 2
    ELSE MAX_RETRY_INTERVAL

(* Mutant of Due: the interval is taken to be over one second early.       *)
MutDue(start) == (now - start) % ULLONG_RANGE >= ZretryInterval

(* The unsigned difference of the two times against the interval.          *)
Due(start) == (now - start) % ULLONG_RANGE > ZretryInterval

-----------------------------------------------------------------------------
(* The API calls.                                                          *)

(* zclient_connect; when CONNECTED it returns at once.                     *)
Connect ==
    /\ ~crashed
    /\ current_state = "INITIALIZED"
    /\ \E r \in ConnectResults(net), d \in 0..CallTime :
          /\ current_state' = r.state
          /\ net' = r.net
          /\ start_time' = IF r.expired THEN 0 ELSE start_time
          /\ now' = now + d
          /\ now' <= MaxTime
    /\ UNCHANGED <<TLS_MODE, ZretryInterval, retryCount, adjusted, failedAt,
                   crashed>>

Start == IF start_time = 0 THEN now ELSE start_time

(* zclient_reconnect before the interval is over.                          *)
ReconnectEarly ==
    /\ ~crashed
    /\ current_state # "CONNECTED"
    /\ ~Due(Start)
    /\ start_time' = Start
    /\ UNCHANGED <<TLS_MODE, current_state, ZretryInterval, retryCount, net,
                   now, adjusted, failedAt, crashed>>

(* zclient_reconnect after it.  The transport of a client that is not      *)
(* INITIALIZED is disconnected first; resubscribing on the new session can *)
(* fail and leave the client DISCONNECTED.                                 *)
Succeeded(r) ==
    /\ r.state = "CONNECTED"
    /\ current_state' \in {"CONNECTED", "DISCONNECTED"}
    /\ retryCount' = 0
    /\ start_time' = 0
    /\ ZretryInterval' = MIN_RETRY_INTERVAL
    /\ failedAt' = 0

Failed(r) ==
    /\ r.state # "CONNECTED"
    /\ current_state' = r.state
    /\ retryCount' = retryCount + 1
    /\ start_time' = now'
    /\ ZretryInterval' = getRetryInterval(ZretryInterval)
    /\ failedAt' = now'

Reconnect ==
    /\ ~crashed
    /\ current_state # "CONNECTED"
    /\ Due(Start)
    /\ current_state = "INITIALIZED" \/ net.ipstack
    /\ \E d \in 0..CallTime,
          r \in ConnectResults(IF current_state = "INITIALIZED" THEN net
                               ELSE NetworkDisconnect(net)) :
          /\ now' = now + d
          /\ now' <= MaxTime
          /\ Succeeded(r) \/ Failed(r)
          /\ net' = r.net
    /\ UNCHANGED <<TLS_MODE, adjusted, crashed>>

(* A publish, subscribe or yield finds that the session is gone.           *)
Lost ==
    /\ ~crashed
    /\ current_state = "CONNECTED"
    /\ current_state' = "DISCONNECTED"
    /\ UNCHANGED <<TLS_MODE, start_time, ZretryInterval, retryCount, net, now,
                   adjusted, failedAt, crashed>>

(* Mutant of Disconnect: the state is not set.                             *)
MutDisconnect ==
    /\ ~crashed
    /\ current_state = "INITIALIZED" \/ net.ipstack
    /\ net' = IF current_state = "INITIALIZED" THEN net
              ELSE NetworkDisconnect(net)
    /\ UNCHANGED <<TLS_MODE, current_state, start_time, ZretryInterval,
                   retryCount, now, adjusted, failedAt, crashed>>

(* zclient_disconnect.                                                     *)
Disconnect ==
    /\ ~crashed
    /\ current_state = "INITIALIZED" \/ net.ipstack
    /\ current_state' = "DISCONNECTED"
    /\ net' = IF current_state = "INITIALIZED" THEN net
              ELSE NetworkDisconnect(net)
    /\ UNCHANGED <<TLS_MODE, start_time, ZretryInterval, retryCount, now,
                   adjusted, failedAt, crashed>>

(* NetworkDisconnect(NULL), from zclient_reconnect or zclient_disconnect.  *)
NullTransport ==
    /\ ~crashed
    /\ current_state = "DISCONNECTED"
    /\ ~net.ipstack
    /\ crashed' = TRUE
    /\ UNCHANGED <<TLS_MODE, current_state, start_time, ZretryInterval,
                   retryCount, net, now, adjusted, failedAt>>

Next == \/ Tick \/ SetBack
        \/ Connect \/ ReconnectEarly \/ Reconnect \/ Lost \/ Disconnect
        \/ NullTransport

Spec == Init /\ [][Next]_vars

-----------------------------------------------------------------------------
(* Properties.                                                             *)

(* The minimum interval, doubled n times.                                  *)
Doubled[n \in Nat] == IF n = 0 THEN MIN_RETRY_INTERVAL ELSE 2 * Doubled[n - 1]

(* However often zclient_reconnect fails, the interval it waits is the one *)
(* its failures in a row call for: doubled by each, MAX_RETRY_INTERVAL     *)
(* once that makes twice as much, and the minimum again after a success.   *)
(* No call of zclient_connect or zclient_disconnect in between changes it. *)
BackoffFollowsFailures ==
    ZretryInterval = IF Doubled[retryCount] < 2 * MAX_RETRY_INTERVAL
                     THEN Doubled[retryCount] ELSE MAX_RETRY_INTERVAL

(* Two failed reconnections in a row are more than the interval set by the *)
(* first apart, whatever calls come in between, unless the clock was set   *)
(* back behind the first one; without TLS a zclient_connect that cannot    *)
(* resolve the name restarts the interval, at the time the clock was set   *)
(* back to.                                                                *)
AttemptsPaced ==
    [][retryCount' > retryCount /\ failedAt # 0
          => \/ now > failedAt + ZretryInterval
             \/ now < failedAt
             \/ ~TLS_MODE /\ adjusted > 0]_vars

(* With TLS a client has at most one socket open, the one the next         *)
(* NetworkDisconnect closes, however connecting, losing and closing the    *)
(* connection alternate; a client about to connect has none.               *)
NoOrphanSocket ==
    TLS_MODE =>
        /\ net.sockets \subseteq {net.my_socket}
        /\ current_state = "INITIALIZED" => net.sockets = {}

(* A client that says CONNECTED has a transport that MQTTClientInit was    *)
(* given, with its socket open, whatever failed before: what publishes,    *)
(* yields or disconnects does not dereference a null transport.            *)
ConnectedHasTransport ==
    current_state = "CONNECTED"
        => net.ipstack /\ net.my_socket \in net.sockets /\ ~crashed
=============================================================================
