-------------------------- MODULE Reconnect_proofs --------------------------
(* Proofs about Reconnect, for every interval, descriptor set and bound.   *)
EXTENDS Reconnect, TLAPS, WellFoundedInduction

(* getRetryInterval of a positive interval below twice the maximum is one  *)
(* again, and never below the minimum.                                     *)
LEMMA IntervalKept ==
    ASSUME NEW i \in Nat, i >= MIN_RETRY_INTERVAL, i < 2 * MAX_RETRY_INTERVAL
    PROVE  /\ getRetryInterval(i) \in Nat
           /\ getRetryInterval(i) >= MIN_RETRY_INTERVAL
           /\ getRetryInterval(i) < 2 * MAX_RETRY_INTERVAL
BY ReconnectAssumption DEF getRetryInterval

(* The operations of the transport keep its type.                          *)
LEMMA DisconnectType ==
    ASSUME NEW n \in NetStates
    PROVE  NetworkDisconnect(n) \in NetStates
BY ReconnectAssumption DEF NetStates, NetworkDisconnect

(* Opening a socket keeps the type.                                        *)
LEMMA SocketType ==
    ASSUME NEW n \in NetStates, NEW fd \in Fds
    PROVE  WithSocket(n, fd) \in NetStates
BY DEF NetStates, WithSocket

(* So does NetworkInit.                                                    *)
LEMMA InitType ==
    ASSUME NEW n \in NetStates
    PROVE  NetworkInit(n) \in NetStates
BY DEF NetStates, NetworkInit

(* What zclient_connect returns on a transport n: a well-formed transport  *)
(* and one of the three states.                                            *)
LEMMA ConnectType ==
    ASSUME NEW n \in NetStates, NEW r \in ConnectResults(n)
    PROVE  /\ r.net \in NetStates
           /\ r.state \in {"INITIALIZED", "CONNECTED", "DISCONNECTED"}
<1> DEFINE m == NetworkInit(n)
<1> DEFINE results == IF TLS_MODE THEN NetworkConnectTLS(m)
                                  ELSE NetworkConnect(m)
<1>1. m \in NetStates
  BY InitType
<1>2. \A q \in results : /\ q.net \in NetStates
                         /\ q.rc \in {"ok", "failed", "-11"}
  BY <1>1, SocketType DEF NetworkConnectTLS, NetworkConnect
<1>3. PICK q \in results :
         r \in CASE q.rc = "ok" -> MqttResults(q.net)
                 [] q.rc = "failed" -> {[state |-> "INITIALIZED",
                                         net |-> q.net, expired |-> FALSE]}
                 [] q.rc = "-11" -> {[state |-> "DISCONNECTED",
                                      net |-> q.net, expired |-> TRUE]}
  BY DEF ConnectResults
<1>4. q.net \in NetStates /\ q.rc \in {"ok", "failed", "-11"}
  BY <1>2
<1>5. CASE q.rc = "ok"
  <2> DEFINE k == [q.net EXCEPT !.ipstack = TRUE]
  <2>1. k \in NetStates
    BY <1>4 DEF NetStates
  <2>2. r \in {[state |-> "CONNECTED", net |-> k, expired |-> FALSE],
               [state |-> "INITIALIZED", net |-> NetworkDisconnect(k),
                expired |-> FALSE]}
    BY <1>3, <1>5 DEF MqttResults
  <2>3. NetworkDisconnect(k) \in NetStates
    BY <2>1, DisconnectType
  <2> HIDE DEF k
  <2>4. \/ r.net = k /\ r.state = "CONNECTED"
        \/ r.net = NetworkDisconnect(k) /\ r.state = "INITIALIZED"
    BY <2>2
  <2> QED BY <2>1, <2>3, <2>4
<1>6. CASE q.rc = "failed"
  BY <1>3, <1>4, <1>6
<1>7. CASE q.rc = "-11"
  BY <1>3, <1>4, <1>7
<1> QED BY <1>4, <1>5, <1>6, <1>7

-----------------------------------------------------------------------------
(* Types and back-off.  The type invariant needs the bounds: doubling      *)
(* keeps an interval a positive number only because it starts as one.      *)
BackoffBounded ==
    /\ ZretryInterval >= MIN_RETRY_INTERVAL
    /\ ZretryInterval < 2 * MAX_RETRY_INTERVAL
BackoffInv == TypeOK /\ BackoffBounded

(* A connection attempt of zclient_reconnect, successful or not, leaves an *)
(* interval within the bounds.                                             *)
LEMMA ReconnectBackoff == BackoffInv /\ Reconnect => BackoffInv'
<1> SUFFICES ASSUME BackoffInv, Reconnect PROVE BackoffInv'
  OBVIOUS
<1> DEFINE n == IF current_state = "INITIALIZED" THEN net
                ELSE NetworkDisconnect(net)
<1>1. n \in NetStates
  BY DisconnectType DEF BackoffInv, TypeOK
<1>2. PICK d \in 0..CallTime, r \in ConnectResults(n) :
         /\ now' = now + d
         /\ Succeeded(r) \/ Failed(r)
         /\ net' = r.net
  BY DEF Reconnect
<1>3. /\ r.net \in NetStates
      /\ r.state \in {"INITIALIZED", "CONNECTED", "DISCONNECTED"}
  BY <1>1, <1>2, ConnectType
<1>4. now' \in Nat /\ net' \in NetStates /\ UNCHANGED <<TLS_MODE, adjusted, crashed>>
  BY <1>2, <1>3, ReconnectAssumption DEF BackoffInv, TypeOK, Reconnect
<1>5. CASE Succeeded(r)
  BY <1>4, <1>5, ReconnectAssumption
     DEF Succeeded, BackoffInv, TypeOK, BackoffBounded
<1>6. CASE Failed(r)
  BY <1>3, <1>4, <1>6, IntervalKept
     DEF Failed, BackoffInv, TypeOK, BackoffBounded
<1> QED BY <1>2, <1>5, <1>6

(* Every step keeps the types and the bounds of the interval.              *)
LEMMA BackoffStep == BackoffInv /\ [Next]_vars => BackoffInv'
<1> SUFFICES ASSUME BackoffInv, [Next]_vars PROVE BackoffInv'
  OBVIOUS
<1> USE ReconnectAssumption
<1>1. CASE Tick
  BY <1>1 DEF Tick, BackoffInv, TypeOK, BackoffBounded
<1>2. CASE SetBack
  BY <1>2 DEF SetBack, BackoffInv, TypeOK, BackoffBounded
<1>3. CASE Connect
  <2>1. PICK r \in ConnectResults(net), d \in 0..CallTime :
           /\ current_state' = r.state
           /\ net' = r.net
           /\ start_time' = IF r.expired THEN 0 ELSE start_time
           /\ now' = now + d
    BY <1>3 DEF Connect
  <2>2. /\ r.net \in NetStates
        /\ r.state \in {"INITIALIZED", "CONNECTED", "DISCONNECTED"}
    BY <2>1, ConnectType DEF BackoffInv, TypeOK
  <2> QED BY <1>3, <2>1, <2>2 DEF Connect, BackoffInv, TypeOK, BackoffBounded
<1>4. CASE ReconnectEarly
  BY <1>4 DEF ReconnectEarly, Start, BackoffInv, TypeOK, BackoffBounded
<1>5. CASE Reconnect
  BY <1>5, ReconnectBackoff
<1>6. CASE Lost
  BY <1>6 DEF Lost, BackoffInv, TypeOK, BackoffBounded
<1>7. CASE Disconnect
  BY <1>7, DisconnectType DEF Disconnect, BackoffInv, TypeOK, BackoffBounded
<1>8. CASE NullTransport
  BY <1>8 DEF NullTransport, BackoffInv, TypeOK, BackoffBounded
<1>9. CASE UNCHANGED vars
  BY <1>9 DEF vars, BackoffInv, TypeOK, BackoffBounded
<1> QED
  BY <1>1, <1>2, <1>3, <1>4, <1>5, <1>6, <1>7, <1>8, <1>9 DEF Next

(* Types and bounds hold in every reachable state.                         *)
LEMMA BackoffInvariant == Spec => []BackoffInv
<1>1. Init => BackoffInv
  <2> SUFFICES ASSUME Init PROVE BackoffInv
    OBVIOUS
  <2>1. net \in NetStates
    BY DEF Init, NetStates
  <2>2. /\ ZretryInterval \in Nat
        /\ BackoffBounded
    BY ReconnectAssumption DEF Init, BackoffBounded
  <2>3. crashed \in BOOLEAN /\ TLS_MODE \in BOOLEAN
    BY DEF Init
  <2>4. /\ current_state \in {"INITIALIZED", "CONNECTED", "DISCONNECTED"}
        /\ start_time \in Nat /\ retryCount \in Nat /\ now \in Nat
        /\ adjusted \in Nat /\ failedAt \in Nat
    BY DEF Init
  <2> QED BY <2>1, <2>2, <2>3, <2>4 DEF BackoffInv, TypeOK
<1> QED BY <1>1, BackoffStep, PTL DEF Spec

(* The type invariant holds in every reachable state: the interval stays a *)
(* natural number because doubling starts from one.                        *)
THEOREM Types == Spec => []TypeOK
<1>1. BackoffInv => TypeOK
  BY DEF BackoffInv
<1> QED BY <1>1, BackoffInvariant, PTL

-----------------------------------------------------------------------------
(* Pacing.                                                                 *)

(* The clock never passes its bound.  With TLS the back-off runs from the  *)
(* last failure, whatever is called in between; without TLS, and as long   *)
(* as the clock is not set back, it runs from that failure or from a later *)
(* time, or is not running.                                                *)
PacedInv ==
    /\ now <= MaxTime + 1
    /\ TLS_MODE /\ failedAt # 0 => start_time = failedAt
    /\ adjusted = 0 => /\ failedAt <= now
                       /\ start_time <= now
                       /\ failedAt # 0 => start_time = 0 \/ start_time >= failedAt

(* With TLS a name that does not resolve is never -11, so that             *)
(* zclient_connect does not end the back-off.                              *)
LEMMA NotExpired ==
    ASSUME TLS_MODE, NEW n \in NetStates, NEW r \in ConnectResults(n)
    PROVE  r.expired = FALSE
<1> DEFINE m == NetworkInit(n)
<1>1. PICK q \in NetworkConnectTLS(m) :
         r \in CASE q.rc = "ok" -> MqttResults(q.net)
                 [] q.rc = "failed" -> {[state |-> "INITIALIZED",
                                         net |-> q.net, expired |-> FALSE]}
                 [] q.rc = "-11" -> {[state |-> "DISCONNECTED",
                                      net |-> q.net, expired |-> TRUE]}
  BY DEF ConnectResults
<1>2. q.rc = "ok" \/ q.rc = "failed"
  BY DEF NetworkConnectTLS
<1>3. CASE q.rc = "ok"
  BY <1>1, <1>3 DEF MqttResults
<1>4. CASE q.rc = "failed"
  BY <1>1, <1>4
<1> QED BY <1>2, <1>3, <1>4

(* Every step keeps the pacing invariant.                                  *)
LEMMA PacedStep == TypeOK /\ PacedInv /\ [Next]_vars => PacedInv'
<1> SUFFICES ASSUME TypeOK, PacedInv, [Next]_vars PROVE PacedInv'
  OBVIOUS
<1> USE ReconnectAssumption
<1>1. CASE Tick
  BY <1>1 DEF Tick, TypeOK, PacedInv
<1>2. CASE SetBack
  BY <1>2 DEF SetBack, TypeOK, PacedInv
<1>3. CASE Connect
  <2>1. PICK r \in ConnectResults(net), d \in 0..CallTime :
           /\ start_time' = IF r.expired THEN 0 ELSE start_time
           /\ now' = now + d
           /\ now' <= MaxTime
    BY <1>3 DEF Connect
  <2>2. TLS_MODE => start_time' = start_time
    BY <2>1, NotExpired DEF TypeOK
  <2> QED BY <1>3, <2>1, <2>2 DEF Connect, TypeOK, PacedInv
<1>4. CASE ReconnectEarly
  BY <1>4 DEF ReconnectEarly, Start, TypeOK, PacedInv
<1>5. CASE Reconnect
  <2>1. PICK d \in 0..CallTime,
             r \in ConnectResults(IF current_state = "INITIALIZED" THEN net
                                  ELSE NetworkDisconnect(net)) :
           /\ now' = now + d
           /\ now' <= MaxTime
           /\ Succeeded(r) \/ Failed(r)
    BY <1>5 DEF Reconnect
  <2>2. \/ start_time' = 0 /\ failedAt' = 0
        \/ start_time' = now' /\ failedAt' = now'
    BY <2>1 DEF Succeeded, Failed
  <2> QED BY <1>5, <2>1, <2>2 DEF Reconnect, TypeOK, PacedInv
<1>6. CASE Lost \/ Disconnect \/ NullTransport \/ UNCHANGED vars
  BY <1>6 DEF Lost, Disconnect, NullTransport, vars, TypeOK, PacedInv
<1> QED BY <1>1, <1>2, <1>3, <1>4, <1>5, <1>6 DEF Next

(* A difference of two times that is not negative does not wrap.           *)
LEMMA NoWrap ==
    ASSUME NEW a \in Nat, a < ULLONG_RANGE
    PROVE  a % ULLONG_RANGE = a
BY ReconnectAssumption

(* What the pacing invariant says of the step that counts a failure.       *)
LEMMA FailurePaced ==
    ASSUME TypeOK, PacedInv, [Next]_vars, retryCount' > retryCount,
           failedAt # 0
    PROVE  \/ now > failedAt + ZretryInterval
           \/ now < failedAt
           \/ ~TLS_MODE /\ adjusted > 0
<1> USE ReconnectAssumption
<1>1. Reconnect
  BY DEF Next, Tick, SetBack, Connect, ReconnectEarly, Lost, Disconnect,
         NullTransport, vars, TypeOK
<1>2. (now - Start) % ULLONG_RANGE > ZretryInterval
  BY <1>1 DEF Reconnect, Due
<1>3. SUFFICES ASSUME now >= failedAt, TLS_MODE \/ adjusted = 0
               PROVE  now > failedAt + ZretryInterval
  BY DEF TypeOK
<1>4. Start \in Nat /\ Start <= now /\ Start >= failedAt
  BY <1>3 DEF Start, TypeOK, PacedInv
<1>5. now - Start \in Nat /\ now - Start < ULLONG_RANGE
  BY <1>4 DEF TypeOK, PacedInv
<1>6. now - Start > ZretryInterval
  BY <1>2, <1>5, NoWrap
<1> QED BY <1>4, <1>6 DEF TypeOK

(* zclient_reconnect paces its attempts for every minimum and maximum,     *)
(* whatever else is called in between and however long attempts take.      *)
THEOREM Paced == Spec => AttemptsPaced
<1>1. Init => PacedInv
  BY ReconnectAssumption DEF Init, PacedInv
<1>2. TypeOK /\ PacedInv /\ [Next]_vars
        => [retryCount' > retryCount /\ failedAt # 0
              => \/ now > failedAt + ZretryInterval
                 \/ now < failedAt
                 \/ ~TLS_MODE /\ adjusted > 0]_vars
  BY FailurePaced
<1> QED BY <1>1, <1>2, PacedStep, Types, PTL DEF Spec, AttemptsPaced

-----------------------------------------------------------------------------
(* Sockets, with TLS.                                                      *)

(* What zclient_connect does to a transport without an open socket.        *)
LEMMA ConnectSockets ==
    ASSUME TLS_MODE, NEW n \in NetStates, n.sockets = {},
           NEW r \in ConnectResults(n)
    PROVE  /\ r.net.sockets \subseteq {r.net.my_socket}
           /\ r.state # "CONNECTED" => r.net.sockets = {}
<1> DEFINE m == NetworkInit(n)
<1>1. m \in NetStates /\ m.sockets = {}
  BY InitType DEF NetworkInit, NetStates
<1>2. PICK q \in NetworkConnectTLS(m) :
         r \in CASE q.rc = "ok" -> MqttResults(q.net)
                 [] q.rc = "failed" -> {[state |-> "INITIALIZED",
                                         net |-> q.net, expired |-> FALSE]}
                 [] q.rc = "-11" -> {[state |-> "DISCONNECTED",
                                      net |-> q.net, expired |-> TRUE]}
  BY DEF ConnectResults
<1>3. CASE q = [rc |-> "failed", net |-> m]
  BY <1>1, <1>2, <1>3
<1>4. CASE \E fd \in Fds \ m.sockets :
              q = [rc |-> "ok", net |-> WithSocket(m, fd)]
  <2>1. PICK fd \in Fds : q = [rc |-> "ok", net |-> WithSocket(m, fd)]
    BY <1>4
  <2> DEFINE k == [q.net EXCEPT !.ipstack = TRUE]
  <2>2. q.net \in NetStates /\ q.net.sockets = {fd} /\ q.net.my_socket = fd
    BY <1>1, <2>1, SocketType DEF WithSocket, NetStates
  <2>3. k \in NetStates /\ k.sockets = {fd} /\ k.my_socket = fd
    BY <2>2 DEF NetStates
  <2>4. NetworkDisconnect(k).sockets = {}
    BY <2>3 DEF NetworkDisconnect, NetStates
  <2>5. r \in {[state |-> "CONNECTED", net |-> k, expired |-> FALSE],
               [state |-> "INITIALIZED", net |-> NetworkDisconnect(k),
                expired |-> FALSE]}
    BY <1>2, <2>1 DEF MqttResults
  <2> HIDE DEF k
  <2>6. \/ r.net = k /\ r.state = "CONNECTED"
        \/ r.net = NetworkDisconnect(k) /\ r.state = "INITIALIZED"
    BY <2>5
  <2> QED BY <2>3, <2>4, <2>6
<1> QED BY <1>2, <1>3, <1>4 DEF NetworkConnectTLS

(* Closing a transport that has at most its own socket leaves none.        *)
LEMMA DisconnectSockets ==
    ASSUME NEW n \in NetStates, n.sockets \subseteq {n.my_socket}
    PROVE  NetworkDisconnect(n).sockets = {}
BY DEF NetworkDisconnect, NetStates

(* Every step of a TLS client keeps its sockets accounted for.             *)
LEMMA SocketStep ==
    ASSUME TypeOK, NoOrphanSocket, [Next]_vars
    PROVE  NoOrphanSocket'
<1> SUFFICES ASSUME TLS_MODE PROVE NoOrphanSocket'
  BY DEF Next, Tick, SetBack, Connect, ReconnectEarly, Reconnect, Lost,
         Disconnect, NullTransport, vars, NoOrphanSocket
<1>1. CASE Connect
  <2>1. PICK r \in ConnectResults(net) : current_state' = r.state
                                         /\ net' = r.net
    BY <1>1 DEF Connect
  <2>2. net \in NetStates /\ net.sockets = {}
    BY <1>1 DEF Connect, TypeOK, NoOrphanSocket
  <2> QED BY <2>1, <2>2, ConnectSockets DEF NoOrphanSocket
<1>2. CASE Reconnect
  <2> DEFINE n == IF current_state = "INITIALIZED" THEN net
                  ELSE NetworkDisconnect(net)
  <2>1. n \in NetStates /\ n.sockets = {}
    BY DisconnectType, DisconnectSockets DEF TypeOK, NoOrphanSocket
  <2>2. PICK r \in ConnectResults(n) : /\ Succeeded(r) \/ Failed(r)
                                       /\ net' = r.net
    BY <1>2 DEF Reconnect
  <2>3. /\ r.net.sockets \subseteq {r.net.my_socket}
        /\ r.state # "CONNECTED" => r.net.sockets = {}
    BY <2>1, <2>2, ConnectSockets
  <2> QED BY <2>2, <2>3 DEF Succeeded, Failed, NoOrphanSocket
<1>3. CASE Disconnect
  <2>1. NetworkDisconnect(net).sockets = {}
    BY DisconnectSockets DEF TypeOK, NoOrphanSocket
  <2> QED BY <1>3, <2>1 DEF Disconnect, NoOrphanSocket
<1>4. CASE Tick \/ SetBack \/ ReconnectEarly \/ Lost \/ NullTransport
  BY <1>4 DEF Tick, SetBack, ReconnectEarly, Lost, NullTransport,
       NoOrphanSocket
<1>5. CASE UNCHANGED vars
  BY <1>5 DEF vars, NoOrphanSocket
<1> QED BY <1>1, <1>2, <1>3, <1>4, <1>5 DEF Next

(* A TLS client never leaks a socket, however often it connects, loses the *)
(* connection, reconnects and disconnects.                                 *)
THEOREM NoLeak == Spec => []NoOrphanSocket
<1>1. Init => NoOrphanSocket
  BY DEF Init, NoOrphanSocket
<1>2. TypeOK /\ NoOrphanSocket /\ [Next]_vars => NoOrphanSocket'
  BY SocketStep
<1> QED BY <1>1, <1>2, Types, PTL DEF Spec

-----------------------------------------------------------------------------
(* The transport of a CONNECTED client.                                    *)

(* A client that zclient_connect leaves CONNECTED has an open transport.   *)
LEMMA ConnectTransport ==
    ASSUME NEW n \in NetStates, NEW r \in ConnectResults(n),
           r.state = "CONNECTED"
    PROVE  r.net.ipstack /\ r.net.my_socket \in r.net.sockets
<1> DEFINE m == NetworkInit(n)
<1> DEFINE results == IF TLS_MODE THEN NetworkConnectTLS(m)
                                  ELSE NetworkConnect(m)
<1>1. m \in NetStates
  BY InitType
<1>2. \A q \in results : /\ q.rc \in {"ok", "failed", "-11"}
                         /\ q.rc = "ok" => \E fd \in Fds :
                                             q.net = WithSocket(m, fd)
  BY DEF NetworkConnectTLS, NetworkConnect
<1>3. PICK q \in results :
         r \in CASE q.rc = "ok" -> MqttResults(q.net)
                 [] q.rc = "failed" -> {[state |-> "INITIALIZED",
                                         net |-> q.net, expired |-> FALSE]}
                 [] q.rc = "-11" -> {[state |-> "DISCONNECTED",
                                      net |-> q.net, expired |-> TRUE]}
  BY DEF ConnectResults
<1>4. q.rc = "ok"
  BY <1>2, <1>3
<1>5. PICK fd \in Fds : q.net = WithSocket(m, fd)
  BY <1>2, <1>4
<1> DEFINE k == [q.net EXCEPT !.ipstack = TRUE]
<1> HIDE DEF m, results
<1>6. q.net \in NetStates /\ q.net.my_socket = fd /\ fd \in q.net.sockets
  <2>1. q.net \in NetStates
    BY <1>1, <1>5, SocketType
  <2>2. q.net.my_socket = fd /\ fd \in q.net.sockets
    BY <1>1, <1>5 DEF WithSocket, NetStates
  <2> QED BY <2>1, <2>2
<1>7. k.ipstack /\ k.my_socket = fd /\ fd \in k.sockets
  BY <1>6 DEF NetStates
<1>8. r \in {[state |-> "CONNECTED", net |-> k, expired |-> FALSE],
             [state |-> "INITIALIZED", net |-> NetworkDisconnect(k),
              expired |-> FALSE]}
  BY <1>3, <1>4 DEF MqttResults
<1> HIDE DEF k
<1>9. r.net = k
  BY <1>8
<1> QED BY <1>7, <1>9

(* Every step keeps it so.                                                 *)
LEMMA TransportStep ==
    ASSUME TypeOK, ConnectedHasTransport, [Next]_vars
    PROVE  ConnectedHasTransport'
<1>1. CASE Connect
  <2>1. PICK r \in ConnectResults(net) : current_state' = r.state
                                         /\ net' = r.net
    BY <1>1 DEF Connect
  <2>2. ~crashed'
    BY <1>1 DEF Connect
  <2> QED BY <2>1, <2>2, ConnectTransport DEF TypeOK, ConnectedHasTransport
<1>2. CASE Reconnect
  <2> DEFINE n == IF current_state = "INITIALIZED" THEN net
                  ELSE NetworkDisconnect(net)
  <2>1. n \in NetStates
    BY DisconnectType DEF TypeOK
  <2>2. PICK r \in ConnectResults(n) : /\ Succeeded(r) \/ Failed(r)
                                       /\ net' = r.net
    BY <1>2 DEF Reconnect
  <2>3. ~crashed'
    BY <1>2 DEF Reconnect
  <2>4. current_state' = "CONNECTED" => r.state = "CONNECTED"
    BY <2>2 DEF Succeeded, Failed
  <2> QED BY <2>1, <2>2, <2>3, <2>4, ConnectTransport DEF ConnectedHasTransport
<1>3. CASE Tick \/ SetBack \/ ReconnectEarly \/ Lost \/ Disconnect
             \/ NullTransport \/ UNCHANGED vars
  BY <1>3 DEF Tick, SetBack, ReconnectEarly, Lost, Disconnect, NullTransport,
       vars, ConnectedHasTransport
<1> QED BY <1>1, <1>2, <1>3 DEF Next

(* A CONNECTED client has an open transport, with and without TLS, for any *)
(* descriptors and any sequence of calls and failures.                     *)
THEOREM TransportOpen == Spec => []ConnectedHasTransport
<1>1. Init => ConnectedHasTransport
  BY DEF Init, ConnectedHasTransport
<1>2. TypeOK /\ ConnectedHasTransport /\ [Next]_vars => ConnectedHasTransport'
  BY TransportStep
<1> QED BY <1>1, <1>2, Types, PTL DEF Spec

-----------------------------------------------------------------------------
(* Doubling.                                                               *)

(* A nonempty set of naturals has a least element: induction for what      *)
(* follows.                                                                *)
LEMMA LeastNatural ==
    ASSUME NEW S, S \subseteq Nat, S # {}
    PROVE  \E m \in S : \A k \in S : m <= k
<1> DEFINE R == OpToRel(<, Nat)
<1>1. IsWellFoundedOn(R, Nat)
  BY NatLessThanWellFounded, Zenon
<1> HIDE DEF R
<1>2. PICK m \in S : \A k \in S : ~(<<k, m>> \in R)
  BY <1>1, WFMin
<1>3. \A k \in S : ~(k < m)
  BY <1>2 DEF R, OpToRel
<1>4. \A k \in S : m <= k
  BY <1>3
<1> QED BY <1>4

(* g is the doubling function up to n.                                     *)
DoublesTo(g, n) ==
    /\ g \in [0..n -> Nat]
    /\ g[0] = MIN_RETRY_INTERVAL
    /\ \A i \in 1..n : g[i] = 2 * g[i - 1]

(* There is one for every n ...                                            *)
LEMMA DoublingExists == \A n \in Nat : \E g : DoublesTo(g, n)
<1> DEFINE S == {n \in Nat : ~\E g : DoublesTo(g, n)}
<1> SUFFICES ASSUME S # {} PROVE FALSE
  OBVIOUS
<1>1. PICK m \in S : \A k \in S : m <= k
  <2>1. S \subseteq Nat
    OBVIOUS
  <2> HIDE DEF S
  <2> QED BY <2>1, LeastNatural
<1>2. m \in Nat /\ ~\E g : DoublesTo(g, m)
  OBVIOUS
<1>3. CASE m = 0
  <2>1. PICK g : g = [i \in 0..0 |-> MIN_RETRY_INTERVAL]
    OBVIOUS
  <2>2. DoublesTo(g, 0)
    BY <2>1, ReconnectAssumption DEF DoublesTo
  <2> QED BY <1>2, <1>3, <2>2
<1>4. CASE m # 0
  <2>1. m - 1 \in Nat /\ ~(m <= m - 1)
    BY <1>2, <1>4
  <2>2. PICK g : DoublesTo(g, m - 1)
    BY <1>1, <2>1
  <2>3. PICK h : h = [i \in 0..m |-> IF i < m THEN g[i] ELSE 2 * g[m - 1]]
    OBVIOUS
  <2>4. /\ g \in [0..(m - 1) -> Nat] /\ g[0] = MIN_RETRY_INTERVAL
        /\ \A i \in 1..(m - 1) : g[i] = 2 * g[i - 1]
    BY <2>2 DEF DoublesTo
  <2>5. \A i \in 0..m : i < m => i \in 0..(m - 1)
    BY <1>2
  <2>6. g[m - 1] \in Nat
    BY <2>1, <2>4
  <2>7. h \in [0..m -> Nat]
    BY <2>3, <2>4, <2>5, <2>6
  <2>8. h[0] = MIN_RETRY_INTERVAL
    BY <1>2, <1>4, <2>3, <2>4
  <2>9. ASSUME NEW i \in 1..m PROVE h[i] = 2 * h[i - 1]
    <3>1. i \in 0..m /\ i - 1 \in 0..m /\ i - 1 < m
      BY <1>2
    <3>2. h[i - 1] = g[i - 1]
      BY <2>3, <3>1
    <3>3. CASE i = m
      <4>1. h[i] = 2 * g[m - 1]
        BY <1>2, <2>3, <3>1, <3>3
      <4> QED BY <3>2, <3>3, <4>1
    <3>4. CASE i # m
      <4>1. i \in 1..(m - 1) /\ i < m
        BY <1>2, <3>4
      <4>2. h[i] = g[i] /\ g[i] = 2 * g[i - 1]
        BY <2>3, <2>4, <3>1, <4>1
      <4> QED BY <3>2, <4>2
    <3> QED BY <3>3, <3>4
  <2>10. DoublesTo(h, m)
    BY <2>7, <2>8, <2>9 DEF DoublesTo
  <2> QED BY <1>2, <2>10
<1> QED BY <1>3, <1>4

(* ... and those for different n agree.                                    *)
LEMMA DoublingAgrees ==
    ASSUME NEW n \in Nat, NEW k \in Nat, k <= n, NEW g, DoublesTo(g, n),
           NEW h, DoublesTo(h, k)
    PROVE  g[k] = h[k]
<1> DEFINE S == {i \in 0..k : g[i] # h[i]}
<1>1. S = {}
  <2> SUFFICES ASSUME S # {} PROVE FALSE
    OBVIOUS
  <2>1. PICK m \in S : \A i \in S : m <= i
    <3>1. S \subseteq Nat
      OBVIOUS
    <3> HIDE DEF S
    <3> QED BY <3>1, LeastNatural
  <2>2. m \in 0..k /\ g[m] # h[m]
    OBVIOUS
  <2>3. g[0] = h[0]
    BY DEF DoublesTo
  <2>4. m - 1 \in 0..k /\ m \in 1..k /\ m \in 1..n /\ ~(m <= m - 1)
    BY <2>2, <2>3
  <2>5. g[m - 1] = h[m - 1]
    BY <2>1, <2>4
  <2>6. g[m] = 2 * g[m - 1] /\ h[m] = 2 * h[m - 1]
    BY <2>4 DEF DoublesTo
  <2> QED BY <2>2, <2>5, <2>6
<1>2. k \in 0..k
  OBVIOUS
<1> QED BY <1>1, <1>2

(* So that Doubled is what its definition says.                            *)
LEMMA DoubledIsDefined ==
    /\ Doubled[0] = MIN_RETRY_INTERVAL
    /\ \A n \in Nat : Doubled[n] \in Nat /\ Doubled[n + 1] = 2 * Doubled[n]
<1> DEFINE To(n) == CHOOSE g : DoublesTo(g, n)
<1>1. \A n \in Nat : DoublesTo(To(n), n)
  BY DoublingExists
<1> HIDE DEF To
<1>2. PICK f : f = [n \in Nat |-> To(n)[n]]
  OBVIOUS
<1>3. \A n \in Nat : f[n] \in Nat
  <2> TAKE n \in Nat
  <2>1. To(n) \in [0..n -> Nat]
    BY <1>1 DEF DoublesTo
  <2>2. n \in 0..n
    OBVIOUS
  <2>3. To(n)[n] \in Nat
    BY <2>1, <2>2
  <2> QED BY <1>2, <2>3
<1>4. f[0] = MIN_RETRY_INTERVAL
  <2>1. To(0)[0] = MIN_RETRY_INTERVAL
    BY <1>1 DEF DoublesTo
  <2> QED BY <1>2, <2>1
<1>5. \A n \in Nat : n # 0 => f[n] = 2 * f[n - 1]
  <2> SUFFICES ASSUME NEW n \in Nat, n # 0 PROVE f[n] = 2 * f[n - 1]
    OBVIOUS
  <2>1. n - 1 \in Nat /\ n - 1 <= n /\ n \in 1..n
    OBVIOUS
  <2>2. PICK g, h : g = To(n) /\ h = To(n - 1)
    OBVIOUS
  <2>3. DoublesTo(g, n) /\ DoublesTo(h, n - 1)
    BY <1>1, <2>1, <2>2
  <2>4. PICK k : k = n - 1
    OBVIOUS
  <2>5. k \in Nat /\ k <= n /\ DoublesTo(h, k)
    BY <2>1, <2>3, <2>4
  <2>6. g[k] = h[k]
    BY <2>3, <2>5, DoublingAgrees
  <2>7. g[n] = 2 * g[k]
    BY <2>1, <2>3, <2>4 DEF DoublesTo
  <2>8. f[n] = g[n] /\ f[k] = h[k]
    BY <1>2, <2>2, <2>4, <2>5
  <2> QED BY <2>4, <2>6, <2>7, <2>8
<1>6. f = [n \in Nat |-> IF n = 0 THEN MIN_RETRY_INTERVAL ELSE 2 * f[n - 1]]
  <2> DEFINE e == [n \in Nat |-> IF n = 0 THEN MIN_RETRY_INTERVAL ELSE 2 * f[n - 1]]
  <2>1. \A n \in Nat : e[n] = f[n]
    BY <1>4, <1>5
  <2>2. DOMAIN f = Nat /\ f = [n \in Nat |-> f[n]]
    BY <1>2
  <2>3. e = [n \in Nat |-> e[n]]
    OBVIOUS
  <2> HIDE DEF e
  <2>4. f = e
    BY <2>1, <2>2, <2>3
  <2> QED BY <2>4 DEF e
<1>7. Doubled = [n \in Nat |-> IF n = 0 THEN MIN_RETRY_INTERVAL ELSE 2 * Doubled[n - 1]]
  BY <1>6 DEF Doubled
<1>8. PICK e : e = Doubled
  OBVIOUS
<1>9. e = [n \in Nat |-> IF n = 0 THEN MIN_RETRY_INTERVAL ELSE 2 * e[n - 1]]
  BY <1>7, <1>8
<1>10. e[0] = MIN_RETRY_INTERVAL
  BY <1>9
<1>11. \A n \in Nat : e[n + 1] = 2 * e[n]
  <2> TAKE n \in Nat
  <2>1. n + 1 \in Nat /\ n + 1 # 0 /\ n + 1 - 1 = n
    OBVIOUS
  <2> QED BY <1>9, <2>1
<1>12. \A n \in Nat : e[n] \in Nat
  <2> DEFINE S == {n \in Nat : e[n] \notin Nat}
  <2> SUFFICES ASSUME S # {} PROVE FALSE
    OBVIOUS
  <2>1. PICK m \in S : \A k \in S : m <= k
    <3>1. S \subseteq Nat
      OBVIOUS
    <3> HIDE DEF S
    <3> QED BY <3>1, LeastNatural
  <2>2. m \in Nat /\ e[m] \notin Nat
    OBVIOUS
  <2>3. m # 0
    BY <1>10, <2>2, ReconnectAssumption
  <2>4. m - 1 \in Nat /\ ~(m <= m - 1) /\ m - 1 + 1 = m
    BY <2>2, <2>3
  <2>5. e[m - 1] \in Nat
    BY <2>1, <2>4
  <2>6. e[m] = 2 * e[m - 1]
    BY <1>11, <2>4
  <2> QED BY <2>2, <2>5, <2>6
<1> QED BY <1>8, <1>10, <1>11, <1>12

(* A failure takes the interval from the one that its failures so far call *)
(* for to the next.                                                        *)
LEMMA NextInterval ==
    ASSUME NEW z \in Nat, z >= MIN_RETRY_INTERVAL, NEW d \in Nat,
           z = IF d < 2 * MAX_RETRY_INTERVAL THEN d ELSE MAX_RETRY_INTERVAL
    PROVE  getRetryInterval(z) = IF 2 * d < 2 * MAX_RETRY_INTERVAL THEN 2 * d
                                 ELSE MAX_RETRY_INTERVAL
BY ReconnectAssumption DEF getRetryInterval

(* No step takes the interval from what the failures in a row call for.    *)
LEMMA FollowStep ==
    BackoffInv /\ BackoffFollowsFailures /\ [Next]_vars => BackoffFollowsFailures'
<1> SUFFICES ASSUME BackoffInv, BackoffFollowsFailures, [Next]_vars
             PROVE  BackoffFollowsFailures'
  OBVIOUS
<1>1. /\ ZretryInterval \in Nat /\ retryCount \in Nat
      /\ ZretryInterval >= MIN_RETRY_INTERVAL
  BY DEF BackoffInv, TypeOK, BackoffBounded
<1>2. CASE UNCHANGED <<ZretryInterval, retryCount>>
  BY <1>2 DEF BackoffFollowsFailures
<1>3. CASE Reconnect
  <2>1. PICK r : Succeeded(r) \/ Failed(r)
    BY <1>3 DEF Reconnect
  <2>2. CASE Succeeded(r)
    <3>1. retryCount' = 0 /\ ZretryInterval' = MIN_RETRY_INTERVAL
      BY <2>2 DEF Succeeded
    <3>2. Doubled[retryCount'] = MIN_RETRY_INTERVAL
      BY <3>1, DoubledIsDefined
    <3> QED BY <3>1, <3>2, ReconnectAssumption DEF BackoffFollowsFailures
  <2>3. CASE Failed(r)
    <3>1. /\ retryCount' = retryCount + 1
          /\ ZretryInterval' = getRetryInterval(ZretryInterval)
      BY <2>3 DEF Failed
    <3>2. PICK d \in Nat : d = Doubled[retryCount]
      BY <1>1, DoubledIsDefined
    <3>3. Doubled[retryCount'] = 2 * d
      BY <1>1, <3>1, <3>2, DoubledIsDefined
    <3>4. ZretryInterval = IF d < 2 * MAX_RETRY_INTERVAL THEN d ELSE MAX_RETRY_INTERVAL
      BY <3>2 DEF BackoffFollowsFailures
    <3>5. ZretryInterval' = IF 2 * d < 2 * MAX_RETRY_INTERVAL THEN 2 * d
                            ELSE MAX_RETRY_INTERVAL
      BY <1>1, <3>1, <3>4, NextInterval
    <3> QED BY <3>3, <3>5 DEF BackoffFollowsFailures
  <2> QED BY <2>1, <2>2, <2>3
<1> QED
  BY <1>2, <1>3
     DEF Next, Tick, SetBack, Connect, ReconnectEarly, Lost, Disconnect,
         NullTransport, vars

(* Whatever the minimum and the maximum are, and however many failures     *)
(* there have been: the interval is the minimum doubled once for each      *)
(* failure in a row, MAX_RETRY_INTERVAL once that has reached twice the    *)
(* maximum, and no other call of the API changes it.                       *)
THEOREM FollowsFailures == Spec => []BackoffFollowsFailures
<1>1. Init => BackoffFollowsFailures
  <2> SUFFICES ASSUME Init PROVE BackoffFollowsFailures
    OBVIOUS
  <2>1. Doubled[retryCount] = MIN_RETRY_INTERVAL /\ ZretryInterval = MIN_RETRY_INTERVAL
    BY DoubledIsDefined DEF Init
  <2> QED BY <2>1, ReconnectAssumption DEF BackoffFollowsFailures
<1> QED BY <1>1, BackoffInvariant, FollowStep, PTL DEF Spec
=============================================================================
