----------------------- MODULE ClientRegistry_proofs -----------------------
(***************************************************************************)
(* Theorems about ClientRegistry, for any number of client objects,        *)
(* devices, messages and registry entries.                                 *)
(***************************************************************************)
EXTENDS ClientRegistry, TLAPS, WellFoundedInduction

\* Two clients in use never hold the topics of the same device.
Exclusive ==
    \A c, e \in Clients : usable[c] /\ usable[e] /\ topic[c] = topic[e] => c = e

RegistryInv == TypeOK /\ Exclusive /\ RegistryFillsWithObjects

\* A nonempty set of positions has a first one, which findClientByTopic returns.
LEMMA FirstMatch ==
    ASSUME NEW S, S \subseteq Nat, S # {}
    PROVE  \E i \in S : \A j \in S : i <= j
<1> DEFINE R == OpToRel(<, Nat)
<1>1. IsWellFoundedOn(R, Nat)
  BY NatLessThanWellFounded, Zenon
<1> HIDE DEF R
<1>2. PICK i \in S : \A j \in S : ~(<<j, i>> \in R)
  BY <1>1, WFMin
<1>3. \A j \in S : ~(j < i)
  BY <1>2 DEF R, OpToRel
<1> QED BY <1>3

\* What findClientByTopic returns is registered and holds the topic.
LEMMA FoundHoldsTopic ==
    ASSUME TypeOK, NEW t, Matches(t) # {}
    PROVE  /\ findClientByTopic(t) \in ToSet(client_registry)
           /\ findClientByTopic(t) \in Clients
           /\ topic[findClientByTopic(t)] = t
<1>1. Matches(t) \subseteq Nat
  BY DEF Matches, TypeOK
<1> DEFINE i == CHOOSE k \in Matches(t) : \A j \in Matches(t) : k <= j
<1>2. i \in Matches(t)
  BY <1>1, FirstMatch
<1>3. findClientByTopic(t) = client_registry[i]
  BY DEF findClientByTopic
<1> HIDE DEF i
<1> QED BY <1>2, <1>3 DEF Matches, ToSet, TypeOK

-----------------------------------------------------------------------------
\* Registering an object keeps the entries different and within the table, and
\* leaves it out only when the table is full.
LEMMA Registering ==
    ASSUME TypeOK, RegistryFillsWithObjects, NEW c \in Clients,
           initMessageHandler(c)
    PROVE  /\ client_registry' \in Seq(Clients)
           /\ Len(client_registry') <= MAX_CLIENT_REGISTRY
           /\ \A i, j \in DOMAIN client_registry' :
                 client_registry'[i] = client_registry'[j] => i = j
           /\ ToSet(client_registry) \subseteq ToSet(client_registry')
           /\ Len(client_registry) <= Len(client_registry')
           /\ c \notin ToSet(client_registry')
                 => Len(client_registry') = MAX_CLIENT_REGISTRY
<1> USE RegistryAssumption
<1>0. client_registry \in Seq(Clients) /\ Len(client_registry) \in Nat
  BY DEF TypeOK
<1>1. CASE UNCHANGED client_registry
  <2>1. c \notin ToSet(client_registry)
          => Len(client_registry) >= MAX_CLIENT_REGISTRY
             \/ client_registry = Append(client_registry, c)
    BY <1>1 DEF initMessageHandler
  <2>2. Len(Append(client_registry, c)) = Len(client_registry) + 1
    BY <1>0
  <2> QED BY <1>0, <1>1, <2>1, <2>2 DEF RegistryFillsWithObjects
<1>2. CASE /\ c \notin ToSet(client_registry)
           /\ Len(client_registry) < MAX_CLIENT_REGISTRY
           /\ client_registry' = Append(client_registry, c)
  <2>1. /\ client_registry' \in Seq(Clients)
        /\ Len(client_registry') = Len(client_registry) + 1
        /\ DOMAIN client_registry = 1..Len(client_registry)
        /\ DOMAIN client_registry' = 1..(Len(client_registry) + 1)
        /\ client_registry'[Len(client_registry) + 1] = c
        /\ \A i \in 1..Len(client_registry) :
              client_registry'[i] = client_registry[i]
    BY <1>0, <1>2
  <2>2. \A i \in 1..Len(client_registry) : client_registry[i] # c
    BY <1>2, <2>1 DEF ToSet
  <2>3. \A i, j \in DOMAIN client_registry' :
           client_registry'[i] = client_registry'[j] => i = j
    <3> DEFINE n == Len(client_registry)
    <3> SUFFICES ASSUME NEW i \in 1..(n + 1), NEW j \in 1..(n + 1),
                        client_registry'[i] = client_registry'[j]
                 PROVE  i = j
      BY <2>1
    <3>1. CASE i \in 1..n /\ j \in 1..n
      BY <2>1, <3>1 DEF RegistryFillsWithObjects
    <3>2. CASE i = n + 1 \/ j = n + 1
      BY <1>0, <2>1, <2>2, <3>2
    <3> QED BY <1>0, <3>1, <3>2
  <2>4. /\ ToSet(client_registry) \subseteq ToSet(client_registry')
        /\ c \in ToSet(client_registry')
    BY <1>0, <2>1 DEF ToSet
  <2> QED BY <1>0, <1>2, <2>1, <2>3, <2>4
<1> QED BY <1>0, <1>1, <1>2 DEF initMessageHandler

-----------------------------------------------------------------------------
\* zclient_init gives a device to a client only while no other client has it.
LEMMA InitStep ==
    ASSUME RegistryInv, NEW c \in Clients, NEW d \in Devices, zclient_init(c, d)
    PROVE  RegistryInv'
<1> USE DEF RegistryInv
<1>1. /\ client_registry' \in Seq(Clients)
      /\ Len(client_registry') <= MAX_CLIENT_REGISTRY
      /\ \A i, j \in DOMAIN client_registry' :
            client_registry'[i] = client_registry'[j] => i = j
      /\ ToSet(client_registry) \subseteq ToSet(client_registry')
      /\ Len(client_registry) <= Len(client_registry')
      /\ usable'[c] /\ c \notin ToSet(client_registry')
            => Len(client_registry') = MAX_CLIENT_REGISTRY
  <2>1. CASE initMessageHandler(c)
    BY <2>1, Registering
  <2>2. CASE UNCHANGED <<client_registry, usable>>
    <3>1. client_registry \in Seq(Clients) /\ Len(client_registry) \in Nat
      BY DEF TypeOK
    <3> QED BY <2>2, <3>1 DEF RegistryFillsWithObjects
  <2> QED BY <2>1, <2>2 DEF zclient_init
<1>2. Len(client_registry) \in Nat /\ Len(client_registry') \in Nat
  BY <1>1 DEF TypeOK
<1>3. /\ topic' = [topic EXCEPT ![c] = d]
      /\ usable' = [usable EXCEPT ![c] = TRUE] \/ UNCHANGED usable
  BY DEF zclient_init
<1>4. RegistryFillsWithObjects'
  <2>1. ASSUME NEW e \in Clients, usable'[e],
               e \notin ToSet(client_registry')
        PROVE  Len(client_registry') = MAX_CLIENT_REGISTRY
    <3>1. CASE e = c
      BY <1>1, <2>1, <3>1
    <3>2. CASE e # c
      <4>1. usable[e] /\ e \notin ToSet(client_registry)
        BY <1>1, <1>3, <2>1, <3>2 DEF TypeOK
      <4>2. Len(client_registry) = MAX_CLIENT_REGISTRY
        BY <4>1 DEF RegistryFillsWithObjects
      <4> QED BY <1>1, <1>2, <4>2, RegistryAssumption
    <3> QED BY <3>1, <3>2
  <2> QED BY <1>1, <2>1 DEF RegistryFillsWithObjects
<1>5. Exclusive'
  <2> SUFFICES ASSUME NEW a \in Clients, NEW b \in Clients,
                      usable'[a], usable'[b], topic'[a] = topic'[b]
               PROVE  a = b
    BY DEF Exclusive
  <2>1. ~usable[c] /\ \A e \in Clients : ~(usable[e] /\ topic[e] = d)
    BY DEF zclient_init, InUse
  <2>2. /\ \A e \in Clients : e # c => usable'[e] = usable[e]
                                       /\ topic'[e] = topic[e]
        /\ topic'[c] = d
    BY <1>3 DEF TypeOK
  <2> QED BY <2>1, <2>2 DEF Exclusive
<1>6. TypeOK'
  <2>1. topic' \in [Clients -> Devices \cup {NoDevice}]
    BY <1>3 DEF TypeOK
  <2>2. usable' \in [Clients -> BOOLEAN]
    BY <1>3 DEF TypeOK
  <2>3. handler' \in [Clients -> BOOLEAN]
    BY DEF TypeOK, zclient_init
  <2>4. thread' = thread
    BY DEF zclient_init
  <2>5. \A e \in Clients : usable'[e] => topic'[e] \in Devices
    BY <1>3 DEF TypeOK
  <2>6. CASE UNCHANGED <<state, inits, usable>>
    BY <1>1, <2>1, <2>2, <2>3, <2>4, <2>5, <2>6 DEF TypeOK
  <2>7. CASE /\ state' = [state EXCEPT ![c] = "INITIALIZED"]
             /\ inits' = [inits EXCEPT ![c] = @ + 1]
    <3>1. inits[c] \in 0..MaxInits /\ inits[c] < MaxInits
      BY DEF TypeOK, zclient_init
    <3>2. inits' \in [Clients -> 0..MaxInits]
      BY <2>7, <3>1, RegistryAssumption DEF TypeOK
    <3>3. state' \in [Clients -> {"none", "INITIALIZED", "CONNECTED",
                                  "DISCONNECTED"}]
      BY <2>7 DEF TypeOK
    <3>4. \A e \in Clients : /\ state'[e] = "none" <=> inits'[e] = 0
                             /\ usable'[e] => inits'[e] > 0
      BY <1>3, <2>7, <3>1 DEF TypeOK
    <3>5. thread' \in [Messages -> [at : {"none", "received", "routed", "dropped", "handled", "unhandled"},
                                     from : Clients \cup {NoClient}, topic : Devices \cup {NoDevice},
                                     to : Clients \cup {NoClient}]]
      BY <2>4 DEF TypeOK
    <3>6. \A e \in Clients : /\ usable'[e] => topic'[e] \in Devices /\ inits'[e] > 0
                             /\ state'[e] = "none" <=> inits'[e] = 0
      BY <2>5, <3>4
    <3>7. client_registry' \in Seq(Clients)
      BY <1>1
    <3> QED BY <2>1, <2>2, <2>3, <3>2, <3>3, <3>5, <3>6, <3>7 DEF TypeOK
  <2> QED BY <2>6, <2>7 DEF zclient_init
<1> QED BY <1>4, <1>5, <1>6

\* Connecting, disconnecting and freeing leave registry and topics alone.
LEMMA UseStep ==
    ASSUME RegistryInv, NEW c \in Clients,
           ConnectAndSubscribe(c) \/ zclient_disconnect(c) \/ zclient_free(c)
    PROVE  RegistryInv'
<1> USE DEF RegistryInv
<1>1. /\ UNCHANGED <<client_registry, topic, thread, inits>>
      /\ usable' \in [Clients -> BOOLEAN]
      /\ \A e \in Clients : usable'[e] => usable[e]
  BY DEF ConnectAndSubscribe, zclient_disconnect, zclient_free, TypeOK
<1>2. /\ state' \in [Clients -> {"none", "INITIALIZED", "CONNECTED",
                                 "DISCONNECTED"}]
      /\ \A e \in Clients : state'[e] = "none" <=> state[e] = "none"
  <2>1. state[c] # "none"
    BY DEF ConnectAndSubscribe, zclient_disconnect, zclient_free, TypeOK
  <2> QED BY <2>1 DEF ConnectAndSubscribe, zclient_disconnect, zclient_free, TypeOK
<1>3. handler' \in [Clients -> BOOLEAN]
  BY DEF ConnectAndSubscribe, zclient_disconnect, zclient_free, TypeOK
<1>4. TypeOK'
  BY <1>1, <1>2, <1>3 DEF TypeOK
<1>5. Exclusive' /\ RegistryFillsWithObjects'
  BY <1>1 DEF Exclusive, RegistryFillsWithObjects
<1> QED BY <1>4, <1>5

\* The threads read the registry and write only their own record.
LEMMA ThreadStep ==
    ASSUME RegistryInv, NEW m \in Messages,
           \/ \E c \in Clients : onMessageReceived(m, c)
           \/ Route(m) \/ Handle(m)
    PROVE  RegistryInv'
<1> USE DEF RegistryInv
<1> DEFINE Threads == [at : {"none", "received", "routed", "dropped", "handled", "unhandled"},
                       from : Clients \cup {NoClient}, topic : Devices \cup {NoDevice},
                       to : Clients \cup {NoClient}]
<1>1. UNCHANGED <<client_registry, topic, state, usable, handler, inits>>
  BY DEF onMessageReceived, Route, Handle
<1>2. thread' \in [Messages -> Threads]
  <2>1. thread \in [Messages -> Threads] /\ thread[m] \in Threads
    BY DEF TypeOK
  <2>2. CASE \E c \in Clients : onMessageReceived(m, c)
    <3>1. PICK c \in Clients : onMessageReceived(m, c)
      BY <2>2
    <3>2. topic[c] \in Devices \cup {NoDevice}
      BY DEF TypeOK
    <3>3. [NoThread EXCEPT !.at = "received", !.from = c, !.topic = topic[c]] \in Threads
      BY <3>2 DEF NoThread
    <3> QED BY <2>1, <3>1, <3>3 DEF onMessageReceived
  <2>3. CASE Route(m)
    <3> DEFINE c == findClientByTopic(thread[m].topic)
    <3>1. c \in Clients \cup {NoClient}
      <4>1. CASE Matches(thread[m].topic) = {}
        BY <4>1 DEF findClientByTopic
      <4>2. CASE Matches(thread[m].topic) # {}
        BY <4>2, FoundHoldsTopic
      <4> QED BY <4>1, <4>2
    <3> HIDE DEF c
    <3>2. \/ thread' = [thread EXCEPT ![m].at = "dropped"]
          \/ thread' = [thread EXCEPT ![m].at = "routed", ![m].to = c]
      BY <2>3 DEF Route, c
    <3> QED BY <2>1, <3>1, <3>2
  <2>4. CASE Handle(m)
    <3>1. PICK a \in {"handled", "unhandled"} : thread' = [thread EXCEPT ![m].at = a]
      BY <2>4 DEF Handle
    <3> QED BY <2>1, <3>1
  <2> QED BY <2>2, <2>3, <2>4
<1> HIDE DEF Threads
<1>3. TypeOK'
  BY <1>1, <1>2 DEF TypeOK, Threads
<1>4. Exclusive' /\ RegistryFillsWithObjects'
  BY <1>1 DEF Exclusive, RegistryFillsWithObjects
<1> QED BY <1>3, <1>4

\* The invariant, for every behaviour.
LEMMA RegistryInvariant == Spec => []RegistryInv
<1>1. Init => RegistryInv
  <2> SUFFICES ASSUME Init PROVE RegistryInv
    OBVIOUS
  <2>1. TypeOK
    BY RegistryAssumption DEF Init, TypeOK, NoThread
  <2>2. Exclusive /\ RegistryFillsWithObjects
    BY RegistryAssumption DEF Init, Exclusive, RegistryFillsWithObjects
  <2> QED BY <2>1, <2>2 DEF RegistryInv
<1>2. RegistryInv /\ [Next]_vars => RegistryInv'
  <2> SUFFICES ASSUME RegistryInv, [Next]_vars PROVE RegistryInv'
    OBVIOUS
  <2>1. CASE UNCHANGED vars
    BY <2>1 DEF vars, RegistryInv, TypeOK, Exclusive, RegistryFillsWithObjects
  <2> QED BY <2>1, InitStep, UseStep, ThreadStep DEF Next
<1> QED BY <1>1, <1>2, PTL DEF Spec

\* However often objects are initialised, freed and initialised again, the registry
\* holds each once, never more than it has room for, and leaves a client in use out
\* only when it is full.
THEOREM RegistrySound == Spec => []RegistryFillsWithObjects
<1>1. RegistryInv => RegistryFillsWithObjects
  BY DEF RegistryInv
<1> QED BY <1>1, RegistryInvariant, PTL

\* The type invariant, for any clients, devices and messages.
THEOREM RegistryTypes == Spec => []TypeOK
<1>1. RegistryInv => TypeOK
  BY DEF RegistryInv
<1> QED BY <1>1, RegistryInvariant, PTL

\* A message of a registered client in use is not dropped, and no other client in
\* use handles it, for any number of clients.
THEOREM Routing == Spec => HandledByItsReceiver
<1> DEFINE Step ==
       \A m \in Messages :
          LET c == thread[m].from  to == thread'[m].to
          IN /\ thread[m].at = "received" /\ thread'[m].at # "received"
             /\ usable[c] /\ topic[c] = thread[m].topic
             /\ c \in ToSet(client_registry)
             => to = c \/ (to \in Clients /\ ~usable[to])
<1>1. RegistryInv /\ [Next]_vars => [Step]_vars
  <2> SUFFICES ASSUME RegistryInv, [Next]_vars, NEW m \in Messages,
                      thread[m].at = "received", thread'[m].at # "received",
                      usable[thread[m].from],
                      topic[thread[m].from] = thread[m].topic,
                      thread[m].from \in ToSet(client_registry)
               PROVE  \/ thread'[m].to = thread[m].from
                      \/ thread'[m].to \in Clients /\ ~usable[thread'[m].to]
    OBVIOUS
  <2>0. TypeOK /\ Exclusive
    BY DEF RegistryInv
  <2>1. Route(m)
    <3>1. thread' # thread
      OBVIOUS
    <3>2. ASSUME NEW k \in Messages, \E c \in Clients : onMessageReceived(k, c)
          PROVE  FALSE
      BY <2>0, <3>2 DEF onMessageReceived, TypeOK
    <3>3. ASSUME NEW k \in Messages, Route(k) PROVE k = m
      BY <2>0, <3>3 DEF Route, TypeOK
    <3>4. ASSUME NEW k \in Messages, Handle(k) PROVE FALSE
      BY <2>0, <3>4 DEF Handle, TypeOK
    <3>5. ASSUME NEW c \in Clients, NEW d \in Devices, zclient_init(c, d) PROVE FALSE
      BY <3>1, <3>5 DEF zclient_init
    <3>6. ASSUME NEW c \in Clients,
                 ConnectAndSubscribe(c) \/ zclient_disconnect(c) \/ zclient_free(c)
          PROVE  FALSE
      BY <3>1, <3>6 DEF ConnectAndSubscribe, zclient_disconnect, zclient_free
    <3> QED BY <3>1, <3>2, <3>3, <3>4, <3>5, <3>6 DEF Next, vars
  <2> DEFINE t == thread[m].topic  f == findClientByTopic(t)
  <2>2. Matches(t) # {}
    BY <2>0 DEF Matches, ToSet, TypeOK
  <2>3. f \in Clients /\ topic[f] = t
    BY <2>0, <2>2, FoundHoldsTopic
  <2>4. thread[m].from \in Clients
    BY <2>0 DEF ToSet, TypeOK
  <2>5. f # NoClient
    BY <2>3, RegistryAssumption
  <2> HIDE DEF f
  <2>6. thread' = [thread EXCEPT ![m].at = "routed", ![m].to = f]
    BY <2>1, <2>5 DEF Route, f
  <2>7. thread'[m].to = f
    BY <2>0, <2>6 DEF TypeOK
  <2> QED BY <2>0, <2>3, <2>4, <2>7 DEF Exclusive
<1> HIDE DEF Step
<1>2. Spec => [][Step]_vars
  BY <1>1, RegistryInvariant, PTL DEF Spec
<1> QED BY <1>2 DEF HandledByItsReceiver, Step
=============================================================================
