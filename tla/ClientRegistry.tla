-------------------------- MODULE ClientRegistry --------------------------
(***************************************************************************)
(* Several clients in one process.  The callback of the MQTT library has   *)
(* no client argument, so the thread of a message looks for its client in  *)
(* client_registry, by topic; zclient_init adds to the registry and        *)
(* nothing takes out of it, and zclient_free waits for no thread.          *)
(***************************************************************************)
EXTENDS Naturals, Sequences, SequencesExt

CONSTANTS Clients,               \* objects of type ZohoIOTclient
          Devices,               \* user names: each gives one set of topics
          NoDevice, NoClient,
          MAX_CLIENT_REGISTRY,   \* 16 in the code
          Messages,              \* messages the broker may send
          MaxInits               \* successful zclient_init of one object

ASSUME RegistryAssumption ==
    /\ NoDevice \notin Devices /\ NoClient \notin Clients
    /\ MAX_CLIENT_REGISTRY \in Nat /\ MaxInits \in Nat

VARIABLES
    client_registry,  \* client_registry[0 .. client_registry_count - 1]
    topic,            \* the device whose topics each client object holds
    state,            \* current_state, "none" before the first zclient_init
    usable,           \* the lock and the buffers of the object exist
    handler,          \* on_command_message_handler is set
    thread,           \* the thread of each message
    inits             \* how often each object was initialised

vars == <<client_registry, topic, state, usable, handler, thread, inits>>

NoThread == [at |-> "none", from |-> NoClient, topic |-> NoDevice, to |-> NoClient]

\* The application gives a device to one client at a time.
InUse(d) == \E c \in Clients : usable[c] /\ topic[c] = d

----------------------------------------------------------------------------
\* Mutant of initMessageHandler: an object is added once more.
MutInitMessageHandler(c) ==
    client_registry' = IF Len(client_registry) < MAX_CLIENT_REGISTRY
                       THEN Append(client_registry, c) ELSE client_registry

initMessageHandler(c) ==
    client_registry' = IF c \in ToSet(client_registry)
                          \/ Len(client_registry) >= MAX_CLIENT_REGISTRY
                       THEN client_registry ELSE Append(client_registry, c)

\* An object is initialised when it is new or was freed.  The topics are
\* written before the checks that may still fail, and the object is registered
\* before its lock is made, which may fail too.
zclient_init(c, d) ==
    /\ ~usable[c] /\ ~InUse(d) /\ inits[c] < MaxInits
    /\ topic' = [topic EXCEPT ![c] = d]
    /\ \/ /\ initMessageHandler(c)
          /\ state' = [state EXCEPT ![c] = "INITIALIZED"]
          /\ usable' = [usable EXCEPT ![c] = TRUE]
          /\ handler' = [handler EXCEPT ![c] = FALSE]
          /\ inits' = [inits EXCEPT ![c] = @ + 1]
       \/ /\ initMessageHandler(c)
          /\ handler' = [handler EXCEPT ![c] = FALSE]
          /\ UNCHANGED <<state, usable, inits>>
       \/ UNCHANGED <<client_registry, state, usable, handler, inits>>
    /\ UNCHANGED thread

\* zclient_connect and zclient_command_subscribe, which sets the handler.
ConnectAndSubscribe(c) ==
    /\ usable[c] /\ state[c] # "CONNECTED"
    /\ state' = [state EXCEPT ![c] = "CONNECTED"]
    /\ handler' = [handler EXCEPT ![c] = TRUE]
    /\ UNCHANGED <<client_registry, topic, usable, thread, inits>>

zclient_disconnect(c) ==
    /\ usable[c] /\ state[c] = "CONNECTED"
    /\ state' = [state EXCEPT ![c] = "DISCONNECTED"]
    /\ UNCHANGED <<client_registry, topic, usable, handler, thread, inits>>

\* Mutant of zclient_free: the state is cleared.
MutFree(c) ==
    /\ usable[c]
    /\ state' = [state EXCEPT ![c] = "none"]
    /\ usable' = [usable EXCEPT ![c] = FALSE]
    /\ UNCHANGED <<client_registry, topic, handler, thread, inits>>

\* Disconnects, frees the buffers and destroys the lock; current_state stays.
zclient_free(c) ==
    /\ usable[c]
    /\ state' = IF state[c] = "CONNECTED" THEN [state EXCEPT ![c] = "DISCONNECTED"] ELSE state
    /\ usable' = [usable EXCEPT ![c] = FALSE]
    /\ UNCHANGED <<client_registry, topic, handler, thread, inits>>

----------------------------------------------------------------------------
\* A client that yields receives a message on its topic.
onMessageReceived(m, c) ==
    /\ thread[m].at = "none" /\ usable[c] /\ state[c] = "CONNECTED"
    /\ thread' = [thread EXCEPT ![m] = [NoThread EXCEPT !.at = "received", !.from = c,
                                                        !.topic = topic[c]]]
    /\ UNCHANGED <<client_registry, topic, state, usable, handler, inits>>

Matches(t) == {i \in DOMAIN client_registry : topic[client_registry[i]] = t}

\* Mutant of findClientByTopic: the first entry is taken.
MutFindClientByTopic(t) ==
    IF Matches(t) = {} THEN NoClient ELSE client_registry[1]

findClientByTopic(t) ==
    IF Matches(t) = {} THEN NoClient
    ELSE client_registry[CHOOSE i \in Matches(t) : \A j \in Matches(t) : i <= j]

\* processMessageReceived: the client is looked up, its lock is taken to form
\* the acknowledgement, and its acknowledgement topic is copied.
Route(m) ==
    /\ thread[m].at = "received"
    /\ LET c == findClientByTopic(thread[m].topic)
       IN thread' = IF c = NoClient THEN [thread EXCEPT ![m].at = "dropped"]
                    ELSE [thread EXCEPT ![m].at = "routed", ![m].to = c]
    /\ UNCHANGED <<client_registry, topic, state, usable, handler, inits>>

\* The handler of the client, if it has one, publishes the outcome through it.
Handle(m) ==
    /\ thread[m].at = "routed"
    /\ thread' = [thread EXCEPT ![m].at = IF handler[thread[m].to] THEN "handled"
                                          ELSE "unhandled"]
    /\ UNCHANGED <<client_registry, topic, state, usable, handler, inits>>

----------------------------------------------------------------------------
Init ==
    /\ client_registry = <<>>
    /\ topic = [c \in Clients |-> NoDevice]
    /\ state = [c \in Clients |-> "none"]
    /\ usable = [c \in Clients |-> FALSE]
    /\ handler = [c \in Clients |-> FALSE]
    /\ thread = [m \in Messages |-> NoThread]
    /\ inits = [c \in Clients |-> 0]

Next ==
    \/ \E c \in Clients, d \in Devices : zclient_init(c, d)
    \/ \E c \in Clients : ConnectAndSubscribe(c) \/ zclient_disconnect(c) \/ zclient_free(c)
    \/ \E m \in Messages, c \in Clients : onMessageReceived(m, c)
    \/ \E m \in Messages : Route(m) \/ Handle(m)

Spec == Init /\ [][Next]_vars

----------------------------------------------------------------------------
(* Properties *)

\* The registry, the clients and the threads have their types; an object that was
\* ever initialised keeps a state of ZclientConnectionState, freed or not.
TypeOK ==
    /\ client_registry \in Seq(Clients)
    /\ topic \in [Clients -> Devices \cup {NoDevice}]
    /\ state \in [Clients -> {"none", "INITIALIZED", "CONNECTED", "DISCONNECTED"}]
    /\ usable \in [Clients -> BOOLEAN]
    /\ handler \in [Clients -> BOOLEAN]
    /\ inits \in [Clients -> 0..MaxInits]
    /\ thread \in [Messages -> [at : {"none", "received", "routed", "dropped", "handled", "unhandled"},
                                from : Clients \cup {NoClient}, topic : Devices \cup {NoDevice},
                                to : Clients \cup {NoClient}]]
    /\ \A c \in Clients : /\ usable[c] => topic[c] \in Devices /\ inits[c] > 0
                          /\ state[c] = "none" <=> inits[c] = 0

\* initMessageHandler: initialising an object again costs no second entry, so the
\* registry fills up only with as many different objects as it has room for, and a
\* usable client is missing from it only then.
RegistryFillsWithObjects ==
    /\ Len(client_registry) <= MAX_CLIENT_REGISTRY
    /\ \A i, j \in DOMAIN client_registry :
          client_registry[i] = client_registry[j] => i = j
    /\ \A c \in Clients : usable[c] /\ c \notin ToSet(client_registry)
                          => Len(client_registry) = MAX_CLIENT_REGISTRY

\* The registry as routing: while the client that received a message is in use
\* under the same device and registered, the message is not dropped, and goes to it
\* or to an object that was freed after it had held that device before; never to
\* another client in use.
HandledByItsReceiver ==
    [][\A m \in Messages :
          LET c == thread[m].from  to == thread'[m].to
          IN /\ thread[m].at = "received" /\ thread'[m].at # "received"
             /\ usable[c] /\ topic[c] = thread[m].topic
             /\ c \in ToSet(client_registry)
             => to = c \/ (to \in Clients /\ ~usable[to])]_vars
=============================================================================
