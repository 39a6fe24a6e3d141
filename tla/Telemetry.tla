----------------------------- MODULE Telemetry -----------------------------
(***************************************************************************)
(* The data points that the application collects with addNumber, addString,*)
(* addObject and markDataPointAsError until zclient_dispatch sends them,   *)
(* and the data of an event until dispatchEventFromEventDataObject.        *)
(*                                                                         *)
(* A cJSON tree is the set of its nodes, each with its path.  cJSON finds  *)
(* keys without regard to case, so a path is a sequence of folded keys and *)
(* a node keeps the key it is printed with.  The n-th call that adds a     *)
(* value adds n, so that values can be told apart.                         *)
(***************************************************************************)
EXTENDS Naturals, Sequences, FiniteSets, SequencesExt

CONSTANTS Keys,         \* keys of data points and parts of asset names
          Fold(_),      \* a key in lower case
          Assets,       \* asset names, split at their dots; <<>> for none
          Member,       \* the key in the objects given to addObject
          MaxAdds       \* calls that add something

ASSUME TelemetryAssumption ==
    /\ \A k \in Keys : Fold(k) \in Keys
    /\ Assets \subseteq Seq(Keys) /\ Member \in Keys
    /\ MaxAdds \in Nat

VARIABLES
    data,        \* the nodes under message.data
    created,     \* message.data is not NULL
    eventData,   \* the nodes under eventDataObject
    writes,      \* history: what was put into data since it was created
    added,       \* the number of calls so far
    confirmed,   \* values whose dispatch or retry returned ZSUCCESS
    reported,    \* values whose dispatch returned a failure; the broker may have
                 \* got them all the same, when only the PUBACK was late
    stored       \* values of the one event kept for the retry

vars == <<data, created, eventData, writes, added, confirmed, reported, stored>>
outcome == <<confirmed, reported, stored>>

Object == 0                                       \* the value of an object
Node(p, k, v) == [path |-> p, key |-> k, val |-> v]
FoldPath(p) == [i \in DOMAIN p |-> Fold(p[i])]
HasObjectItem(tree, p) == \E n \in tree : n.path = p
Scalars(nodes) == {n \in nodes : n.val # Object}
ValuesOf(nodes) == {n.val : n \in Scalars(nodes)}

\* What cJSON_Print prints of a tree: children of a number or string are not.
Printed(tree) ==
    {n \in Scalars(tree) : \A a \in Scalars(tree) : ~IsStrictPrefix(a.path, n.path)}

----------------------------------------------------------------------------
\* The objects of the asset, made where nothing has their name yet; whatever has
\* the name is used, object or not.
addAssetNameTopayload(tree, asset) ==
    tree \cup {Node(FoldPath(SubSeq(asset, 1, i)), asset[i], Object)
                 : i \in {j \in 1..Len(asset) :
                             ~HasObjectItem(tree, FoldPath(SubSeq(asset, 1, j)))}}

\* Mutant of Put: what was below the name stays.
MutPut(tree, p, nodes) ==
    {n \in tree : n.path # p} \cup nodes

\* Adding a key that is not there, replacing one that is, with all below it.
Put(tree, p, nodes) ==
    {n \in tree : ~IsPrefix(p, n.path)} \cup nodes

\* What the three calls put at a path: a number or string, an object with one
\* member, or nothing, for a value that cJSON could not create or copy.
Contents(p, k, v) ==
    {{Node(p, k, v)},
     {Node(p, k, Object), Node(Append(p, Fold(Member)), Member, v)},
     {}}

\* zclient_addNumber, addString, markDataPointAsError, addObject.
Add(k, asset) ==
    /\ added < MaxAdds
    /\ LET p == Append(FoldPath(asset), Fold(k))
       IN \E nodes \in Contents(p, k, added + 1) :
            /\ data' = LET tree == addAssetNameTopayload(data, asset)
                       IN IF nodes = {} THEN tree ELSE Put(tree, p, nodes)
            /\ writes' = IF nodes = {} THEN writes ELSE Append(writes, nodes)
    /\ created' = TRUE
    /\ added' = added + 1
    /\ UNCHANGED <<eventData, outcome>>

\* zclient_addEventDataNumber, String, Object: the same without assets.
AddEvent(k) ==
    /\ added < MaxAdds
    /\ LET p == <<Fold(k)>>
       IN \E nodes \in Contents(p, k, added + 1) :
            eventData' = IF nodes = {} THEN eventData ELSE Put(eventData, p, nodes)
    /\ added' = added + 1
    /\ UNCHANGED <<data, created, writes, outcome>>

\* Mutant of zclient_dispatch: a failure is not reported.
MutDispatch ==
    /\ \/ /\ UNCHANGED <<data, created, writes, outcome>>
       \/ /\ created
          /\ data' = {} /\ created' = FALSE /\ writes' = <<>>
          /\ \/ confirmed' = confirmed \cup ValuesOf(Printed(data)) /\ UNCHANGED reported
             \/ UNCHANGED <<confirmed, reported>>
          /\ UNCHANGED stored
    /\ UNCHANGED <<eventData, added>>

\* Without a connection or without data the call fails and changes nothing;
\* otherwise the data points are deleted, published or not.
zclient_dispatch ==
    /\ \/ /\ UNCHANGED <<data, created, writes, outcome>>
       \/ /\ created
          /\ data' = {} /\ created' = FALSE /\ writes' = <<>>
          /\ \/ confirmed' = confirmed \cup ValuesOf(Printed(data)) /\ UNCHANGED reported
             \/ reported' = reported \cup ValuesOf(Printed(data)) /\ UNCHANGED confirmed
          /\ UNCHANGED stored
    /\ UNCHANGED <<eventData, added>>

\* Mutant of zclient_dispatchEventFromEventDataObject: the event data stay.
MutDispatchEvent ==
    LET values == ValuesOf(Printed(eventData))
    IN /\ \/ confirmed' = confirmed \cup values /\ UNCHANGED <<reported, stored>>
          \/ /\ reported' = reported \cup values /\ UNCHANGED confirmed
             /\ stored' \in {values, stored}
       /\ UNCHANGED <<data, created, eventData, writes, added>>

\* The event data are deleted whatever happens: confirmed; or, publishing having
\* failed, kept for the retry in place of the event kept before; or given up because
\* the call failed before it.
zclient_dispatchEventFromEventDataObject ==
    LET values == ValuesOf(Printed(eventData))
    IN /\ \/ confirmed' = confirmed \cup values /\ UNCHANGED <<reported, stored>>
          \/ /\ reported' = reported \cup values /\ UNCHANGED confirmed
             /\ stored' \in {values, stored}
       /\ eventData' = {}
       /\ UNCHANGED <<data, created, writes, added>>

\* zclient_reconnect, once connected again: the kept event is published, is found
\* expired and dropped, or stays because publishing failed again.
RetryEvent ==
    /\ stored # {}
    /\ \/ confirmed' = confirmed \cup stored /\ stored' = {}
       \/ stored' = {} /\ UNCHANGED confirmed
       \/ UNCHANGED <<confirmed, stored>>
    /\ UNCHANGED <<data, created, eventData, writes, added, reported>>

----------------------------------------------------------------------------
\* zclient_init creates both objects.
Init ==
    /\ data = {} /\ created = TRUE /\ eventData = {}
    /\ writes = <<>> /\ added = 0
    /\ confirmed = {} /\ reported = {} /\ stored = {}

Next ==
    \/ \E k \in Keys, a \in Assets : Add(k, a)
    \/ \E k \in Keys : AddEvent(k)
    \/ zclient_dispatch \/ zclient_dispatchEventFromEventDataObject \/ RetryEvent

Spec == Init /\ [][Next]_vars

----------------------------------------------------------------------------
(* Properties *)

\* One node for each path and a node for every prefix of it.
IsTree(tree) ==
    /\ \A n, o \in tree : n.path = o.path => n = o
    /\ \A n \in tree : \A i \in 1..(Len(n.path) - 1) :
          HasObjectItem(tree, SubSeq(n.path, 1, i))

\* What the calls build are trees, and there is none in a message that does not
\* exist (addAssetNameTopayload, cJSON_ReplaceItemInObject, zclient_dispatch).
TypeOK ==
    /\ IsTree(data) /\ IsTree(eventData)
    /\ ~created => data = {}

\* The nodes of a write that no later write has replaced.
Alive == {n \in UNION {writes[i] : i \in DOMAIN writes} :
            \E i \in DOMAIN writes :
              /\ n \in writes[i]
              /\ \A j \in (i + 1)..Len(writes) : \A o \in writes[j] : ~IsPrefix(o.path, n.path)}

\* The payload is what the calls wrote: the last value under each name, names
\* being equal if they differ in case only, without what a later value of an
\* enclosing name replaced and without what was added to an asset whose name
\* already is a number or a string.
PayloadIsLastWrites ==
    Printed(data) = {n \in Scalars(Alive) : \A a \in Scalars(Alive) : ~IsStrictPrefix(a.path, n.path)}

\* zclient_dispatch and dispatchEventFromEventDataObject leave nothing behind that a
\* later dispatch would hand over again, and what is kept for the retry is an event
\* whose dispatch failed and that no dispatch or retry was told to have arrived.
DispatchedOnce ==
    LET pending == ValuesOf(data) \cup ValuesOf(eventData)
    IN /\ pending \cap (confirmed \cup reported) = {}
       /\ stored \subseteq reported \ confirmed

\* A value that would have been sent is lost only by a dispatch that says so, by
\* its return value, or by a later call that adds in its place.
NoSilentLoss ==
    [][added' = added =>
         ValuesOf(Printed(data)) \cup ValuesOf(Printed(eventData))
            \subseteq ValuesOf(Printed(data')) \cup ValuesOf(Printed(eventData'))
                        \cup confirmed' \cup reported']_vars
=============================================================================
