-------------------------- MODULE Telemetry_proofs --------------------------
(***************************************************************************)
(* Proofs about Telemetry, for any keys and assets, any folding of keys    *)
(* and any number of calls.                                                *)
(***************************************************************************)
EXTENDS Telemetry, TLAPS, SequenceTheorems

-----------------------------------------------------------------------------
(* Paths.                                                                  *)

(* The prefixes of a path.                                                 *)
LEMMA PrefixParts ==
    ASSUME NEW p \in Seq(Keys), NEW i \in 1..Len(p)
    PROVE  /\ SubSeq(p, 1, i) \in Seq(Keys) /\ Len(SubSeq(p, 1, i)) = i
           /\ \A j \in 1..i : SubSeq(p, 1, i)[j] = p[j]
           /\ SubSeq(p, 1, i) # <<>>
<1>1. \A j \in 1..i : p[j] \in Keys
  OBVIOUS
<1>2. i \in Int /\ 1 \in Int /\ 1 <= i
  OBVIOUS
<1>3. /\ SubSeq(p, 1, i) \in Seq(Keys)
      /\ Len(SubSeq(p, 1, i)) = IF 1 <= i THEN i - 1 + 1 ELSE 0
      /\ \A j \in 1..(i - 1 + 1) : SubSeq(p, 1, i)[j] = p[1 + j - 1]
  BY <1>1, <1>2, SubSeqProperties
<1> QED BY <1>2, <1>3

(* A prefix, position by position.                                         *)
LEMMA PrefixPositions ==
    ASSUME NEW s \in Seq(Keys), NEW t \in Seq(Keys), s # <<>>
    PROVE  IsPrefix(s, t) <=> /\ Len(s) <= Len(t)
                              /\ \A j \in 1..Len(s) : s[j] = t[j]
<1>1. Len(s) \in 1..Len(s)
  OBVIOUS
<1>2. /\ SubSeq(s, 1, Len(s)) \in Seq(Keys) /\ Len(SubSeq(s, 1, Len(s))) = Len(s)
      /\ \A j \in 1..Len(s) : SubSeq(s, 1, Len(s))[j] = s[j]
  BY <1>1, PrefixParts
<1>3. Len(s) <= Len(t) =>
        /\ SubSeq(t, 1, Len(s)) \in Seq(Keys) /\ Len(SubSeq(t, 1, Len(s))) = Len(s)
        /\ \A j \in 1..Len(s) : SubSeq(t, 1, Len(s))[j] = t[j]
  <2>1. Len(s) <= Len(t) => Len(s) \in 1..Len(t)
    OBVIOUS
  <2> QED BY <2>1, PrefixParts
<1>4. ASSUME Len(s) <= Len(t), \A j \in 1..Len(s) : s[j] = t[j]
      PROVE  SubSeq(s, 1, Len(s)) = SubSeq(t, 1, Len(s))
  BY <1>2, <1>3, <1>4, SeqEqual
<1>5. ASSUME Len(s) <= Len(t), SubSeq(s, 1, Len(s)) = SubSeq(t, 1, Len(s))
      PROVE  \A j \in 1..Len(s) : s[j] = t[j]
  BY <1>2, <1>3, <1>5
<1> QED BY <1>4, <1>5 DEF IsPrefix

(* Folding a path keeps its length, and the prefixes of a folded path are  *)
(* the folded prefixes.                                                    *)
LEMMA FoldedPath ==
    ASSUME NEW p \in Seq(Keys)
    PROVE  /\ FoldPath(p) \in Seq(Keys) /\ Len(FoldPath(p)) = Len(p)
           /\ \A j \in 1..Len(p) : FoldPath(p)[j] = Fold(p[j])
<1>1. \A j \in 1..Len(p) : Fold(p[j]) \in Keys
  BY TelemetryAssumption
<1> QED BY <1>1 DEF FoldPath

LEMMA FoldedPrefix ==
    ASSUME NEW p \in Seq(Keys), NEW i \in 1..Len(p)
    PROVE  /\ FoldPath(SubSeq(p, 1, i)) = SubSeq(FoldPath(p), 1, i)
           /\ FoldPath(SubSeq(p, 1, i)) \in Seq(Keys)
           /\ Len(FoldPath(SubSeq(p, 1, i))) = i
<1>1. PICK q : q = SubSeq(p, 1, i)
  OBVIOUS
<1>2. q \in Seq(Keys) /\ Len(q) = i /\ \A j \in 1..i : q[j] = p[j]
  BY <1>1, PrefixParts
<1>3. /\ FoldPath(q) \in Seq(Keys) /\ Len(FoldPath(q)) = i
      /\ \A j \in 1..i : FoldPath(q)[j] = Fold(q[j])
  BY <1>2, FoldedPath
<1>4. /\ FoldPath(p) \in Seq(Keys) /\ Len(FoldPath(p)) = Len(p)
      /\ \A j \in 1..Len(p) : FoldPath(p)[j] = Fold(p[j])
  BY FoldedPath
<1>5. PICK r : r = SubSeq(FoldPath(p), 1, i)
  OBVIOUS
<1>6. r \in Seq(Keys) /\ Len(r) = i /\ \A j \in 1..i : r[j] = FoldPath(p)[j]
  BY <1>4, <1>5, PrefixParts
<1>7. \A j \in 1..i : r[j] = FoldPath(q)[j]
  <2>1. \A j \in 1..i : j \in 1..Len(p)
    OBVIOUS
  <2> QED BY <1>2, <1>3, <1>4, <1>6, <2>1
<1>8. r = FoldPath(q)
  BY <1>3, <1>6, <1>7, SeqEqual
<1> QED BY <1>1, <1>3, <1>5, <1>8

(* A path that has p as a prefix of one of its prefixes has p as a prefix. *)
LEMMA PrefixOfPrefix ==
    ASSUME NEW p \in Seq(Keys), NEW q \in Seq(Keys), NEW i \in 1..Len(q),
           p # <<>>, IsPrefix(p, SubSeq(q, 1, i))
    PROVE  IsPrefix(p, q) /\ Len(p) <= i
<1>1. PICK r : r = SubSeq(q, 1, i)
  OBVIOUS
<1>2. r \in Seq(Keys) /\ Len(r) = i /\ \A j \in 1..i : r[j] = q[j]
  BY <1>1, PrefixParts
<1>3. Len(p) <= i /\ \A j \in 1..Len(p) : p[j] = r[j]
  BY <1>1, <1>2, PrefixPositions
<1>4. \A j \in 1..Len(p) : p[j] = q[j]
  BY <1>2, <1>3
<1>5. Len(p) <= Len(q)
  BY <1>3
<1> QED BY <1>3, <1>4, <1>5, PrefixPositions

(* A path and its extensions have it as a prefix.                          *)
LEMMA PrefixOfExtension ==
    ASSUME NEW p \in Seq(Keys), NEW k \in Keys, p # <<>>
    PROVE  /\ IsPrefix(p, p) /\ IsPrefix(p, Append(p, k))
           /\ Append(p, k) \in Seq(Keys) /\ Append(p, k) # p
           /\ Append(p, k) # <<>> /\ Len(Append(p, k)) = Len(p) + 1
           /\ ~IsPrefix(Append(p, k), p)
<1>1. PICK q : q = Append(p, k)
  OBVIOUS
<1>2. /\ q \in Seq(Keys) /\ q # <<>> /\ Len(q) = Len(p) + 1
      /\ \A j \in 1..Len(p) : q[j] = p[j]
  BY <1>1, AppendProperties
<1>3. IsPrefix(p, p)
  BY PrefixPositions
<1>4. IsPrefix(p, q)
  BY <1>2, PrefixPositions
<1>5. ~IsPrefix(q, p)
  BY <1>2, PrefixPositions
<1>6. q # p
  BY <1>2
<1> QED BY <1>1, <1>2, <1>3, <1>4, <1>5, <1>6

(* The prefixes of an extended path are those of the path and itself.      *)
LEMMA PrefixesOfExtension ==
    ASSUME NEW p \in Seq(Keys), NEW k \in Keys, NEW i \in 1..Len(p)
    PROVE  SubSeq(Append(p, k), 1, i) = SubSeq(p, 1, i)
<1>1. PICK q : q = Append(p, k)
  OBVIOUS
<1>2. /\ q \in Seq(Keys) /\ Len(q) = Len(p) + 1
      /\ \A j \in 1..Len(p) : q[j] = p[j]
  BY <1>1, AppendProperties
<1>3. i \in 1..Len(q)
  BY <1>2
<1>4. PICK r, s : r = SubSeq(q, 1, i) /\ s = SubSeq(p, 1, i)
  OBVIOUS
<1>5. /\ r \in Seq(Keys) /\ Len(r) = i /\ \A j \in 1..i : r[j] = q[j]
      /\ s \in Seq(Keys) /\ Len(s) = i /\ \A j \in 1..i : s[j] = p[j]
  BY <1>2, <1>3, <1>4, PrefixParts
<1>6. \A j \in 1..i : r[j] = s[j]
  BY <1>2, <1>5
<1>7. r = s
  BY <1>5, <1>6, SeqEqual
<1> QED BY <1>1, <1>4, <1>7

(* A prefix of a prefix is a prefix.                                       *)
LEMMA PrefixOfPart ==
    ASSUME NEW p \in Seq(Keys), NEW i \in 1..Len(p), NEW j \in 1..i
    PROVE  SubSeq(SubSeq(p, 1, i), 1, j) = SubSeq(p, 1, j)
<1>1. PICK q : q = SubSeq(p, 1, i)
  OBVIOUS
<1>2. q \in Seq(Keys) /\ Len(q) = i /\ \A n \in 1..i : q[n] = p[n]
  BY <1>1, PrefixParts
<1>3. j \in 1..Len(p) /\ j \in 1..Len(q) /\ 1..j \subseteq 1..i
  BY <1>2
<1>4. PICK r, s : r = SubSeq(q, 1, j) /\ s = SubSeq(p, 1, j)
  OBVIOUS
<1>5. /\ r \in Seq(Keys) /\ Len(r) = j /\ \A n \in 1..j : r[n] = q[n]
      /\ s \in Seq(Keys) /\ Len(s) = j /\ \A n \in 1..j : s[n] = p[n]
  BY <1>2, <1>3, <1>4, PrefixParts
<1>6. \A n \in 1..j : r[n] = s[n]
  BY <1>2, <1>3, <1>5
<1>7. r = s
  BY <1>5, <1>6, SeqEqual
<1> QED BY <1>1, <1>4, <1>7

-----------------------------------------------------------------------------
(* Trees.                                                                  *)

Paths(tree) == \A n \in tree : n.path \in Seq(Keys) /\ n.path # <<>>
Tree(tree) == Paths(tree) /\ IsTree(tree)

(* Making the objects of an asset gives a tree that has them all; the      *)
(* values stay as they were.                                               *)
LEMMA AssetTree ==
    ASSUME NEW tree, Tree(tree), NEW asset \in Seq(Keys), NEW u,
           u = addAssetNameTopayload(tree, asset)
    PROVE  /\ Tree(u)
           /\ \A i \in 1..Len(asset) : HasObjectItem(u, SubSeq(FoldPath(asset), 1, i))
           /\ \A n \in tree : n \in u
           /\ \A n \in u : n \in tree \/ n.val = Object
<1> DEFINE at(i) == SubSeq(FoldPath(asset), 1, i)
           new(i) == Node(at(i), asset[i], Object)
<1>1. \A i \in 1..Len(asset) : /\ FoldPath(SubSeq(asset, 1, i)) = at(i)
                               /\ at(i) \in Seq(Keys) /\ Len(at(i)) = i
                               /\ at(i) # <<>>
  <2> SUFFICES ASSUME NEW i \in 1..Len(asset)
               PROVE  /\ FoldPath(SubSeq(asset, 1, i)) = at(i)
                      /\ at(i) \in Seq(Keys) /\ Len(at(i)) = i
                      /\ at(i) # <<>>
    OBVIOUS
  <2>1. /\ FoldPath(SubSeq(asset, 1, i)) = at(i)
        /\ at(i) \in Seq(Keys) /\ Len(at(i)) = i
    BY FoldedPrefix
  <2>2. at(i) # <<>>
    <3> HIDE DEF at
    <3> QED BY <2>1
  <2> QED BY <2>1, <2>2
<1>2. \A n : n \in u <=> \/ n \in tree
                       \/ \E i \in 1..Len(asset) : /\ ~HasObjectItem(tree, at(i))
                                                    /\ n = new(i)
  BY <1>1 DEF addAssetNameTopayload
<1>3. \A i \in 1..Len(asset) : new(i).path = at(i) /\ new(i).val = Object
  BY DEF Node
<1>4. \A i, j \in 1..Len(asset) : at(i) = at(j) => i = j
  BY <1>1
<1>5. \A i \in 1..Len(asset), j \in 1..Len(asset) :
         j \in 1..(Len(at(i)) - 1) => SubSeq(at(i), 1, j) = at(j)
  <2> SUFFICES ASSUME NEW i \in 1..Len(asset), NEW j \in 1..(i - 1)
               PROVE  SubSeq(at(i), 1, j) = at(j)
    BY <1>1
  <2>1. FoldPath(asset) \in Seq(Keys) /\ Len(FoldPath(asset)) = Len(asset)
    BY FoldedPath
  <2> QED BY <2>1, PrefixOfPart
<1> HIDE DEF at, new
<1>6. Paths(u)
  BY <1>1, <1>2, <1>3 DEF Paths, Tree
<1>7. \A i \in 1..Len(asset) : HasObjectItem(u, at(i))
  BY <1>2, <1>3 DEF HasObjectItem
<1>8. \A n, o \in u : n.path = o.path => n = o
  <2> SUFFICES ASSUME NEW n \in u, NEW o \in u, n.path = o.path
               PROVE  n = o
    OBVIOUS
  <2>1. CASE n \in tree /\ o \in tree
    BY <2>1 DEF Tree, IsTree
  <2>2. CASE n \in tree \/ o \in tree
    BY <1>2, <1>3, <2>1, <2>2 DEF HasObjectItem
  <2>3. CASE n \notin tree /\ o \notin tree
    BY <1>2, <1>3, <1>4, <2>3
  <2> QED BY <2>2, <2>3
<1>9. ASSUME NEW n \in u, NEW j \in 1..(Len(n.path) - 1)
      PROVE  HasObjectItem(u, SubSeq(n.path, 1, j))
  <2>1. CASE n \in tree
    BY <1>2, <1>9, <2>1 DEF Tree, IsTree, HasObjectItem
  <2>2. CASE n \notin tree
    <3>1. PICK i \in 1..Len(asset) : n.path = at(i)
      BY <1>2, <1>3, <2>2
    <3>2. j \in 1..Len(asset) /\ j \in 1..(Len(at(i)) - 1)
      BY <1>1, <1>9, <3>1
    <3> QED BY <1>5, <1>7, <3>1, <3>2
  <2> QED BY <2>1, <2>2
<1>10. \A n \in u : n \in tree \/ n.val = Object
  BY <1>2, <1>3
<1> QED BY <1>2, <1>6, <1>7, <1>8, <1>9, <1>10 DEF Tree, IsTree, at

(* Putting contents at a path whose prefixes are there gives a tree.       *)
LEMMA PutTree ==
    ASSUME NEW tree, Tree(tree), NEW p \in Seq(Keys), p # <<>>,
           \A i \in 1..(Len(p) - 1) : HasObjectItem(tree, SubSeq(p, 1, i)),
           NEW k, NEW v, NEW nodes \in Contents(p, k, v), nodes # {}, NEW u,
           u = Put(tree, p, nodes)
    PROVE  Tree(u)
<1> DEFINE q == Append(p, Fold(Member))
<1>1. /\ \A n \in nodes : n.path = p \/ n.path = q
      /\ \E n \in nodes : n.path = p
      /\ \A n, o \in nodes : n.path = o.path /\ p # q => n = o
  <2>1. \/ nodes = {Node(p, k, v)}
        \/ nodes = {Node(p, k, Object), Node(q, Member, v)}
    BY DEF Contents
  <2>2. /\ Node(p, k, v).path = p /\ Node(p, k, Object).path = p
        /\ Node(q, Member, v).path = q
    BY DEF Node
  <2> HIDE DEF q
  <2> QED BY <2>1, <2>2
<1>2. /\ q \in Seq(Keys) /\ q # <<>> /\ p # q /\ IsPrefix(p, p) /\ IsPrefix(p, q)
      /\ Len(q) = Len(p) + 1
  BY TelemetryAssumption, PrefixOfExtension
<1>3. \A i \in 1..Len(p) : SubSeq(q, 1, i) = SubSeq(p, 1, i)
  BY TelemetryAssumption, PrefixesOfExtension
<1> HIDE DEF q
<1>4. \A n : n \in u <=> n \in nodes \/ (n \in tree /\ ~IsPrefix(p, n.path))
  BY DEF Put
<1>5. Paths(u)
  BY <1>1, <1>2, <1>4 DEF Paths, Tree
<1>6. \A n, o \in u : n.path = o.path => n = o
  BY <1>1, <1>2, <1>4 DEF Tree, IsTree
<1>7. ASSUME NEW n \in tree, ~IsPrefix(p, n.path), NEW i \in 1..(Len(n.path) - 1)
      PROVE  HasObjectItem(u, SubSeq(n.path, 1, i))
  <2>1. n.path \in Seq(Keys) /\ i \in 1..Len(n.path)
    BY <1>7 DEF Tree, Paths
  <2>2. ~IsPrefix(p, SubSeq(n.path, 1, i))
    BY <1>7, <2>1, PrefixOfPrefix
  <2>3. HasObjectItem(tree, SubSeq(n.path, 1, i))
    BY <1>7 DEF Tree, IsTree
  <2> QED BY <1>4, <2>2, <2>3 DEF HasObjectItem
<1>8. \A i \in 1..(Len(p) - 1) : HasObjectItem(u, SubSeq(p, 1, i))
  <2> SUFFICES ASSUME NEW i \in 1..(Len(p) - 1)
               PROVE  HasObjectItem(u, SubSeq(p, 1, i))
    OBVIOUS
  <2>1. i \in 1..Len(p) /\ ~(Len(p) <= i)
    OBVIOUS
  <2>2. ~IsPrefix(p, SubSeq(p, 1, i))
    BY <2>1, PrefixOfPrefix
  <2>3. HasObjectItem(tree, SubSeq(p, 1, i))
    OBVIOUS
  <2> QED BY <1>4, <2>2, <2>3 DEF HasObjectItem
<1>9. HasObjectItem(u, SubSeq(q, 1, Len(p)))
  <2>1. Len(p) \in 1..Len(p)
    OBVIOUS
  <2>2. SubSeq(p, 1, Len(p)) = p
    <3>1. PICK r : r = SubSeq(p, 1, Len(p))
      OBVIOUS
    <3>2. r \in Seq(Keys) /\ Len(r) = Len(p) /\ \A j \in 1..Len(p) : r[j] = p[j]
      BY <2>1, <3>1, PrefixParts
    <3>3. r = p
      BY <3>2, SeqEqual
    <3> QED BY <3>1, <3>3
  <2> QED BY <1>1, <1>3, <1>4, <2>1, <2>2 DEF HasObjectItem
<1>10. ASSUME NEW n \in nodes, NEW i \in 1..(Len(n.path) - 1)
       PROVE  HasObjectItem(u, SubSeq(n.path, 1, i))
  <2>1. CASE n.path = p
    BY <1>8, <1>10, <2>1
  <2>2. CASE n.path = q
    <3>1. i \in 1..Len(p)
      BY <1>2, <1>10, <2>2
    <3>2. CASE i = Len(p)
      BY <1>9, <2>2, <3>2
    <3>3. CASE i # Len(p)
      <4>1. i \in 1..(Len(p) - 1)
        BY <3>1, <3>3
      <4> QED BY <1>3, <1>8, <2>2, <3>1, <4>1
    <3> QED BY <3>2, <3>3
  <2> QED BY <1>1, <1>10, <2>1, <2>2
<1> QED BY <1>4, <1>5, <1>6, <1>7, <1>10 DEF Tree, IsTree

-----------------------------------------------------------------------------
(* The trees of the message and of the event.                              *)

TreeInv == /\ Tree(data) /\ Tree(eventData)
           /\ ~created => data = {}

(* The path that the calls add to.                                         *)
LEMMA AddPath ==
    ASSUME NEW k \in Keys, NEW asset \in Seq(Keys), NEW p,
           p = Append(FoldPath(asset), Fold(k))
    PROVE  /\ p \in Seq(Keys) /\ p # <<>> /\ Len(p) = Len(asset) + 1
           /\ \A i \in 1..(Len(p) - 1) : /\ i \in 1..Len(asset)
                                         /\ SubSeq(p, 1, i) = SubSeq(FoldPath(asset), 1, i)
<1>1. FoldPath(asset) \in Seq(Keys) /\ Len(FoldPath(asset)) = Len(asset)
  BY FoldedPath
<1>2. Fold(k) \in Keys
  BY TelemetryAssumption
<1>3. p \in Seq(Keys) /\ p # <<>> /\ Len(p) = Len(asset) + 1
  BY <1>1, <1>2, AppendProperties
<1>4. \A i \in 1..(Len(p) - 1) : i \in 1..Len(asset) /\ i \in 1..Len(FoldPath(asset))
  BY <1>1, <1>3
<1> QED BY <1>1, <1>2, <1>3, <1>4, PrefixesOfExtension

(* No step breaks the trees.                                               *)
LEMMA TreeStep == TreeInv /\ [Next]_vars => TreeInv'
<1> SUFFICES ASSUME TreeInv, [Next]_vars PROVE TreeInv'
  OBVIOUS
<1>1. ASSUME NEW k \in Keys, NEW asset \in Assets, Add(k, asset)
      PROVE  TreeInv'
  <2>1. asset \in Seq(Keys)
    BY TelemetryAssumption
  <2>2. PICK p, u : /\ p = Append(FoldPath(asset), Fold(k))
                    /\ u = addAssetNameTopayload(data, asset)
                    /\ \E nodes \in Contents(p, k, added + 1) :
                          data' = IF nodes = {} THEN u ELSE Put(u, p, nodes)
    BY <1>1 DEF Add
  <2>3. PICK nodes \in Contents(p, k, added + 1) :
           data' = IF nodes = {} THEN u ELSE Put(u, p, nodes)
    BY <2>2
  <2>4. /\ Tree(u)
        /\ \A i \in 1..Len(asset) : HasObjectItem(u, SubSeq(FoldPath(asset), 1, i))
    BY <2>1, <2>2, AssetTree DEF TreeInv
  <2>5. /\ p \in Seq(Keys) /\ p # <<>>
        /\ \A i \in 1..(Len(p) - 1) : HasObjectItem(u, SubSeq(p, 1, i))
    BY <2>1, <2>2, <2>4, AddPath
  <2>6. Tree(data')
    BY <2>3, <2>4, <2>5, PutTree
  <2>7. created' = TRUE /\ eventData' = eventData
    BY <1>1 DEF Add
  <2> QED BY <2>6, <2>7 DEF TreeInv, Tree, Paths, IsTree, HasObjectItem
<1>2. ASSUME NEW k \in Keys, AddEvent(k)
      PROVE  TreeInv'
  <2>1. PICK p : /\ p = <<Fold(k)>>
                 /\ \E nodes \in Contents(p, k, added + 1) :
                       eventData' = IF nodes = {} THEN eventData
                                    ELSE Put(eventData, p, nodes)
    BY <1>2 DEF AddEvent
  <2>2. /\ p \in Seq(Keys) /\ p # <<>> /\ Len(p) = 1
    BY <2>1, TelemetryAssumption
  <2>3. \A i \in 1..(Len(p) - 1) : HasObjectItem(eventData, SubSeq(p, 1, i))
    BY <2>2
  <2>4. Tree(eventData')
    BY <2>1, <2>2, <2>3, PutTree DEF TreeInv
  <2>5. UNCHANGED <<data, created>>
    BY <1>2 DEF AddEvent
  <2> QED BY <2>4, <2>5 DEF TreeInv, Tree, Paths, IsTree, HasObjectItem
<1>3. Tree({})
  BY DEF Tree, Paths, IsTree
<1>4. CASE zclient_dispatch
  BY <1>3, <1>4 DEF zclient_dispatch, TreeInv, Tree, Paths, IsTree, HasObjectItem
<1>5. CASE zclient_dispatchEventFromEventDataObject
  BY <1>3, <1>5 DEF zclient_dispatchEventFromEventDataObject, TreeInv, Tree, Paths,
                    IsTree, HasObjectItem
<1>6. CASE RetryEvent
  BY <1>6 DEF RetryEvent, TreeInv, Tree, Paths, IsTree, HasObjectItem
<1>7. CASE UNCHANGED vars
  BY <1>7 DEF vars, TreeInv, Tree, Paths, IsTree, HasObjectItem
<1> QED BY <1>1, <1>2, <1>4, <1>5, <1>6, <1>7 DEF Next

(* What the calls build of the message and of the event are trees,         *)
(* whatever names and assets they are given.                               *)
THEOREM Types == Spec => []TypeOK
<1>1. Init => TreeInv
  BY DEF Init, TreeInv, Tree, Paths, IsTree
<1>2. TreeInv => TypeOK
  BY DEF TreeInv, Tree, TypeOK
<1> QED BY <1>1, <1>2, TreeStep, PTL DEF Spec

-----------------------------------------------------------------------------
(* The payload.                                                            *)

(* The values of the message are those of the writes that no later write   *)
(* has replaced.                                                           *)
Nodes == [path : Seq(Keys), key : Keys, val : Nat]
PayloadInv == /\ writes \in Seq(SUBSET Nodes)
              /\ added \in Nat
              /\ Scalars(data) = Scalars(Alive)

(* The writes that are alive after one more.                               *)
LEMMA AliveAfter ==
    ASSUME NEW S, writes \in Seq(S), NEW nodes \in S, writes' = Append(writes, nodes)
    PROVE  \A n : n \in Alive' <=>
              \/ n \in nodes
              \/ n \in Alive /\ \A o \in nodes : ~IsPrefix(o.path, n.path)
<1> DEFINE L == Len(writes)
           Dead(i, n, w) == \E j \in (i + 1)..Len(w) : \E o \in w[j] : IsPrefix(o.path, n.path)
<1>1. /\ L \in Nat /\ DOMAIN writes = 1..L
      /\ Len(writes') = L + 1 /\ DOMAIN writes' = 1..(L + 1)
      /\ \A i \in 1..L : writes'[i] = writes[i]
      /\ writes'[L + 1] = nodes
  OBVIOUS
<1>2. \A n : n \in Alive <=> \E i \in 1..L : n \in writes[i] /\ ~Dead(i, n, writes)
  BY <1>1 DEF Alive
<1>3. \A n : n \in Alive' <=> \E i \in 1..(L + 1) : n \in writes'[i] /\ ~Dead(i, n, writes')
  BY <1>1 DEF Alive
<1>4. \A n : \A i \in 1..L : Dead(i, n, writes') <=>
         Dead(i, n, writes) \/ \E o \in nodes : IsPrefix(o.path, n.path)
  BY <1>1
<1>5. \A n : ~Dead(L + 1, n, writes')
  BY <1>1
<1> HIDE DEF Dead, L
<1>6. \A i : i \in 1..(L + 1) <=> i \in 1..L \/ i = L + 1
  BY <1>1
<1>7. \A n : n \in Alive' <=>
         \/ n \in nodes
         \/ \E i \in 1..L : n \in writes'[i] /\ ~Dead(i, n, writes')
  BY <1>1, <1>3, <1>5, <1>6
<1>8. \A n : (\E i \in 1..L : n \in writes'[i] /\ ~Dead(i, n, writes')) <=>
         /\ \E i \in 1..L : n \in writes[i] /\ ~Dead(i, n, writes)
         /\ \A o \in nodes : ~IsPrefix(o.path, n.path)
  BY <1>1, <1>4
<1> SUFFICES ASSUME NEW n
             PROVE  n \in Alive' <=>
                       \/ n \in nodes
                       \/ n \in Alive /\ \A o \in nodes : ~IsPrefix(o.path, n.path)
  OBVIOUS
<1>9. n \in Alive <=> \E i \in 1..L : n \in writes[i] /\ ~Dead(i, n, writes)
  BY <1>2
<1>10. n \in Alive' <=>
          \/ n \in nodes
          \/ \E i \in 1..L : n \in writes'[i] /\ ~Dead(i, n, writes')
  BY <1>7
<1> QED BY <1>8, <1>9, <1>10

(* What a call puts into the tree: values that are new, at its path or     *)
(* below it.                                                               *)
LEMMA ContentNodes ==
    ASSUME NEW p \in Seq(Keys), p # <<>>, NEW k \in Keys, NEW v \in Nat,
           NEW nodes \in Contents(p, k, v)
    PROVE  /\ nodes \subseteq Nodes
           /\ \A n \in nodes : n.val = Object \/ n.val = v
           /\ \A n \in nodes : IsPrefix(p, n.path)
           /\ nodes # {} => \E n \in nodes : n.path = p
<1> DEFINE q == Append(p, Fold(Member))
<1>1. q \in Seq(Keys) /\ IsPrefix(p, p) /\ IsPrefix(p, q)
  BY TelemetryAssumption, PrefixOfExtension
<1>2. \/ nodes = {Node(p, k, v)}
      \/ nodes = {Node(p, k, Object), Node(q, Member, v)}
      \/ nodes = {}
  BY DEF Contents
<1> HIDE DEF q
<1>3. /\ Node(p, k, v).path = p /\ Node(p, k, v).val = v
      /\ Node(p, k, Object).path = p /\ Node(p, k, Object).val = Object
      /\ Node(q, Member, v).path = q /\ Node(q, Member, v).val = v
  BY DEF Node
<1>4. /\ Node(p, k, v) \in Nodes /\ Node(p, k, Object) \in Nodes
      /\ Node(q, Member, v) \in Nodes
  BY <1>1, TelemetryAssumption DEF Node, Nodes, Object
<1> QED BY <1>1, <1>2, <1>3, <1>4

(* What extends a path below p is below p.                                 *)
LEMMA PrefixTransitive ==
    ASSUME NEW p \in Seq(Keys), NEW q \in Seq(Keys), NEW t \in Seq(Keys), p # <<>>,
           IsPrefix(p, q), IsPrefix(q, t)
    PROVE  IsPrefix(p, t)
<1>1. Len(p) <= Len(q) /\ \A j \in 1..Len(p) : p[j] = q[j]
  BY PrefixPositions
<1>2. q # <<>>
  BY <1>1
<1>3. Len(q) <= Len(t) /\ \A j \in 1..Len(q) : q[j] = t[j]
  BY <1>2, PrefixPositions
<1>4. \A j \in 1..Len(p) : p[j] = t[j]
  BY <1>1, <1>3
<1>5. Len(p) <= Len(t)
  BY <1>1, <1>3
<1> QED BY <1>4, <1>5, PrefixPositions

(* A write changes the values of the message as it changes those that are  *)
(* alive.                                                                  *)
LEMMA WriteKeeps ==
    ASSUME TreeInv, PayloadInv, NEW p \in Seq(Keys), p # <<>>, NEW nodes, NEW u,
           nodes \subseteq Nodes, \A n \in nodes : IsPrefix(p, n.path),
           \E n \in nodes : n.path = p,
           \A n \in data : n \in u,
           \A n \in u : n \in data \/ n.val = Object,
           data' = Put(u, p, nodes), writes' = Append(writes, nodes)
    PROVE  Scalars(data') = Scalars(Alive')
<1>1. \A n : n \in Scalars(data) <=> n \in Scalars(u)
  BY DEF Scalars
<1>2. \A n : n \in Scalars(data') <=>
         \/ n \in nodes /\ n.val # Object
         \/ n \in Scalars(data) /\ ~IsPrefix(p, n.path)
  BY <1>1 DEF Scalars, Put
<1>3. \A n : n \in Alive' <=>
         \/ n \in nodes
         \/ n \in Alive /\ \A o \in nodes : ~IsPrefix(o.path, n.path)
  BY AliveAfter DEF PayloadInv
<1>4. \A n \in Scalars(data) :
         (\A o \in nodes : ~IsPrefix(o.path, n.path)) <=> ~IsPrefix(p, n.path)
  <2> SUFFICES ASSUME NEW n \in Scalars(data)
               PROVE  (\E o \in nodes : IsPrefix(o.path, n.path)) <=> IsPrefix(p, n.path)
    OBVIOUS
  <2>1. n.path \in Seq(Keys)
    BY DEF Scalars, TreeInv, Tree, Paths
  <2>2. ASSUME NEW o \in nodes, IsPrefix(o.path, n.path)
        PROVE  IsPrefix(p, n.path)
    <3>1. o.path \in Seq(Keys) /\ IsPrefix(p, o.path)
      BY DEF Nodes
    <3> QED BY <2>1, <2>2, <3>1, PrefixTransitive
  <2> QED BY <2>2
<1>5. \A n : n \in Scalars(Alive') <=> n \in Alive' /\ n.val # Object
  BY DEF Scalars
<1>6. \A n : n \in Scalars(data) <=> n \in Alive /\ n.val # Object
  BY DEF PayloadInv, Scalars
<1>7. \A n : n \in Scalars(data') <=> n \in Scalars(Alive')
  BY <1>2, <1>3, <1>4, <1>5, <1>6
<1> QED BY <1>7

(* No step breaks it.                                                      *)
LEMMA PayloadStep == TreeInv /\ PayloadInv /\ [Next]_vars => PayloadInv'
<1> SUFFICES ASSUME TreeInv, PayloadInv, [Next]_vars PROVE PayloadInv'
  OBVIOUS
<1>0. added \in Nat /\ writes \in Seq(SUBSET Nodes)
  BY DEF PayloadInv
<1>1. ASSUME NEW k \in Keys, NEW asset \in Assets, Add(k, asset)
      PROVE  PayloadInv'
  <2>1. asset \in Seq(Keys)
    BY TelemetryAssumption
  <2>2. PICK p, u, v :
           /\ p = Append(FoldPath(asset), Fold(k))
           /\ u = addAssetNameTopayload(data, asset)
           /\ v = added + 1
           /\ \E nodes \in Contents(p, k, v) :
                 /\ data' = IF nodes = {} THEN u ELSE Put(u, p, nodes)
                 /\ writes' = IF nodes = {} THEN writes ELSE Append(writes, nodes)
    BY <1>1 DEF Add
  <2>3. PICK nodes \in Contents(p, k, v) :
           /\ data' = IF nodes = {} THEN u ELSE Put(u, p, nodes)
           /\ writes' = IF nodes = {} THEN writes ELSE Append(writes, nodes)
    BY <2>2
  <2>4. added' = added + 1
    BY <1>1 DEF Add
  <2>5. v \in Nat /\ added' \in Nat
    BY <1>0, <2>2, <2>4
  <2>6. p \in Seq(Keys) /\ p # <<>>
    BY <2>1, <2>2, AddPath
  <2>7. /\ \A n \in data : n \in u
        /\ \A n \in u : n \in data \/ n.val = Object
    BY <2>1, <2>2, AssetTree DEF TreeInv
  <2>8. /\ nodes \subseteq Nodes
        /\ \A n \in nodes : IsPrefix(p, n.path)
        /\ nodes # {} => \E n \in nodes : n.path = p
    BY <2>5, <2>6, ContentNodes
  <2>9. CASE nodes = {}
    <3>1. data' = u /\ writes' = writes
      BY <2>3, <2>9
    <3>2. Alive' = Alive
      BY <3>1 DEF Alive
    <3>3. Scalars(data') = Scalars(data)
      BY <2>7, <3>1 DEF Scalars
    <3>4. Scalars(data)' = Scalars(data') /\ Scalars(Alive)' = Scalars(Alive')
      BY DEF Scalars
    <3> QED BY <1>0, <2>5, <3>1, <3>2, <3>3, <3>4 DEF PayloadInv
  <2>10. CASE nodes # {}
    <3>1. data' = Put(u, p, nodes) /\ writes' = Append(writes, nodes)
      BY <2>3, <2>10
    <3>2. Scalars(data') = Scalars(Alive')
      BY <2>6, <2>7, <2>8, <2>10, <3>1, WriteKeeps
    <3>3. writes' \in Seq(SUBSET Nodes)
      BY <1>0, <2>8, <3>1
    <3>4. Scalars(data)' = Scalars(data') /\ Scalars(Alive)' = Scalars(Alive')
      BY DEF Scalars
    <3> QED BY <2>5, <3>2, <3>3, <3>4 DEF PayloadInv
  <2> QED BY <2>9, <2>10
<1>2. ASSUME NEW k \in Keys, AddEvent(k)
      PROVE  PayloadInv'
  BY <1>0, <1>2 DEF AddEvent, PayloadInv, Scalars, Alive
<1>3. CASE zclient_dispatch
  <2>1. CASE UNCHANGED <<data, writes, added>>
    BY <2>1, SMTT(20) DEF PayloadInv, Scalars, Alive
  <2>2. CASE data' = {} /\ writes' = <<>> /\ UNCHANGED added
    BY <1>0, <2>2 DEF PayloadInv, Scalars, Alive
  <2> QED BY <1>3, <2>1, <2>2 DEF zclient_dispatch
<1>4. CASE zclient_dispatchEventFromEventDataObject
  BY <1>4 DEF zclient_dispatchEventFromEventDataObject, PayloadInv, Scalars, Alive
<1>5. CASE RetryEvent
  BY <1>5 DEF RetryEvent, PayloadInv, Scalars, Alive
<1>6. CASE UNCHANGED vars
  BY <1>6 DEF vars, PayloadInv, Scalars, Alive
<1> QED BY <1>1, <1>2, <1>3, <1>4, <1>5, <1>6 DEF Next

(* The payload that is sent is the last value under each name, whatever    *)
(* assets, spellings and kinds of values the calls mix.                    *)
THEOREM LastWritesArePayload == Spec => []PayloadIsLastWrites
<1>1. Init => TreeInv /\ PayloadInv
  BY DEF Init, TreeInv, Tree, Paths, IsTree, PayloadInv, Scalars, Alive
<1>2. PayloadInv => PayloadIsLastWrites
  BY DEF PayloadInv, PayloadIsLastWrites, Printed
<1> QED BY <1>1, <1>2, TreeStep, PayloadStep, PTL DEF Spec

-----------------------------------------------------------------------------
(* What becomes of the values.                                             *)

(* Values are numbered by the calls; none is in two places.                *)
Placed(values) == values \subseteq 1..added
ValueInv == /\ added \in Nat
            /\ Placed(ValuesOf(data)) /\ Placed(ValuesOf(eventData))
            /\ Placed(confirmed) /\ Placed(reported) /\ Placed(stored)
            /\ ValuesOf(data) \cap ValuesOf(eventData) = {}
            /\ DispatchedOnce

(* What is printed of a tree is some of its values.                        *)
LEMMA PrintedValues == \A tree : ValuesOf(Printed(tree)) \subseteq ValuesOf(tree)
BY DEF ValuesOf, Printed, Scalars

(* A call adds at most its own value to a tree.                            *)
LEMMA PutValues ==
    ASSUME NEW tree, NEW u, NEW p, NEW v, NEW nodes, NEW new,
           \A n \in u : n \in tree \/ n.val = Object,
           \A n \in nodes : n.val = Object \/ n.val = v,
           new = u \/ new = Put(u, p, nodes)
    PROVE  ValuesOf(new) \subseteq ValuesOf(tree) \cup {v}
BY DEF ValuesOf, Scalars, Put

(* No step breaks it.                                                      *)
LEMMA ValueStep == TreeInv /\ ValueInv /\ [Next]_vars => ValueInv'
<1> SUFFICES ASSUME TreeInv, ValueInv, [Next]_vars PROVE ValueInv'
  OBVIOUS
<1>0. added \in Nat /\ added + 1 \in Nat /\ added + 1 \notin 1..added
      /\ 1..added \subseteq 1..(added + 1) /\ added + 1 \in 1..(added + 1)
  BY DEF ValueInv
<1>1. ASSUME NEW k \in Keys, NEW asset \in Assets, Add(k, asset)
      PROVE  ValueInv'
  <2>1. PICK p, u, v :
           /\ p = Append(FoldPath(asset), Fold(k))
           /\ u = addAssetNameTopayload(data, asset)
           /\ v = added + 1
           /\ \E nodes \in Contents(p, k, v) :
                 data' = IF nodes = {} THEN u ELSE Put(u, p, nodes)
    BY <1>1 DEF Add
  <2>2. PICK nodes \in Contents(p, k, v) : data' = u \/ data' = Put(u, p, nodes)
    BY <2>1
  <2>3. p \in Seq(Keys) /\ p # <<>> /\ asset \in Seq(Keys)
    BY <2>1, AddPath, TelemetryAssumption
  <2>4. \A n \in nodes : n.val = Object \/ n.val = v
    <3>1. v \in Nat
      BY <1>0, <2>1
    <3> QED BY <2>3, <3>1, ContentNodes
  <2>5. \A n \in u : n \in data \/ n.val = Object
    BY <2>1, <2>3, AssetTree DEF TreeInv
  <2>6. ValuesOf(data') \subseteq ValuesOf(data) \cup {added + 1}
    <3>1. ValuesOf(data') \subseteq ValuesOf(data) \cup {v}
      <4>1. PICK new : new = data' /\ (new = u \/ new = Put(u, p, nodes))
        BY <2>2
      <4>2. ValuesOf(new) \subseteq ValuesOf(data) \cup {v}
        BY <2>4, <2>5, <4>1 DEF ValuesOf, Scalars, Put
      <4> QED BY <4>1, <4>2
    <3>2. v = added + 1
      BY <2>1
    <3> QED BY <3>1, <3>2
  <2>7. /\ added' = added + 1
        /\ UNCHANGED <<eventData, confirmed, reported, stored>>
    BY <1>1 DEF Add, outcome
  <2>8. ValuesOf(data)' = ValuesOf(data') /\ ValuesOf(eventData)' = ValuesOf(eventData)
    BY <2>7 DEF ValuesOf, Scalars
  <2> QED BY <1>0, <2>6, <2>7, <2>8 DEF ValueInv, Placed, DispatchedOnce
<1>2. ASSUME NEW k \in Keys, AddEvent(k)
      PROVE  ValueInv'
  <2>1. PICK p, v :
           /\ p = <<Fold(k)>> /\ v = added + 1
           /\ \E nodes \in Contents(p, k, v) :
                 eventData' = IF nodes = {} THEN eventData ELSE Put(eventData, p, nodes)
    BY <1>2 DEF AddEvent
  <2>2. PICK nodes \in Contents(p, k, v) :
           eventData' = eventData \/ eventData' = Put(eventData, p, nodes)
    BY <2>1
  <2>3. p \in Seq(Keys) /\ p # <<>>
    BY <2>1, TelemetryAssumption
  <2>4. \A n \in nodes : n.val = Object \/ n.val = v
    <3>1. v \in Nat
      BY <1>0, <2>1
    <3> QED BY <2>3, <3>1, ContentNodes
  <2>5. ValuesOf(eventData') \subseteq ValuesOf(eventData) \cup {added + 1}
    <3>1. ValuesOf(eventData') \subseteq ValuesOf(eventData) \cup {v}
      BY <2>2, <2>4, PutValues
    <3>2. v = added + 1
      BY <2>1
    <3> QED BY <3>1, <3>2
  <2>6. /\ added' = added + 1
        /\ UNCHANGED <<data, confirmed, reported, stored>>
    BY <1>2 DEF AddEvent, outcome
  <2>7. ValuesOf(data)' = ValuesOf(data) /\ ValuesOf(eventData)' = ValuesOf(eventData')
    BY <2>6 DEF ValuesOf, Scalars
  <2> QED BY <1>0, <2>5, <2>6, <2>7 DEF ValueInv, Placed, DispatchedOnce
<1>3. ValuesOf({}) = {}
  BY DEF ValuesOf, Scalars
<1>4. CASE zclient_dispatch
  <2>1. added' = added /\ ValuesOf(eventData)' = ValuesOf(eventData)
        /\ ValuesOf(data)' = ValuesOf(data')
    BY <1>4 DEF zclient_dispatch, ValuesOf, Scalars
  <2>2. CASE UNCHANGED <<data, created, writes, outcome>>
    BY <2>1, <2>2 DEF ValueInv, Placed, DispatchedOnce, outcome
  <2>3. CASE /\ data' = {} /\ UNCHANGED stored
             /\ \/ confirmed' = confirmed \cup ValuesOf(Printed(data)) /\ UNCHANGED reported
                \/ reported' = reported \cup ValuesOf(Printed(data)) /\ UNCHANGED confirmed
    BY <1>3, <2>1, <2>3, PrintedValues DEF ValueInv, Placed, DispatchedOnce
  <2> QED BY <1>4, <2>2, <2>3 DEF zclient_dispatch
<1>5. CASE zclient_dispatchEventFromEventDataObject
  <2>1. added' = added /\ ValuesOf(data)' = ValuesOf(data)
        /\ ValuesOf(eventData)' = ValuesOf(eventData')
    BY <1>5 DEF zclient_dispatchEventFromEventDataObject, ValuesOf, Scalars
  <2>2. /\ eventData' = {}
        /\ LET values == ValuesOf(Printed(eventData))
           IN \/ confirmed' = confirmed \cup values /\ UNCHANGED <<reported, stored>>
              \/ /\ reported' = reported \cup values /\ UNCHANGED confirmed
                 /\ stored' \in {values, stored}
    BY <1>5 DEF zclient_dispatchEventFromEventDataObject
  <2> QED BY <1>3, <2>1, <2>2, PrintedValues DEF ValueInv, Placed, DispatchedOnce
<1>6. CASE RetryEvent
  <2>1. added' = added /\ ValuesOf(data)' = ValuesOf(data)
        /\ ValuesOf(eventData)' = ValuesOf(eventData) /\ reported' = reported
    BY <1>6 DEF RetryEvent, ValuesOf, Scalars
  <2>2. /\ confirmed' = confirmed \/ confirmed' = confirmed \cup stored
        /\ stored' = {} \/ (stored' = stored /\ confirmed' = confirmed)
    BY <1>6 DEF RetryEvent
  <2> QED BY <2>1, <2>2 DEF ValueInv, Placed, DispatchedOnce
<1>7. CASE UNCHANGED vars
  BY <1>7 DEF vars, ValueInv, Placed, DispatchedOnce, ValuesOf, Scalars
<1> QED BY <1>1, <1>2, <1>4, <1>5, <1>6, <1>7 DEF Next

(* No value is handed over by two dispatches, and the event kept for the   *)
(* retry is one whose dispatch failed and that nothing has confirmed.      *)
THEOREM NothingIsDispatchedTwice == Spec => []DispatchedOnce
<1>1. Init => TreeInv /\ ValueInv
  BY DEF Init, TreeInv, Tree, Paths, IsTree, ValueInv, Placed, DispatchedOnce, ValuesOf, Scalars
<1>2. ValueInv => DispatchedOnce
  BY DEF ValueInv
<1> QED BY <1>1, <1>2, TreeStep, ValueStep, PTL DEF Spec

(* A dispatch loses no value without saying so.                            *)
THEOREM LossIsReported == Spec => NoSilentLoss
<1> DEFINE A == added' = added =>
         ValuesOf(Printed(data)) \cup ValuesOf(Printed(eventData))
            \subseteq ValuesOf(Printed(data')) \cup ValuesOf(Printed(eventData'))
                        \cup confirmed' \cup reported'
<1>1. TreeInv /\ ValueInv /\ [Next]_vars => [A]_vars
  <2> SUFFICES ASSUME ValueInv, Next, added' = added PROVE A
    OBVIOUS
  <2>1. ASSUME NEW k \in Keys, NEW asset \in Assets, Add(k, asset) \/ AddEvent(k)
        PROVE  FALSE
    BY <2>1 DEF Add, AddEvent, ValueInv
  <2>2. CASE zclient_dispatch
    BY <2>2 DEF zclient_dispatch
  <2>3. CASE zclient_dispatchEventFromEventDataObject
    BY <2>3 DEF zclient_dispatchEventFromEventDataObject
  <2>4. ASSUME NEW k \in Keys, AddEvent(k)
        PROVE  FALSE
    BY <2>4 DEF AddEvent, ValueInv
  <2>5. CASE RetryEvent
    BY <2>5 DEF RetryEvent
  <2> QED BY <2>1, <2>2, <2>3, <2>4, <2>5 DEF Next
<1>2. Init => TreeInv /\ ValueInv
  BY DEF Init, TreeInv, Tree, Paths, IsTree, ValueInv, Placed, DispatchedOnce, ValuesOf, Scalars
<1> QED BY <1>1, <1>2, TreeStep, ValueStep, PTL DEF Spec, NoSilentLoss
=============================================================================
