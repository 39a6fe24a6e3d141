-------------------------- MODULE LogFiles_proofs --------------------------
(***************************************************************************)
(* Proofs about LogFiles, for any sizes, any number of files, lines and    *)
(* removals.                                                               *)
(***************************************************************************)
EXTENDS LogFiles, TLAPS, WellFoundedInduction, FiniteSetTheorems

DiskType == [content : Seq(Seq(Nat)), name : [Names -> Nat], fp : Nat]
ReaderType == [at : {"idle", "reopen", "opened", "scan", "fetch", "tangled"}, file : Nat,
               old : Nat, new : Nat, pos : Nat, count : Nat, end : Nat]

(* Handles and names lead to files, none longer than what was written.     *)
DiskOK(d, w) ==
    /\ d \in DiskType
    /\ d.fp \in 0..Len(d.content)
    /\ d.name \in [Names -> 0..Len(d.content)]
    /\ \A f \in 1..Len(d.content) : Len(d.content[f]) <= w

(* The reader has a file while it reads, and positions within one.         *)
Positions == 0..(LineBytes * MaxLines)
ReaderOK(r, d) ==
    /\ r \in ReaderType
    /\ r.file \in 0..Len(d.content)
    /\ r.at \in {"reopen", "opened", "scan", "fetch"} => r.file # Closed
    /\ r.old \in Positions /\ r.new \in Positions
    /\ r.pos \in Positions /\ r.end \in Positions

TypeInv ==
    /\ DiskOK(disk, written)
    /\ ReaderOK(reader, disk)
    /\ written \in 0..MaxLines /\ removals \in 0..MaxRemovals
    /\ mark \in 0..written /\ since \in 0..written

(* The files, in the order they were made: they hold everything that was   *)
(* written, each line once, and only the newest is not full.               *)
Runs(c) ==
    \A f \in 1..Len(c) : \A i \in 1..(Len(c[f]) - 1) : c[f][i + 1] = c[f][i] + 1
Within(c, w) == \A f \in 1..Len(c) : ToSet(c[f]) \subseteq 1..w
OldestFirst(c) ==
    \A f, g \in 1..Len(c) : f < g => \A x \in ToSet(c[f]), y \in ToSet(c[g]) : x < y
NoGap(c, w) ==
    \A f \in 1..Len(c) : \A x \in ToSet(c[f]) : \A y \in x..w :
       \E g \in f..Len(c) : y \in ToSet(c[g])
Everything(c, w) == \A y \in 1..w : \E g \in 1..Len(c) : y \in ToSet(c[g])
Full(c) == \A f \in 1..(Len(c) - 1) : LineBytes * Len(c[f]) > maxLogFileSize
EndsWith(c, w) ==
    Len(c) > 0 /\ Len(c[Len(c)]) > 0 => c[Len(c)][Len(c[Len(c)])] = w

Ordered(c, w) ==
    /\ Runs(c) /\ Within(c, w) /\ OldestFirst(c) /\ NoGap(c, w)
    /\ Everything(c, w) /\ Full(c) /\ EndsWith(c, w)

(* The names lead to the newest files, in that order, and the writer has   *)
(* the newest.                                                             *)
Named(d) ==
    /\ \A n \in Names : d.name[n] = IF n < Len(d.content) THEN Len(d.content) - n ELSE Closed
    /\ d.fp \in {Closed, Len(d.content)}

(* This is so as long as nobody removes a file.                            *)
Rolling(d, w) == DiskOK(d, w) /\ Ordered(d.content, w) /\ Named(d)
RollInv == removals = MaxRemovals => Rolling(disk, written)

-----------------------------------------------------------------------------
(* Files.                                                                  *)

(* A new, empty file.                                                      *)
LEMMA NewFile ==
    ASSUME NEW c \in Seq(Seq(Nat)), NEW e, e = Append(c, <<>>)
    PROVE  /\ e \in Seq(Seq(Nat)) /\ Len(e) = Len(c) + 1
           /\ \A f \in 1..Len(c) : e[f] = c[f]
           /\ e[Len(c) + 1] = <<>>
<1>1. <<>> \in Seq(Nat)
  OBVIOUS
<1> QED BY <1>1

(* A line at the end of a file.                                            *)
LEMMA NewLine ==
    ASSUME NEW c \in Seq(Seq(Nat)), NEW f \in 1..Len(c), NEW x \in Nat, NEW e,
           e = [c EXCEPT ![f] = Append(@, x)]
    PROVE  /\ e \in Seq(Seq(Nat)) /\ Len(e) = Len(c)
           /\ \A g \in 1..Len(c) : g # f => e[g] = c[g]
           /\ e[f] = Append(c[f], x) /\ Len(e[f]) = Len(c[f]) + 1
           /\ \A i \in 1..Len(c[f]) : e[f][i] = c[f][i]
           /\ e[f][Len(c[f]) + 1] = x
<1>1. c[f] \in Seq(Nat)
  OBVIOUS
<1>2. Append(c[f], x) \in Seq(Nat)
  BY <1>1
<1>3. e[f] = Append(c[f], x)
  OBVIOUS
<1>4. /\ e \in Seq(Seq(Nat)) /\ Len(e) = Len(c)
      /\ \A g \in 1..Len(c) : g # f => e[g] = c[g]
  BY <1>2
<1> QED BY <1>1, <1>3, <1>4

(* fopen with "a": the named file, or a new one with that name.            *)
LEMMA OpenOutcome ==
    ASSUME NEW d \in DiskType, NEW e, e = OpenLog(d)
    PROVE  /\ e \in DiskType
           /\ d.name[0] # Closed =>
                 e.content = d.content /\ e.name = d.name /\ e.fp = d.name[0]
           /\ d.name[0] = Closed =>
                 /\ e.content = Append(d.content, <<>>)
                 /\ e.name = [d.name EXCEPT ![0] = Len(d.content) + 1]
                 /\ e.fp = Len(d.content) + 1
<1>0. 0 \in Names /\ d.content \in Seq(Seq(Nat)) /\ d.name \in [Names -> Nat]
  BY LogAssumption DEF Names, DiskType
<1>1. CASE d.name[0] # Closed
  <2>1. e = [d EXCEPT !.fp = d.name[0]]
    BY <1>1 DEF OpenLog
  <2>2. d.name[0] \in Nat
    BY <1>0
  <2> QED BY <1>1, <2>1, <2>2 DEF DiskType
<1>2. CASE d.name[0] = Closed
  <2>1. PICK f, c, a : /\ f = Len(d.content) + 1
                       /\ c = Append(d.content, <<>>)
                       /\ a = [d.name EXCEPT ![0] = f]
    OBVIOUS
  <2>2. e = [content |-> c, name |-> a, fp |-> f]
    BY <1>2, <2>1 DEF OpenLog
  <2>3. c \in Seq(Seq(Nat)) /\ f \in Nat /\ a \in [Names -> Nat]
    BY <1>0, <2>1, NewFile
  <2> QED BY <1>2, <2>1, <2>2, <2>3 DEF DiskType
<1> QED BY <1>1, <1>2

(* Opening keeps the handles and names in order.                           *)
LEMMA OpenOK ==
    ASSUME NEW w \in Nat, NEW d, DiskOK(d, w), NEW e, e = OpenLog(d)
    PROVE  DiskOK(e, w) /\ e.fp # Closed /\ Len(d.content) <= Len(e.content)
<1>1. /\ d \in DiskType /\ d.content \in Seq(Seq(Nat)) /\ 0 \in Names
      /\ d.name \in [Names -> 0..Len(d.content)]
      /\ \A f \in 1..Len(d.content) : Len(d.content[f]) <= w
  BY LogAssumption DEF DiskOK, DiskType, Names
<1>2. /\ e \in DiskType
      /\ d.name[0] # Closed =>
            e.content = d.content /\ e.name = d.name /\ e.fp = d.name[0]
      /\ d.name[0] = Closed =>
            /\ e.content = Append(d.content, <<>>)
            /\ e.name = [d.name EXCEPT ![0] = Len(d.content) + 1]
            /\ e.fp = Len(d.content) + 1
  BY <1>1, OpenOutcome
<1>3. CASE d.name[0] # Closed
  BY <1>1, <1>2, <1>3 DEF DiskOK, Closed
<1>4. CASE d.name[0] = Closed
  <2>1. /\ Len(e.content) = Len(d.content) + 1
        /\ \A f \in 1..Len(d.content) : e.content[f] = d.content[f]
        /\ e.content[Len(d.content) + 1] = <<>>
    BY <1>1, <1>2, <1>4, NewFile
  <2>2. Len(d.content) \in Nat
    BY <1>1
  <2>3. e.name \in [Names -> 0..Len(e.content)]
    BY <1>1, <1>2, <1>4, <2>1, <2>2
  <2>4. e.fp \in 0..Len(e.content) /\ e.fp # Closed
    BY <1>2, <1>4, <2>1, <2>2 DEF Closed
  <2>5. \A f \in 1..Len(e.content) : Len(e.content[f]) <= w
    <3> SUFFICES ASSUME NEW f \in 1..Len(e.content) PROVE Len(e.content[f]) <= w
      OBVIOUS
    <3>1. CASE f = Len(d.content) + 1
      <4>1. Len(<<>>) = 0 /\ 0 <= w
        OBVIOUS
      <4> QED BY <2>1, <3>1, <4>1
    <3>2. CASE f # Len(d.content) + 1
      <4>1. f \in 1..Len(d.content)
        BY <2>1, <2>2, <3>2
      <4>2. e.content[f] = d.content[f] /\ Len(d.content[f]) <= w
        BY <1>1, <2>1, <4>1
      <4> QED BY <4>2
    <3> QED BY <3>1, <3>2
  <2> QED BY <1>2, <2>1, <2>2, <2>3, <2>4, <2>5 DEF DiskOK
<1> QED BY <1>3, <1>4

(* A roll gives the current file's name to a new file.                     *)
LEMMA RollOutcome ==
    ASSUME NEW d \in DiskType, NEW e, e = Roll(d)
    PROVE  /\ e \in DiskType
           /\ e.content = Append(d.content, <<>>)
           /\ e.name = [RenameAll(d.name) EXCEPT ![0] = Len(d.content) + 1]
           /\ e.fp = Len(d.content) + 1
<1>1. PICK a, b : a = RenameAll(d.name) /\ b = [d EXCEPT !.name = a]
  OBVIOUS
<1>2. 0 \in Names /\ \A n \in Names : n \in Nat /\ (n > 0 => n - 1 \in Names)
  BY LogAssumption DEF Names
<1>3. d.name \in [Names -> Nat]
  BY DEF DiskType
<1>4. a \in [Names -> Nat] /\ a[0] = Closed
  BY <1>1, <1>2, <1>3 DEF RenameAll, Closed
<1>5. b \in DiskType /\ b.content = d.content /\ b.name = a
  BY <1>1, <1>4 DEF DiskType
<1>6. e = OpenLog(b)
  BY <1>1 DEF Roll
<1>7. /\ e \in DiskType
      /\ e.content = Append(b.content, <<>>)
      /\ e.name = [b.name EXCEPT ![0] = Len(b.content) + 1]
      /\ e.fp = Len(b.content) + 1
  <2>1. b.name[0] = Closed
    BY <1>4, <1>5
  <2> QED BY <1>5, <1>6, <2>1, OpenOutcome
<1> QED BY <1>1, <1>5, <1>7

(* It keeps the handles and names in order too.                            *)
LEMMA RollOK ==
    ASSUME NEW w \in Nat, NEW d, DiskOK(d, w), NEW e, e = Roll(d)
    PROVE  DiskOK(e, w) /\ e.fp # Closed /\ Len(d.content) <= Len(e.content)
<1>1. PICK a, b : a = RenameAll(d.name) /\ b = [d EXCEPT !.name = a]
  OBVIOUS
<1>2. \A n \in Names : n \in Nat /\ (n > 0 => n - 1 \in Names)
  BY LogAssumption DEF Names
<1>3. /\ d \in DiskType /\ d.name \in [Names -> 0..Len(d.content)]
      /\ Len(d.content) \in Nat
  BY DEF DiskOK, DiskType
<1>4. a \in [Names -> 0..Len(d.content)]
  BY <1>1, <1>2, <1>3 DEF RenameAll, Closed
<1>5. a \in [Names -> Nat]
  BY <1>3, <1>4
<1>6. b \in DiskType /\ b.content = d.content /\ b.name = a /\ b.fp = d.fp
  BY <1>1, <1>3, <1>5 DEF DiskType
<1>7. DiskOK(b, w)
  BY <1>4, <1>6 DEF DiskOK
<1>8. e = OpenLog(b)
  BY <1>1 DEF Roll
<1> QED BY <1>6, <1>7, <1>8, OpenOK

(* Writing a line to the open file.                                        *)
LEMMA WriteOK ==
    ASSUME NEW w \in Nat, NEW d, DiskOK(d, w), d.fp # Closed, NEW e,
           e = [d EXCEPT !.content[d.fp] = Append(@, w + 1)]
    PROVE  DiskOK(e, w + 1) /\ Len(e.content) = Len(d.content)
<1>1. /\ d \in DiskType /\ d.content \in Seq(Seq(Nat)) /\ d.fp \in 1..Len(d.content)
      /\ d.name \in [Names -> 0..Len(d.content)] /\ w + 1 \in Nat
      /\ \A f \in 1..Len(d.content) : Len(d.content[f]) <= w /\ Len(d.content[f]) \in Nat
  BY SMTT(30) DEF DiskOK, DiskType, Closed
<1>2. PICK c : c = [d.content EXCEPT ![d.fp] = Append(@, w + 1)]
  OBVIOUS
<1>3. e = [d EXCEPT !.content = c]
  BY <1>1, <1>2 DEF DiskType
<1>4. /\ c \in Seq(Seq(Nat)) /\ Len(c) = Len(d.content)
      /\ \A g \in 1..Len(d.content) : g # d.fp => c[g] = d.content[g]
      /\ Len(c[d.fp]) = Len(d.content[d.fp]) + 1
  <2>1. PICK b, g, x : b = d.content /\ g = d.fp /\ x = w + 1
    OBVIOUS
  <2>2. b \in Seq(Seq(Nat)) /\ g \in 1..Len(b) /\ x \in Nat
    BY <1>1, <2>1
  <2>3. c = [b EXCEPT ![g] = Append(@, x)]
    BY <1>2, <2>1
  <2>4. /\ c \in Seq(Seq(Nat)) /\ Len(c) = Len(b)
        /\ \A h \in 1..Len(b) : h # g => c[h] = b[h]
        /\ Len(c[g]) = Len(b[g]) + 1
    BY <2>2, <2>3, NewLine
  <2> QED BY <2>1, <2>4
<1>5. e \in DiskType /\ e.content = c /\ e.name = d.name /\ e.fp = d.fp
  BY <1>1, <1>3, <1>4 DEF DiskType
<1>6. \A f \in 1..Len(c) : Len(c[f]) <= w + 1
  <2> SUFFICES ASSUME NEW f \in 1..Len(d.content) PROVE Len(c[f]) <= w + 1
    BY <1>4
  <2>1. Len(d.content[f]) <= w /\ Len(d.content[f]) \in Nat
    BY <1>1
  <2>2. Len(c[f]) = Len(d.content[f]) \/ Len(c[f]) = Len(d.content[f]) + 1
    BY <1>4
  <2> QED BY <2>1, <2>2
<1> QED BY <1>1, <1>2, <1>4, <1>5, <1>6 DEF DiskOK

(* The file that log_log writes to, and what it is a log file of.          *)
LEMMA LogStep ==
    ASSUME TypeInv, log_log
    PROVE  \E d : /\ DiskOK(d, written) /\ d.fp # Closed
                  /\ Len(disk.content) <= Len(d.content)
                  /\ disk' = [d EXCEPT !.content[d.fp] = Append(@, written + 1)]
                  /\ \E opened :
                        /\ opened = IF disk.fp # Closed /\ Linked(disk.fp) THEN disk
                                    ELSE OpenLog(disk)
                        /\ d = IF (IF disk.fp = Closed THEN 0 ELSE Bytes(disk.fp))
                                     > maxLogFileSize
                               THEN Roll(opened) ELSE opened
<1>1. PICK size, opened, d :
         /\ size = IF disk.fp = Closed THEN 0 ELSE Bytes(disk.fp)
         /\ opened = IF disk.fp # Closed /\ Linked(disk.fp) THEN disk ELSE OpenLog(disk)
         /\ d = IF size > maxLogFileSize THEN Roll(opened) ELSE opened
         /\ disk' = [d EXCEPT !.content[d.fp] = Append(@, written + 1)]
  BY DEF log_log
<1>2. DiskOK(disk, written) /\ written \in Nat
  BY LogAssumption DEF TypeInv
<1>3. Len(disk.content) \in Nat
  BY <1>2 DEF DiskOK, DiskType
<1>4. /\ DiskOK(opened, written) /\ opened.fp # Closed
      /\ Len(disk.content) <= Len(opened.content)
  <2>1. CASE disk.fp # Closed /\ Linked(disk.fp)
    BY <1>1, <1>2, <1>3, <2>1
  <2>2. CASE ~(disk.fp # Closed /\ Linked(disk.fp))
    <3>1. opened = OpenLog(disk)
      BY <1>1, <2>2
    <3> QED BY <1>2, <3>1, OpenOK
  <2> QED BY <2>1, <2>2
<1>5. /\ DiskOK(d, written) /\ d.fp # Closed
      /\ Len(disk.content) <= Len(d.content)
  <2>1. CASE d = opened
    BY <1>4, <2>1
  <2>2. CASE d = Roll(opened)
    <3>1. DiskOK(d, written) /\ d.fp # Closed /\ Len(opened.content) <= Len(d.content)
      BY <1>2, <1>4, <2>2, RollOK
    <3>2. Len(opened.content) \in Nat /\ Len(d.content) \in Nat
      BY <1>4, <3>1 DEF DiskOK, DiskType
    <3> QED BY <1>3, <1>4, <3>1, <3>2
  <2> QED BY <1>1, <2>1, <2>2
<1> QED BY <1>1, <1>5

(* A nonempty set of positions below n has a largest.                      *)
LEMMA LargestPosition ==
    ASSUME NEW n \in Nat, NEW S, S \subseteq 0..(n - 1), S # {}
    PROVE  Max(S) \in S /\ \A j \in S : Max(S) >= j
<1> DEFINE R == OpToRel(<, Nat)
           D == {n - i : i \in S}
<1>1. IsWellFoundedOn(R, Nat)
  BY NatLessThanWellFounded, Zenon
<1>2. D \subseteq Nat /\ D # {}
  <2>1. D \subseteq Nat
    OBVIOUS
  <2>2. PICK i \in S : TRUE
    OBVIOUS
  <2>3. n - i \in D
    OBVIOUS
  <2> QED BY <2>1, <2>3
<1> HIDE DEF R, D
<1>3. PICK d \in D : \A e \in D : ~(<<e, d>> \in R)
  BY <1>1, <1>2, WFMin
<1>4. \A e \in D : ~(e < d)
  BY <1>2, <1>3 DEF R, OpToRel
<1>5. PICK i \in S : d = n - i
  BY DEF D
<1>6. \A j \in S : n - j \in D
  BY DEF D
<1>7. \A j \in S : i >= j
  BY <1>4, <1>5, <1>6
<1> QED BY <1>7 DEF Max

(* The length of a file, in bytes.                                         *)
LEMMA FileBytes ==
    ASSUME DiskOK(disk, written), written \in 0..MaxLines,
           NEW f \in 1..Len(disk.content)
    PROVE  Bytes(f) \in Positions
<1>1. PICK l : l = Len(disk.content[f])
  OBVIOUS
<1>2. l \in Nat /\ l <= MaxLines
  BY <1>1, LogAssumption DEF DiskOK, DiskType
<1>3. LineBytes \in Nat /\ MaxLines \in Nat
  BY LogAssumption
<1>4. LineBytes * l <= LineBytes * MaxLines /\ LineBytes * l \in Nat
           /\ LineBytes * MaxLines \in Nat
  BY <1>2, <1>3
<1> QED BY <1>1, <1>4 DEF Bytes, Positions

(* More files do not disturb the reader.                                   *)
LEMMA ReaderKept ==
    ASSUME NEW r, NEW d, NEW e, NEW v, NEW w, DiskOK(d, v), DiskOK(e, w),
           ReaderOK(r, d), Len(d.content) <= Len(e.content)
    PROVE  ReaderOK(r, e)
<1>1. Len(d.content) \in Nat /\ Len(e.content) \in Nat
  BY DEF DiskOK, DiskType
<1>2. r.file \in 0..Len(d.content)
  BY DEF ReaderOK
<1>3. r.file \in 0..Len(e.content)
  BY <1>1, <1>2
<1> QED BY <1>3 DEF ReaderOK

(* Closing the writer's handle, or removing the current name.              *)
LEMMA ClosedOK ==
    ASSUME NEW w, NEW d, DiskOK(d, w), NEW e,
           \/ e = [d EXCEPT !.fp = Closed]
           \/ e = [d EXCEPT !.name[0] = Closed]
    PROVE  DiskOK(e, w) /\ e.content = d.content
<1>1. /\ d \in DiskType /\ 0 \in Names /\ Len(d.content) \in Nat
      /\ d.name \in [Names -> 0..Len(d.content)]
  BY LogAssumption DEF DiskOK, DiskType, Names
<1>2. CASE e = [d EXCEPT !.fp = Closed]
  <2>1. e \in DiskType /\ e.content = d.content /\ e.name = d.name /\ e.fp = 0
    BY <1>1, <1>2 DEF DiskType, Closed
  <2> QED BY <1>1, <2>1 DEF DiskOK
<1>3. CASE e = [d EXCEPT !.name[0] = Closed]
  <2>1. PICK a : a = [d.name EXCEPT ![0] = Closed]
    OBVIOUS
  <2>2. a \in [Names -> 0..Len(d.content)] /\ a \in [Names -> Nat]
    BY <1>1, <2>1 DEF Closed
  <2>3. e = [d EXCEPT !.name = a]
    BY <1>1, <1>3, <2>1 DEF DiskType
  <2>4. e \in DiskType /\ e.content = d.content /\ e.name = a /\ e.fp = d.fp
    BY <1>1, <2>2, <2>3 DEF DiskType
  <2> QED BY <2>2, <2>4 DEF DiskOK
<1> QED BY <1>2, <1>3

(* The newlines between two positions of a file can be counted.            *)
LEMMA NewlineCount ==
    ASSUME NEW a \in Nat, NEW b \in Nat
    PROVE  Cardinality(Newlines(a, b)) \in Nat
<1>1. IsFiniteSet(a..(b - 1))
  <2>1. b - 1 \in Int /\ a \in Int
    OBVIOUS
  <2> QED BY <2>1, FS_Interval
<1>2. Newlines(a, b) \subseteq a..(b - 1)
  BY DEF Newlines
<1>3. IsFiniteSet(Newlines(a, b))
  BY <1>1, <1>2, FS_Subset
<1> QED BY <1>3, FS_CardinalityType

(* get_last_lines stops within the file.                                   *)
LEMMA ScanOK ==
    ASSUME TypeInv, Scan
    PROVE  /\ ReaderOK(reader', disk) /\ reader'.at = "fetch"
           /\ reader'.file = reader.file
           /\ reader'.old = reader.old /\ reader'.new = reader.new
<1> DEFINE end == Bytes(reader.file)
           stops == {p \in 0..(end - 1) : Beyond(p, end) \/ Enough(p, end)}
           top == Max(stops)
<1>1. /\ reader \in ReaderType /\ reader.at = "scan" /\ reader.file # Closed
      /\ reader.file \in 1..Len(disk.content)
      /\ reader.old \in Positions /\ reader.new \in Positions
  BY DEF TypeInv, ReaderOK, Scan, Closed
<1>2. end \in Positions /\ end \in Nat
  <2>1. end \in Positions
    BY <1>1, FileBytes DEF TypeInv
  <2> HIDE DEF end
  <2> QED BY <2>1 DEF Positions
<1>3. \E pos, count :
         /\ reader' = [reader EXCEPT !.at = "fetch", !.pos = pos, !.count = count,
                                     !.end = end]
         /\ pos \in Positions /\ count \in Nat
  <2>1. CASE stops = {}
    <3>1. reader' = [reader EXCEPT !.at = "fetch", !.pos = end, !.count = 0, !.end = end]
      BY <2>1 DEF Scan
    <3>2. reader' = [reader EXCEPT !.at = "fetch", !.pos = end, !.count = 0, !.end = end]
            /\ end \in Positions /\ 0 \in Nat
      BY <1>2, <3>1
    <3> HIDE DEF end
    <3> QED BY <3>2
  <2>2. CASE stops # {}
    <3>1. top \in stops
      <4> HIDE DEF end
      <4>1. stops \subseteq 0..(end - 1)
        OBVIOUS
      <4> HIDE DEF stops
      <4> QED BY <1>2, <2>2, <4>1, LargestPosition
    <3>2. \/ reader' = [reader EXCEPT !.at = "fetch", !.pos = top, !.end = end,
                                     !.count = Cardinality(Newlines(top + 1, end))]
          \/ reader' = [reader EXCEPT !.at = "fetch", !.pos = top + 1, !.end = end,
                                     !.count = Cardinality(Newlines(top, end))]
      BY <2>2 DEF Scan
    <3>3. top \in 0..(end - 1)
      BY <3>1
    <3> HIDE DEF end, stops, top
    <3>4. top \in Positions /\ top + 1 \in Positions /\ top \in Nat /\ top + 1 \in Nat
      BY <1>2, <3>3, LogAssumption DEF Positions
    <3>5. /\ Cardinality(Newlines(top + 1, end)) \in Nat
          /\ Cardinality(Newlines(top, end)) \in Nat
      BY <1>2, <3>4, NewlineCount
    <3>6. PICK a, b : a = Cardinality(Newlines(top + 1, end)) /\ b = Cardinality(Newlines(top, end))
      OBVIOUS
    <3>7. \/ reader' = [reader EXCEPT !.at = "fetch", !.pos = top, !.count = a, !.end = end]
          \/ reader' = [reader EXCEPT !.at = "fetch", !.pos = top + 1, !.count = b, !.end = end]
      BY <1>1, <3>2, <3>6 DEF ReaderType
    <3> QED BY <3>4, <3>5, <3>6, <3>7
  <2> QED BY <2>1, <2>2
<1>4. PICK pos, count :
         /\ reader' = [reader EXCEPT !.at = "fetch", !.pos = pos, !.count = count,
                                     !.end = end]
         /\ pos \in Positions /\ count \in Nat
  BY <1>3
<1> HIDE DEF end, stops, top
<1>5. pos \in Nat
  BY <1>4 DEF Positions
<1>6. /\ reader' \in ReaderType /\ reader'.at = "fetch" /\ reader'.file = reader.file
      /\ reader'.old = reader.old /\ reader'.new = reader.new
      /\ reader'.pos = pos /\ reader'.end = end
  BY <1>1, <1>2, <1>4, <1>5 DEF ReaderType
<1> QED BY <1>1, <1>2, <1>4, <1>6 DEF ReaderOK

(* The other steps of the reader.                                          *)
LEMMA ReaderStep ==
    ASSUME TypeInv, Measure \/ Reopen \/ Look \/ Fetch
    PROVE  ReaderOK(reader', disk)
<1>1. /\ reader \in ReaderType /\ 0 \in Positions /\ Positions \subseteq Nat
      /\ reader.file \in 0..Len(disk.content) /\ Len(disk.content) \in Nat
      /\ reader.at \in {"reopen", "opened", "scan", "fetch"} => reader.file # Closed
      /\ reader.old \in Positions /\ reader.new \in Positions
      /\ reader.pos \in Positions /\ reader.end \in Positions
  BY LogAssumption, SMTT(30) DEF TypeInv, ReaderOK, Positions, DiskOK, DiskType
<1>2. CASE Measure
  <2>1. reader.file \in 1..Len(disk.content) /\ reader.file # Closed
    BY <1>1, <1>2 DEF Measure, Closed
  <2>2. PICK b : b = Bytes(reader.file) /\ b \in Positions
    BY <2>1, FileBytes DEF TypeInv
  <2>3. \/ reader' = [reader EXCEPT !.at = "reopen"]
        \/ reader' = [reader EXCEPT !.at = "scan", !.new = b]
    BY <1>2, <2>2 DEF Measure
  <2>4. /\ reader' \in ReaderType /\ reader'.file = reader.file
        /\ reader'.old = reader.old /\ reader'.new \in Positions
        /\ reader'.pos = reader.pos /\ reader'.end = reader.end
    BY <1>1, <2>2, <2>3 DEF ReaderType
  <2> QED BY <1>1, <2>1, <2>4 DEF ReaderOK
<1>3. CASE Reopen
  <2>1. PICK f : f = disk.name[0]
    OBVIOUS
  <2>2. f \in 0..Len(disk.content)
    <3>1. 0 \in Names
      BY LogAssumption DEF Names
    <3> QED BY <2>1, <3>1 DEF TypeInv, DiskOK
  <2>3. PICK t : t = IF f = Closed THEN "idle" ELSE "opened"
    OBVIOUS
  <2>4. reader' = [reader EXCEPT !.at = t, !.file = f]
    BY <1>3, <2>1, <2>3 DEF Reopen
  <2>5. /\ reader' \in ReaderType /\ reader'.file = f /\ reader'.at = t
        /\ reader'.old = reader.old /\ reader'.new = reader.new
        /\ reader'.pos = reader.pos /\ reader'.end = reader.end
    <3>1. f \in Nat /\ t \in {"idle", "opened"}
      BY <1>1, <2>2, <2>3
    <3> QED BY <1>1, <2>4, <3>1 DEF ReaderType
  <2>6. t # "idle" => f # Closed
    BY <2>3
  <2>7. t \in {"reopen", "opened", "scan", "fetch"} => f # Closed
    BY <2>3
  <2> QED BY <1>1, <2>2, <2>5, <2>7 DEF ReaderOK
<1>5. CASE Look
  <2>1. reader.file \in 1..Len(disk.content) /\ reader.file # Closed
    BY <1>1, <1>5 DEF Look, Closed
  <2>2. PICK b : b = Bytes(reader.file) /\ b \in Positions
    BY <2>1, FileBytes DEF TypeInv
  <2>3. reader' = [reader EXCEPT !.at = "scan", !.old = 0, !.new = b]
    BY <1>5, <2>2 DEF Look
  <2>4. /\ reader' \in ReaderType /\ reader'.file = reader.file
        /\ reader'.old = 0 /\ reader'.new \in Positions
        /\ reader'.pos = reader.pos /\ reader'.end = reader.end
    BY <1>1, <2>2, <2>3 DEF ReaderType
  <2> QED BY <1>1, <2>1, <2>4 DEF ReaderOK
<1>4. CASE Fetch
  <2>1. reader' = [reader EXCEPT !.at = "idle", !.old = reader.new,
                                 !.pos = 0, !.count = 0, !.new = 0, !.end = 0]
    BY <1>4 DEF Fetch
  <2>2. /\ reader' \in ReaderType /\ reader'.file = reader.file /\ reader'.at = "idle"
        /\ reader'.old = reader.new /\ reader'.new = 0
        /\ reader'.pos = 0 /\ reader'.end = 0
    BY <1>1, <2>1 DEF ReaderType
  <2> QED BY <1>1, <2>2 DEF ReaderOK
<1> QED BY <1>2, <1>3, <1>4, <1>5

(* ZcloudLog while several threads use it, of which nothing is known.      *)
LEMMA TangleOK ==
    ASSUME Tangle, NEW d, Len(d.content) \in Nat
    PROVE  /\ ReaderOK(reader', d) /\ mark' = 0 /\ since' = 0
           /\ reader'.at = "tangled" /\ reader'.file = Closed
<1>1. reader' = [at |-> "tangled", file |-> 0, old |-> 0, new |-> 0,
                 pos |-> 0, count |-> 0, end |-> 0]
  BY DEF Tangle, Closed
<1>2. /\ reader' \in ReaderType /\ reader'.file = 0 /\ reader'.at = "tangled"
      /\ reader'.old = 0 /\ reader'.new = 0 /\ reader'.pos = 0 /\ reader'.end = 0
  BY <1>1 DEF ReaderType
<1>3. 0 \in Positions /\ 0 \in 0..Len(d.content)
  BY LogAssumption DEF Positions
<1>4. ReaderOK(reader', d)
  BY <1>2, <1>3 DEF ReaderOK
<1> QED BY <1>2, <1>4 DEF Tangle, Closed

(* Opening the log and the cloud log again.                                *)
LEMMA InitClientOK ==
    ASSUME TypeInv, zclient_init
    PROVE  /\ DiskOK(disk', written) /\ ReaderOK(reader', disk')
           /\ Len(disk.content) <= Len(disk'.content)
           /\ mark' = 0 /\ since' = 0
<1>1. /\ DiskOK(disk, written) /\ reader \in ReaderType /\ written \in Nat
      /\ reader.old \in Positions /\ reader.new \in Positions /\ 0 \in Positions
      /\ reader.pos \in Positions /\ reader.end \in Positions
  BY LogAssumption DEF TypeInv, ReaderOK, Positions
<1>2. DiskOK(disk', written) /\ Len(disk.content) <= Len(disk'.content)
  <2>1. CASE disk' = log_initialize(disk)
    <3>1. PICK e : e = [disk EXCEPT !.fp = Closed] /\ disk' = OpenLog(e)
      BY <2>1 DEF log_initialize
    <3>2. DiskOK(e, written) /\ e.content = disk.content
      BY <1>1, <3>1, ClosedOK
    <3> QED BY <1>1, <3>1, <3>2, OpenOK
  <2>2. CASE disk' = disk
    <3>1. Len(disk.content) \in Nat
      BY <1>1 DEF DiskOK, DiskType
    <3> QED BY <1>1, <2>2, <3>1
  <2> QED BY <2>1, <2>2 DEF zclient_init
<1>3. PICK f : f = disk'.name[0] /\ f \in 0..Len(disk'.content)
  <2>1. 0 \in Names
    BY LogAssumption DEF Names
  <2> QED BY <1>2, <2>1 DEF DiskOK
<1>4. PICK o : o = (IF f = Closed THEN reader.old ELSE 0) /\ o \in Positions
  BY <1>1
<1>5. ASSUME initialize_cloud_log(f)
      PROVE  reader' = [reader EXCEPT !.at = "idle", !.file = f, !.old = o]
  BY <1>1, <1>4, <1>5 DEF initialize_cloud_log, ReaderType
<1>6. f \in Nat /\ o \in Nat
  <2>1. Len(disk'.content) \in Nat
    BY <1>2 DEF DiskOK, DiskType
  <2>2. f \in Nat
    BY <1>3, <2>1
  <2>3. o \in Nat
    BY <1>4 DEF Positions
  <2> QED BY <2>2, <2>3
<1>7. CASE initialize_cloud_log(f)
  <2>1. /\ reader' \in ReaderType /\ reader'.file = f /\ reader'.at = "idle"
        /\ reader'.old = o /\ reader'.new = reader.new
        /\ reader'.pos = reader.pos /\ reader'.end = reader.end
    BY <1>1, <1>5, <1>6, <1>7 DEF ReaderType
  <2>2. ReaderOK(reader', disk')
    BY <1>1, <1>3, <1>4, <2>1 DEF ReaderOK
  <2> QED BY <1>2, <1>7, <2>2 DEF initialize_cloud_log
<1>8. CASE Tangle
  <2>1. PICK e : e = disk'
    OBVIOUS
  <2>2. Len(e.content) \in Nat
    BY <1>2, <2>1 DEF DiskOK, DiskType
  <2>3. ReaderOK(reader', e) /\ mark' = 0 /\ since' = 0
    BY <1>8, <2>2, TangleOK
  <2> QED BY <1>2, <2>1, <2>3
<1> QED BY <1>3, <1>7, <1>8 DEF zclient_init

(* No step breaks the types.                                               *)
LEMMA TypeStep == TypeInv /\ [Next]_vars => TypeInv'
<1> SUFFICES ASSUME TypeInv, [Next]_vars PROVE TypeInv'
  OBVIOUS
<1>1. /\ DiskOK(disk, written) /\ ReaderOK(reader, disk)
      /\ written \in 0..MaxLines /\ removals \in 0..MaxRemovals
      /\ written \in Nat /\ removals \in Nat /\ Len(disk.content) \in Nat
      /\ MaxLines \in Nat /\ MaxRemovals \in Nat
      /\ mark \in 0..written /\ since \in 0..written
  BY LogAssumption DEF TypeInv, DiskOK, DiskType
<1>2. CASE log_log
  <2>1. PICK d : /\ DiskOK(d, written) /\ d.fp # Closed
                 /\ Len(disk.content) <= Len(d.content)
                 /\ disk' = [d EXCEPT !.content[d.fp] = Append(@, written + 1)]
    BY <1>2, LogStep
  <2>2. DiskOK(disk', written + 1) /\ Len(disk'.content) = Len(d.content)
    <3>1. PICK e, w : e = disk' /\ w = written
      OBVIOUS
    <3>2. e = [d EXCEPT !.content[d.fp] = Append(@, w + 1)]
      BY <2>1, <3>1
    <3>3. w \in Nat /\ DiskOK(d, w) /\ d.fp # Closed
      BY <1>1, <2>1, <3>1
    <3>4. DiskOK(e, w + 1) /\ Len(e.content) = Len(d.content)
      BY <3>2, <3>3, WriteOK
    <3> QED BY <3>1, <3>4
  <2>3. /\ written < MaxLines /\ written' = written + 1
        /\ UNCHANGED <<reader, removals, mark, since>>
    BY <1>2 DEF log_log
  <2>4. ReaderOK(reader, disk')
    BY <1>1, <2>1, <2>2, ReaderKept
  <2>5. /\ written' \in 0..MaxLines
        /\ mark \in 0..(written + 1) /\ since \in 0..(written + 1)
    BY <1>1, <2>3
  <2> QED BY <1>1, <2>2, <2>3, <2>4, <2>5 DEF TypeInv
<1>3. CASE Free \/ RemoveLog
  <2>1. /\ \/ disk' = [disk EXCEPT !.fp = Closed]
           \/ disk' = [disk EXCEPT !.name[0] = Closed]
        /\ UNCHANGED <<written, reader, mark, since>>
        /\ removals' = removals \/ (removals > 0 /\ removals' = removals - 1)
    BY <1>3 DEF Free, RemoveLog, log_free
  <2>2. DiskOK(disk', written) /\ disk'.content = disk.content
    BY <1>1, <2>1, ClosedOK
  <2>3. ReaderOK(reader, disk')
    BY <1>1, <2>2, ReaderKept
  <2>4. removals' \in 0..MaxRemovals
    BY <1>1, <2>1
  <2> QED BY <1>1, <2>1, <2>2, <2>3, <2>4 DEF TypeInv
<1>4. CASE zclient_init
  <2>1. 0 \in 0..written
    BY <1>1
  <2> QED BY <1>1, <1>4, <2>1, InitClientOK DEF zclient_init, TypeInv
<1>5. CASE Measure \/ Reopen \/ Look \/ Fetch \/ Scan \/ Overlap
  <2>1. ReaderOK(reader', disk)
    BY <1>1, <1>5, ReaderStep, ScanOK, TangleOK DEF Overlap
  <2>2. UNCHANGED <<disk, written, removals>>
    BY <1>5 DEF Measure, Reopen, Look, Fetch, Scan, Overlap
  <2>3. mark' \in {0, mark, written} /\ since' \in {0, since, mark}
    BY <1>5 DEF Measure, Reopen, Look, Fetch, Scan, Overlap, Tangle
  <2>4. mark' \in 0..written /\ since' \in 0..written
    BY <1>1, <2>3
  <2> QED BY <1>1, <2>1, <2>2, <2>4 DEF TypeInv
<1>6. CASE UNCHANGED vars
  BY <1>1, <1>6 DEF vars, TypeInv
<1> QED BY <1>2, <1>3, <1>4, <1>5, <1>6 DEF Next

(* It holds at the start, without a file.                                  *)
LEMMA TypeInit == Init => TypeInv
<1> SUFFICES ASSUME Init PROVE TypeInv
  OBVIOUS
<1>1. PICK a : a = [n \in Names |-> Closed]
  OBVIOUS
<1>2. disk = [content |-> <<>>, name |-> a, fp |-> 0]
  BY <1>1 DEF Init, Closed
<1>3. a \in [Names -> Nat] /\ a \in [Names -> 0..0]
  BY <1>1 DEF Closed
<1>4. <<>> \in Seq(Seq(Nat)) /\ Len(<<>>) = 0
  OBVIOUS
<1>5. /\ disk \in DiskType /\ disk.content = <<>> /\ disk.name = a /\ disk.fp = 0
  BY <1>2, <1>3, <1>4 DEF DiskType
<1>6. DiskOK(disk, written)
  BY <1>3, <1>4, <1>5 DEF DiskOK
<1>7. /\ reader \in ReaderType /\ reader.at = "idle" /\ reader.file = 0 /\ reader.old = 0
      /\ reader.new = 0 /\ reader.pos = 0 /\ reader.end = 0
  BY DEF Init, ReaderType, Closed
<1>8. 0 \in Positions
  BY LogAssumption DEF Positions
<1>9. ReaderOK(reader, disk)
  BY <1>4, <1>5, <1>7, <1>8 DEF ReaderOK
<1>10. /\ written \in 0..MaxLines /\ removals \in 0..MaxRemovals
       /\ mark \in 0..written /\ since \in 0..written
  BY LogAssumption DEF Init
<1> QED BY <1>6, <1>9, <1>10 DEF TypeInv

LEMMA TypeInvariant == Spec => []TypeInv
BY TypeInit, TypeStep, PTL DEF Spec

(* Handles and names lead to files, and an upload that has ZcloudLog to    *)
(* itself reads no null handle, whatever is rolled or removed between its  *)
(* steps.                                                                  *)
THEOREM Types == Spec => []TypeOK
<1>1. TypeInv => TypeOK
  BY DEF TypeInv, DiskOK, ReaderOK, ReaderType, TypeOK, Positions
<1> QED BY <1>1, TypeInvariant, PTL

-----------------------------------------------------------------------------
(* Rolling.                                                                *)

(* A file is started when there is none or the newest is full.             *)
LEMMA OrderedNewFile ==
    ASSUME NEW c \in Seq(Seq(Nat)), NEW w \in Nat, Ordered(c, w),
           Len(c) = 0 \/ LineBytes * Len(c[Len(c)]) > maxLogFileSize,
           NEW e, e = Append(c, <<>>)
    PROVE  Ordered(e, w)
<1>1. PICK k : k = Len(c) /\ k \in Nat
  OBVIOUS
<1>2. /\ e \in Seq(Seq(Nat)) /\ Len(e) = k + 1
      /\ \A f \in 1..k : e[f] = c[f]
      /\ e[k + 1] = <<>>
  BY <1>1, NewFile
<1>3. ToSet(e[k + 1]) = {} /\ Len(e[k + 1]) = 0
  BY <1>2 DEF ToSet
<1>4. \A f \in 1..(k + 1) : f \in 1..k \/ f = k + 1
  BY <1>1
<1>5. \A f \in 1..k : ToSet(e[f]) = ToSet(c[f])
  BY <1>2
<1>6. Runs(e)
  <2> SUFFICES ASSUME NEW f \in 1..Len(e), NEW i \in 1..(Len(e[f]) - 1)
               PROVE  e[f][i + 1] = e[f][i] + 1
    BY DEF Runs
  <2>1. f \in 1..k \/ f = k + 1
    BY <1>2, <1>4
  <2>2. CASE f = k + 1
    <3>1. i \in 1..(0 - 1)
      BY <1>3, <2>2
    <3> QED BY <3>1
  <2>3. CASE f \in 1..k
    <3>1. e[f] = c[f] /\ f \in 1..Len(c)
      BY <1>1, <1>2, <2>3
    <3> QED BY <3>1 DEF Ordered, Runs
  <2> QED BY <2>1, <2>2, <2>3
<1>7. Within(e, w)
  <2> SUFFICES ASSUME NEW f \in 1..Len(e) PROVE ToSet(e[f]) \subseteq 1..w
    BY DEF Within
  <2>1. f \in 1..k \/ f = k + 1
    BY <1>2, <1>4
  <2>2. CASE f = k + 1
    BY <1>3, <2>2
  <2>3. CASE f \in 1..k
    BY <1>1, <1>5, <2>3 DEF Ordered, Within
  <2> QED BY <2>1, <2>2, <2>3
<1>8. OldestFirst(e)
  BY <1>1, <1>2, <1>3, <1>4, <1>5 DEF Ordered, OldestFirst
<1>9. NoGap(e, w)
  <2> SUFFICES ASSUME NEW f \in 1..(k + 1), NEW x \in ToSet(e[f]), NEW y \in x..w
               PROVE  \E g \in f..(k + 1) : y \in ToSet(e[g])
    BY <1>2 DEF NoGap
  <2>1. f \in 1..k /\ x \in ToSet(c[f])
    BY <1>3, <1>4, <1>5
  <2>2. PICK g \in f..k : y \in ToSet(c[g])
    BY <1>1, <2>1 DEF Ordered, NoGap
  <2>3. g \in 1..k /\ g \in f..(k + 1)
    BY <1>1, <2>1
  <2> QED BY <1>5, <2>2, <2>3
<1>10. Everything(e, w)
  <2> SUFFICES ASSUME NEW y \in 1..w PROVE \E g \in 1..(k + 1) : y \in ToSet(e[g])
    BY <1>2 DEF Everything
  <2>1. PICK g \in 1..k : y \in ToSet(c[g])
    BY <1>1 DEF Ordered, Everything
  <2>2. g \in 1..(k + 1)
    BY <1>1
  <2> QED BY <1>5, <2>1, <2>2
<1>11. Full(e)
  <2> SUFFICES ASSUME NEW f \in 1..k PROVE LineBytes * Len(e[f]) > maxLogFileSize
    BY <1>1, <1>2 DEF Full
  <2>1. e[f] = c[f]
    BY <1>2
  <2>2. CASE f = k
    BY <1>1, <2>1, <2>2
  <2>3. CASE f # k
    <3>1. f \in 1..(Len(c) - 1)
      BY <1>1, <2>3
    <3> QED BY <2>1, <3>1 DEF Ordered, Full
  <2> QED BY <2>2, <2>3
<1>12. EndsWith(e, w)
  BY <1>2, <1>3 DEF EndsWith
<1> QED BY <1>6, <1>7, <1>8, <1>9, <1>10, <1>11, <1>12 DEF Ordered

(* The next line goes to the newest file.                                  *)
LEMMA OrderedNewLine ==
    ASSUME NEW c \in Seq(Seq(Nat)), NEW w \in Nat, Ordered(c, w),
           NEW k \in Nat, k = Len(c), k > 0,
           NEW e, e = [c EXCEPT ![k] = Append(@, w + 1)]
    PROVE  Ordered(e, w + 1)
<1>1. PICK l : l = Len(c[k])
  OBVIOUS
<1>2. k \in 1..Len(c) /\ w + 1 \in Nat /\ c[k] \in Seq(Nat) /\ l \in Nat
  <2>1. k \in 1..Len(c) /\ w + 1 \in Nat
    OBVIOUS
  <2>2. c[k] \in Seq(Nat)
    BY <2>1
  <2>3. l \in Nat
    BY <1>1, <2>2
  <2> QED BY <2>1, <2>2, <2>3
<1>3. /\ e \in Seq(Seq(Nat)) /\ Len(e) = k
      /\ \A g \in 1..k : g # k => e[g] = c[g]
      /\ e[k] = Append(c[k], w + 1) /\ Len(e[k]) = l + 1
      /\ \A i \in 1..l : e[k][i] = c[k][i]
      /\ e[k][l + 1] = w + 1
  BY <1>1, <1>2, NewLine
<1>4. ToSet(e[k]) = ToSet(c[k]) \cup {w + 1}
  <2>1. DOMAIN e[k] = 1..(l + 1) /\ DOMAIN c[k] = 1..l
    BY <1>1, <1>2, <1>3
  <2>2. \A i \in 1..(l + 1) : i \in 1..l \/ i = l + 1
    BY <1>2
  <2>3. 1..l \subseteq 1..(l + 1) /\ l + 1 \in 1..(l + 1)
    BY <1>2
  <2>4. \A i \in 1..(l + 1) : e[k][i] \in ToSet(c[k]) \cup {w + 1}
    BY <1>3, <2>1, <2>2 DEF ToSet
  <2>5. \A i \in 1..l : c[k][i] \in ToSet(e[k])
    BY <1>3, <2>1, <2>3 DEF ToSet
  <2>6. w + 1 \in ToSet(e[k])
    BY <1>3, <2>1, <2>3 DEF ToSet
  <2>7. \A x \in ToSet(e[k]) : x \in ToSet(c[k]) \cup {w + 1}
    <3> SUFFICES ASSUME NEW x \in ToSet(e[k]) PROVE x \in ToSet(c[k]) \cup {w + 1}
      OBVIOUS
    <3>1. PICK i \in DOMAIN e[k] : x = e[k][i]
      BY Zenon DEF ToSet
    <3> QED BY <2>1, <2>4, <3>1, Zenon
  <2>8. \A x \in ToSet(c[k]) : x \in ToSet(e[k])
    <3> SUFFICES ASSUME NEW x \in ToSet(c[k]) PROVE x \in ToSet(e[k])
      OBVIOUS
    <3>1. PICK i \in DOMAIN c[k] : x = c[k][i]
      BY Zenon DEF ToSet
    <3> QED BY <2>1, <2>5, <3>1, Zenon
  <2> QED BY <2>6, <2>7, <2>8
<1>5. \A f \in 1..k : f # k => ToSet(e[f]) = ToSet(c[f])
  BY <1>3
<1>6. \A f \in 1..k : ToSet(c[f]) \subseteq ToSet(e[f])
  BY <1>4, <1>5
<1>7. \A f \in 1..k : \A x \in ToSet(c[f]) : x \in 1..w
  BY DEF Ordered, Within
<1>8. \A f \in 1..k : \A x \in ToSet(e[f]) : x \in ToSet(c[f]) \/ (f = k /\ x = w + 1)
  BY <1>4, <1>5
<1>9. Runs(e)
  <2> SUFFICES ASSUME NEW f \in 1..k, NEW i \in 1..(Len(e[f]) - 1)
               PROVE  e[f][i + 1] = e[f][i] + 1
    BY <1>3 DEF Runs
  <2>1. CASE f # k
    BY <1>3, <2>1 DEF Ordered, Runs
  <2>2. CASE f = k /\ i = l
    <3>1. c[k][l] = w
      BY <1>1, <1>2, <2>2 DEF Ordered, EndsWith
    <3> QED BY <1>1, <1>2, <1>3, <2>2, <3>1
  <2>3. CASE f = k /\ i # l
    <3>1. i \in 1..(l - 1)
      BY <1>1, <1>2, <1>3, <2>3
    <3>2. c[k][i + 1] = c[k][i] + 1
      BY <1>1, <1>2, <3>1 DEF Ordered, Runs
    <3>3. i \in 1..l /\ i + 1 \in 1..l
      BY <1>2, <3>1
    <3> QED BY <1>3, <2>3, <3>2, <3>3
  <2> QED BY <2>1, <2>2, <2>3
<1>10. Within(e, w + 1)
  <2> SUFFICES ASSUME NEW f \in 1..k, NEW x \in ToSet(e[f]) PROVE x \in 1..(w + 1)
    BY <1>3 DEF Within
  <2>1. CASE x \in ToSet(c[f])
    <3>1. x \in 1..w
      BY <1>7, <2>1
    <3> QED BY <3>1
  <2>2. CASE x = w + 1
    BY <2>2
  <2> QED BY <1>8, <2>1, <2>2
<1>11. OldestFirst(e)
  <2> SUFFICES ASSUME NEW f \in 1..Len(e), NEW g \in 1..Len(e), f < g,
                      NEW x \in ToSet(e[f]), NEW y \in ToSet(e[g])
               PROVE  x < y
    BY DEF OldestFirst
  <2>0. f \in 1..k /\ g \in 1..k /\ f # k
    BY <1>3
  <2>1. x \in ToSet(c[f]) /\ x \in 1..w
    BY <1>7, <1>8, <2>0
  <2>2. CASE y \in ToSet(c[g])
    BY <2>0, <2>1, <2>2 DEF Ordered, OldestFirst
  <2>3. CASE y = w + 1
    BY <2>1, <2>3
  <2> QED BY <1>8, <2>0, <2>2, <2>3
<1>12. w + 1 \in ToSet(e[k])
  BY <1>4
<1>13. NoGap(e, w + 1)
  <2> SUFFICES ASSUME NEW f \in 1..k, NEW x \in ToSet(e[f]), NEW y \in x..(w + 1)
               PROVE  \E g \in f..k : y \in ToSet(e[g])
    BY <1>3 DEF NoGap
  <2>1. k \in f..k
    OBVIOUS
  <2>2. CASE y = w + 1
    BY <1>12, <2>1, <2>2
  <2>3. CASE y # w + 1
    <3>1. x \in ToSet(c[f]) /\ y \in x..w
      <4>1. x \in 1..(w + 1) /\ x # w + 1
        <5>1. x \in 1..(w + 1)
          BY <1>3, <1>10 DEF Within
        <5>2. x <= y /\ y <= w + 1 /\ y \in Int
          BY <5>1
        <5> QED BY <2>3, <5>1, <5>2
      <4> QED BY <1>8, <2>3, <4>1
    <3>2. PICK g \in f..k : y \in ToSet(c[g])
      BY <3>1 DEF Ordered, NoGap
    <3>3. g \in 1..k
      OBVIOUS
    <3> QED BY <1>6, <3>2, <3>3
  <2> QED BY <2>2, <2>3
<1>14. Everything(e, w + 1)
  <2> SUFFICES ASSUME NEW y \in 1..(w + 1) PROVE \E g \in 1..k : y \in ToSet(e[g])
    BY <1>3 DEF Everything
  <2>1. CASE y = w + 1
    BY <1>2, <1>12, <2>1
  <2>2. CASE y # w + 1
    <3>1. y \in 1..w
      BY <2>2
    <3>2. PICK g \in 1..k : y \in ToSet(c[g])
      BY <3>1 DEF Ordered, Everything
    <3> QED BY <1>6, <3>2
  <2> QED BY <2>1, <2>2
<1>15. Full(e)
  <2> SUFFICES ASSUME NEW f \in 1..(k - 1) PROVE LineBytes * Len(e[f]) > maxLogFileSize
    BY <1>3 DEF Full
  <2>1. e[f] = c[f]
    BY <1>3
  <2> QED BY <2>1 DEF Ordered, Full
<1>16. EndsWith(e, w + 1)
  BY <1>3 DEF EndsWith
<1> QED BY <1>9, <1>10, <1>11, <1>13, <1>14, <1>15, <1>16 DEF Ordered

(* The names and the handle, spelt out.                                    *)
LEMMA RollingFacts ==
    ASSUME NEW w \in Nat, NEW d, Rolling(d, w), NEW k, k = Len(d.content)
    PROVE  /\ d \in DiskType /\ d.content \in Seq(Seq(Nat)) /\ k \in Nat
           /\ d.name \in [Names -> Nat] /\ 0 \in Names
           /\ \A n \in Names : n \in Nat /\ (n > 0 => n - 1 \in Names)
           /\ \A n \in Names : d.name[n] = IF n < k THEN k - n ELSE 0
           /\ d.name[0] = k /\ d.fp \in {0, k}
<1>1. d \in DiskType /\ d.content \in Seq(Seq(Nat)) /\ d.name \in [Names -> Nat]
  BY DEF Rolling, DiskOK, DiskType
<1>2. k \in Nat
  BY <1>1
<1>3. 0 \in Names /\ \A n \in Names : n \in Nat /\ (n > 0 => n - 1 \in Names)
  BY LogAssumption DEF Names
<1>4. \A n \in Names : d.name[n] = IF n < k THEN k - n ELSE 0
  BY DEF Rolling, Named, Closed
<1>5. d.name[0] = k
  BY <1>2, <1>3, <1>4
<1>6. d.fp \in {0, k}
  BY DEF Rolling, Named, Closed
<1> QED BY <1>1, <1>2, <1>3, <1>4, <1>5, <1>6

(* Opening the current file leaves the files as they are, but for the      *)
(* first one.                                                              *)
LEMMA OpenRolling ==
    ASSUME NEW w \in Nat, NEW d, Rolling(d, w), NEW e, e = OpenLog(d)
    PROVE  Rolling(e, w) /\ e.fp = Len(e.content) /\ e.fp # Closed
<1>1. PICK k : k = Len(d.content)
  OBVIOUS
<1>2. /\ d \in DiskType /\ d.content \in Seq(Seq(Nat)) /\ k \in Nat
      /\ d.name \in [Names -> Nat] /\ 0 \in Names
      /\ \A n \in Names : n \in Nat /\ (n > 0 => n - 1 \in Names)
      /\ \A n \in Names : d.name[n] = IF n < k THEN k - n ELSE 0
      /\ d.name[0] = k /\ d.fp \in {0, k}
  BY <1>1, RollingFacts
<1>3. DiskOK(e, w) /\ e.fp # Closed
  BY OpenOK DEF Rolling
<1>4. /\ k # 0 => e.content = d.content /\ e.name = d.name /\ e.fp = k
      /\ k = 0 => /\ e.content = Append(d.content, <<>>)
                  /\ e.name = [d.name EXCEPT ![0] = Len(d.content) + 1]
                  /\ e.fp = Len(d.content) + 1
  BY <1>2, OpenOutcome DEF Closed
<1>5. CASE k # 0
  <2>1. Ordered(e.content, w)
    BY <1>4, <1>5 DEF Rolling
  <2>2. e.fp = Len(e.content)
    BY <1>1, <1>4, <1>5
  <2>3. Named(e)
    BY <1>4, <1>5, <2>2 DEF Rolling, Named
  <2> QED BY <1>3, <2>1, <2>2, <2>3 DEF Rolling
<1>6. CASE k = 0
  <2>1. Ordered(e.content, w)
    <3>1. PICK c, b : c = d.content /\ b = e.content
      OBVIOUS
    <3>2. /\ c \in Seq(Seq(Nat)) /\ Ordered(c, w) /\ Len(c) = 0
          /\ b = Append(c, <<>>)
      BY <1>1, <1>2, <1>4, <1>6, <3>1 DEF Rolling
    <3>3. Ordered(b, w)
      BY <3>2, OrderedNewFile
    <3> QED BY <3>1, <3>3
  <2>2. Len(e.content) = 1 /\ e.fp = 1
    BY <1>1, <1>2, <1>4, <1>6, NewFile
  <2>3. \A n \in Names : e.name[n] = IF n < 1 THEN 1 - n ELSE 0
    <3> TAKE n \in Names
    <3>1. CASE n = 0
      BY <1>1, <1>2, <1>4, <1>6, <3>1
    <3>2. CASE n # 0
      <4>1. n \in Nat
        BY <1>2
      <4>2. ~(n < 0) /\ ~(n < 1)
        BY <3>2, <4>1
      <4>3. d.name[n] = 0
        BY <1>2, <1>6, <4>2
      <4>4. e.name[n] = d.name[n]
        BY <1>2, <1>4, <1>6, <3>2
      <4> QED BY <4>2, <4>3, <4>4
    <3> QED BY <3>1, <3>2
  <2>4. Named(e)
    BY <2>2, <2>3 DEF Named, Closed
  <2> QED BY <1>3, <2>1, <2>2, <2>4 DEF Rolling
<1> QED BY <1>5, <1>6

(* A roll gives every name to the next newer file.                         *)
LEMMA RollRolling ==
    ASSUME NEW w \in Nat, NEW d, Rolling(d, w), NEW k, k = Len(d.content), k # 0,
           LineBytes * Len(d.content[k]) > maxLogFileSize, NEW e, e = Roll(d)
    PROVE  Rolling(e, w) /\ e.fp = Len(e.content) /\ e.fp # Closed
<1>2. /\ d \in DiskType /\ d.content \in Seq(Seq(Nat)) /\ k \in Nat
      /\ d.name \in [Names -> Nat] /\ 0 \in Names
      /\ \A n \in Names : n \in Nat /\ (n > 0 => n - 1 \in Names)
      /\ \A n \in Names : d.name[n] = IF n < k THEN k - n ELSE 0
  BY RollingFacts
<1>3. DiskOK(e, w) /\ e.fp # Closed
  BY RollOK DEF Rolling
<1>4. /\ e.content = Append(d.content, <<>>)
      /\ e.name = [RenameAll(d.name) EXCEPT ![0] = k + 1]
      /\ e.fp = k + 1
  BY <1>2, RollOutcome
<1>5. Ordered(e.content, w)
  <2>1. PICK c, b : c = d.content /\ b = e.content
    OBVIOUS
  <2>2. c \in Seq(Seq(Nat)) /\ Ordered(c, w) /\ b = Append(c, <<>>)
    BY <1>2, <1>4, <2>1 DEF Rolling
  <2>3. LineBytes * Len(c[Len(c)]) > maxLogFileSize
    BY <2>1
  <2>4. Ordered(b, w)
    BY <2>2, <2>3, OrderedNewFile
  <2> QED BY <2>1, <2>4
<1>6. Len(e.content) = k + 1
  BY <1>2, <1>4, NewFile
<1>7. \A n \in Names : e.name[n] = IF n < k + 1 THEN k + 1 - n ELSE 0
  <2> TAKE n \in Names
  <2>1. CASE n = 0
    <3>1. e.name[0] = k + 1
      BY <1>2, <1>4 DEF RenameAll
    <3> QED BY <1>2, <2>1, <3>1
  <2>2. CASE n # 0
    <3>1. /\ n \in Nat /\ n > 0 /\ n - 1 \in Names
          /\ d.name[n - 1] = IF n - 1 < k THEN k - (n - 1) ELSE 0
          /\ d.name[n] = IF n < k THEN k - n ELSE 0
      BY <1>2, <2>2
    <3>2. e.name[n] = IF n > 0 /\ d.name[n - 1] # 0 THEN d.name[n - 1]
                      ELSE IF n = maxRollingLogFile /\ n > 0 THEN d.name[n] ELSE 0
      BY <1>4, <2>2 DEF RenameAll, Closed
    <3>3. CASE n - 1 < k
      <4>1. d.name[n - 1] = k + 1 - n /\ d.name[n - 1] # 0
        BY <1>2, <3>1, <3>3, SMTT(30)
      <4> QED BY <1>2, <3>1, <3>2, <3>3, <4>1
    <3>4. CASE ~(n - 1 < k)
      <4>1. d.name[n - 1] = 0 /\ d.name[n] = 0 /\ ~(n < k + 1)
        BY <1>2, <3>1, <3>4
      <4> QED BY <3>2, <4>1
    <3> QED BY <3>3, <3>4
  <2> QED BY <2>1, <2>2
<1>8. Named(e)
  <2>1. PICK m : m = k + 1
    OBVIOUS
  <2>2. Len(e.content) = m /\ e.fp = m
    BY <1>4, <1>6, <2>1
  <2>3. \A n \in Names : e.name[n] = IF n < m THEN m - n ELSE 0
    <3> TAKE n \in Names
    <3>1. e.name[n] = IF n < k + 1 THEN k + 1 - n ELSE 0
      BY <1>7
    <3>2. n \in Nat /\ k \in Nat /\ m \in Nat
      BY <1>2, <2>1
    <3> QED BY <2>1, <3>1, <3>2
  <2> QED BY <2>2, <2>3 DEF Named, Closed
<1> QED BY <1>3, <1>4, <1>5, <1>6, <1>8 DEF Rolling

(* A line goes to the newest file.                                         *)
LEMMA WriteRolling ==
    ASSUME NEW w \in Nat, NEW d, Rolling(d, w), d.fp = Len(d.content), d.fp # Closed,
           NEW e, DiskOK(e, w + 1), Len(e.content) = Len(d.content),
           e.content = [d.content EXCEPT ![d.fp] = Append(@, w + 1)],
           e.name = d.name, e.fp = d.fp
    PROVE  Rolling(e, w + 1)
<1>1. DiskOK(d, w)
  BY DEF Rolling
<1>2. Ordered(e.content, w + 1)
  <2>1. PICK c, b, k : c = d.content /\ b = e.content /\ k = d.fp
    OBVIOUS
  <2>2. c \in Seq(Seq(Nat)) /\ k = Len(c) /\ k \in Nat /\ k > 0
    BY <1>1, <2>1 DEF DiskOK, DiskType, Closed
  <2>3. Ordered(c, w) /\ b = [c EXCEPT ![k] = Append(@, w + 1)]
    BY <2>1 DEF Rolling
  <2>4. Ordered(b, w + 1)
    BY <2>2, <2>3, OrderedNewLine
  <2> QED BY <2>1, <2>4
<1>3. Named(e)
  <2>1. Named(d)
    BY DEF Rolling
  <2> QED BY <2>1 DEF Named
<1> QED BY <1>2, <1>3 DEF Rolling

(* log_log: the handle it finds open is the newest file's, which has its   *)
(* name, so a roll starts a new file only when that one is full.           *)
LEMMA LogRolling ==
    ASSUME TypeInv, Rolling(disk, written), log_log
    PROVE  Rolling(disk', written + 1)
<1>1. PICK d : /\ disk' = [d EXCEPT !.content[d.fp] = Append(@, written + 1)]
               /\ \E opened :
                     /\ opened = IF disk.fp # Closed /\ Linked(disk.fp) THEN disk
                                 ELSE OpenLog(disk)
                     /\ d = IF (IF disk.fp = Closed THEN 0 ELSE Bytes(disk.fp))
                                  > maxLogFileSize
                            THEN Roll(opened) ELSE opened
  BY LogStep
<1>2. PICK w, k : w = written /\ k = Len(disk.content)
  OBVIOUS
<1>3. w \in Nat /\ Rolling(disk, w)
  BY <1>2, LogAssumption DEF TypeInv
<1>4. k \in Nat /\ disk.name[0] = k /\ disk.fp \in {0, k} /\ 0 \in Names
  BY <1>2, <1>3, RollingFacts
<1>5. Rolling(d, w) /\ d.fp = Len(d.content) /\ d.fp # Closed
  <2>1. CASE disk.fp = Closed
    <3>1. ~(0 > maxLogFileSize)
      BY LogAssumption
    <3>2. d = OpenLog(disk)
      BY <1>1, <2>1, <3>1
    <3> QED BY <1>3, <3>2, OpenRolling
  <2>2. CASE disk.fp # Closed
    <3>1. disk.fp = k /\ k # 0
      BY <1>4, <2>2 DEF Closed
    <3>2. Linked(disk.fp)
      BY <1>4, <3>1 DEF Linked
    <3>3. d = IF Bytes(disk.fp) > maxLogFileSize THEN Roll(disk) ELSE disk
      BY <1>1, <2>2, <3>2
    <3>4. CASE Bytes(disk.fp) > maxLogFileSize
      <4>1. LineBytes * Len(disk.content[k]) > maxLogFileSize
        BY <3>1, <3>4 DEF Bytes
      <4>2. d = Roll(disk)
        BY <3>3, <3>4
      <4> QED BY <1>2, <1>3, <3>1, <4>1, <4>2, RollRolling
    <3>5. CASE ~(Bytes(disk.fp) > maxLogFileSize)
      <4>1. d = disk
        BY <3>3, <3>5
      <4> QED BY <1>2, <1>3, <2>2, <3>1, <4>1
    <3> QED BY <3>4, <3>5
  <2> QED BY <2>1, <2>2
<1>6. PICK e : e = disk'
  OBVIOUS
<1>7. e = [d EXCEPT !.content[d.fp] = Append(@, w + 1)]
  BY <1>1, <1>2, <1>6
<1>8. DiskOK(d, w) /\ d.fp # Closed
  BY <1>5 DEF Rolling
<1>9. DiskOK(e, w + 1) /\ Len(e.content) = Len(d.content)
  BY <1>3, <1>7, <1>8, WriteOK
<1>10. /\ e.content = [d.content EXCEPT ![d.fp] = Append(@, w + 1)]
       /\ e.name = d.name /\ e.fp = d.fp
  <2>1. d \in DiskType
    BY <1>8 DEF DiskOK
  <2> QED BY <1>7, <2>1 DEF DiskType
<1>11. Rolling(e, w + 1)
  BY <1>3, <1>5, <1>9, <1>10, WriteRolling
<1> QED BY <1>2, <1>6, <1>11

(* Closing the handle.                                                     *)
LEMMA CloseRolling ==
    ASSUME NEW w \in Nat, NEW d, Rolling(d, w), NEW e, e = [d EXCEPT !.fp = Closed]
    PROVE  Rolling(e, w)
<1>1. d \in DiskType
  BY DEF Rolling, DiskOK
<1>2. /\ e \in DiskType /\ e.content = d.content /\ e.name = d.name /\ e.fp = Closed
  BY <1>1 DEF DiskType, Closed
<1>3. Len(d.content) \in Nat
  BY <1>1 DEF DiskType
<1>4. DiskOK(e, w)
  <2>1. /\ d.name \in [Names -> 0..Len(d.content)]
        /\ \A f \in 1..Len(d.content) : Len(d.content[f]) <= w
    BY DEF Rolling, DiskOK
  <2>2. e.fp \in 0..Len(e.content)
    BY <1>2, <1>3 DEF Closed
  <2> QED BY <1>2, <2>1, <2>2 DEF DiskOK
<1>5. Ordered(e.content, w) /\ Named(e)
  BY <1>2 DEF Rolling, Named
<1> QED BY <1>4, <1>5 DEF Rolling

(* No step breaks the order of the files.                                  *)
LEMMA RollStep == TypeInv /\ RollInv /\ [Next]_vars => RollInv'
<1> SUFFICES ASSUME TypeInv, RollInv, [Next]_vars, removals' = MaxRemovals
             PROVE  Rolling(disk', written')
  BY DEF RollInv
<1>1. /\ removals \in 0..MaxRemovals /\ MaxRemovals \in Nat /\ written \in Nat
  BY LogAssumption DEF TypeInv
<1>2. ~RemoveLog
  <2>1. RemoveLog => removals' = removals - 1
    BY DEF RemoveLog
  <2> QED BY <1>1, <2>1
<1>3. removals' = removals
  BY <1>2 DEF Next, log_log, Free, zclient_init, Measure, Reopen, Look, Fetch, Scan, Overlap, vars
<1>4. Rolling(disk, written)
  BY <1>3 DEF RollInv
<1>5. CASE log_log
  BY <1>4, <1>5, LogRolling DEF log_log
<1>6. CASE Free
  <2>1. PICK e : e = disk' /\ e = [disk EXCEPT !.fp = Closed]
    BY <1>6 DEF Free, log_free
  <2>2. Rolling(e, written)
    BY <1>1, <1>4, <2>1, CloseRolling
  <2> QED BY <1>6, <2>1, <2>2 DEF Free
<1>7. CASE zclient_init
  <2>1. CASE disk' = log_initialize(disk)
    <3>1. PICK d, e : d = [disk EXCEPT !.fp = Closed] /\ e = disk'
      OBVIOUS
    <3>2. e = OpenLog(d)
      BY <2>1, <3>1 DEF log_initialize
    <3>3. Rolling(d, written)
      BY <1>1, <1>4, <3>1, CloseRolling
    <3>4. Rolling(e, written)
      BY <1>1, <3>2, <3>3, OpenRolling
    <3> QED BY <1>7, <3>1, <3>4 DEF zclient_init
  <2>2. CASE disk' = disk
    BY <1>4, <1>7, <2>2 DEF zclient_init
  <2> QED BY <1>7, <2>1, <2>2 DEF zclient_init
<1>8. CASE Measure \/ Reopen \/ Look \/ Fetch \/ Scan \/ Overlap \/ UNCHANGED vars
  <2>1. disk' = disk /\ written' = written
    BY <1>8 DEF Measure, Reopen, Look, Fetch, Scan, Overlap, vars
  <2> QED BY <1>4, <2>1
<1> QED BY <1>2, <1>5, <1>6, <1>7, <1>8 DEF Next

LEMMA RollInit == Init => RollInv
<1> SUFFICES ASSUME Init PROVE Rolling(disk, written)
  BY DEF RollInv
<1>1. DiskOK(disk, written)
  BY TypeInit DEF TypeInv
<1>2. disk.content = <<>> /\ written = 0 /\ disk.fp = Closed
  BY DEF Init
<1>3. \A n \in Names : disk.name[n] = Closed
  BY DEF Init
<1>4. Len(disk.content) = 0
  BY <1>2
<1>5. Ordered(disk.content, written)
  BY <1>2, <1>4 DEF Ordered, Runs, Within, OldestFirst, NoGap, Everything, Full, EndsWith
<1>6. Named(disk)
  <2>1. \A n \in Names : n \in Nat
    BY LogAssumption DEF Names
  <2> QED BY <1>2, <1>3, <1>4, <2>1 DEF Named, Closed
<1> QED BY <1>1, <1>5, <1>6 DEF Rolling

LEMMA RollInvariant == Spec => [](TypeInv /\ RollInv)
<1>1. Init => TypeInv /\ RollInv
  BY TypeInit, RollInit
<1>2. TypeInv /\ RollInv /\ [Next]_vars => (TypeInv /\ RollInv)'
  BY TypeStep, RollStep
<1> QED BY <1>1, <1>2, PTL DEF Spec

(* What the named files hold: the lines of the newest maxRollingLogFile    *)
(* files and one.                                                          *)
LEMMA KeptFiles ==
    ASSUME NEW k \in Nat, k = Len(disk.content),
           \A n \in Names : disk.name[n] = IF n < k THEN k - n ELSE 0, NEW x
    PROVE  x \in Kept <=> \E f \in 1..k : k - f \in Names /\ x \in ToSet(disk.content[f])
<1>1. \A n \in Names : n \in Nat
  BY LogAssumption DEF Names
<1>2. x \in Kept <=> \E n \in Names : x \in Lines(disk.name[n])
  BY DEF Kept
<1>3. ASSUME NEW n \in Names, x \in Lines(disk.name[n])
      PROVE  \E f \in 1..k : k - f \in Names /\ x \in ToSet(disk.content[f])
  <2>1. disk.name[n] # 0 /\ x \in ToSet(disk.content[disk.name[n]])
    BY <1>3 DEF Lines, Closed
  <2>2. n \in Nat /\ n < k /\ disk.name[n] = k - n
    BY <1>1, <2>1
  <2>3. k - n \in 1..k /\ k - (k - n) = n
    BY <2>2
  <2> QED BY <2>1, <2>2, <2>3
<1>4. ASSUME NEW f \in 1..k, k - f \in Names, x \in ToSet(disk.content[f])
      PROVE  \E n \in Names : x \in Lines(disk.name[n])
  <2>1. PICK n : n = k - f
    OBVIOUS
  <2>2. n \in Names /\ n \in Nat /\ n < k /\ k - n = f
    BY <1>1, <1>4, <2>1
  <2>3. disk.name[n] = f
    BY <2>2
  <2>4. x \in Lines(disk.name[n])
    BY <1>4, <2>3 DEF Lines, Closed
  <2> QED BY <2>2, <2>4
<1> QED BY <1>2, <1>3, <1>4

(* log_log's rolling, as long as nobody removes a file, for any size and   *)
(* number of files: they hold the end of what was written, in order and    *)
(* without a gap, and a line is given up only when every file is there and *)
(* every rolled one full.                                                  *)
THEOREM RollDropsOnlyOldest == Spec => []OnlyOldestDropped
<1>1. TypeInv /\ RollInv => OnlyOldestDropped
  <2> SUFFICES ASSUME TypeInv, RollInv, removals = MaxRemovals
               PROVE  OnlyOldestDropped
    BY DEF OnlyOldestDropped
  <2>1. Rolling(disk, written) /\ written \in Nat
    BY LogAssumption DEF RollInv, TypeInv
  <2>2. PICK k : k = Len(disk.content)
    OBVIOUS
  <2>3. /\ k \in Nat
        /\ \A n \in Names : n \in Nat /\ (n > 0 => n - 1 \in Names)
        /\ \A n \in Names : disk.name[n] = IF n < k THEN k - n ELSE 0
    BY <2>1, <2>2, RollingFacts
  <2>4. \A x : x \in Kept <=> \E f \in 1..k : k - f \in Names /\ x \in ToSet(disk.content[f])
    BY <2>2, <2>3, KeptFiles
  <2>5. Kept \subseteq 1..written
    <3>1. \A f \in 1..k : ToSet(disk.content[f]) \subseteq 1..written
      BY <2>1, <2>2 DEF Rolling, Ordered, Within
    <3> QED BY <2>4, <3>1
  <2>6. ASSUME NEW x \in Kept, NEW y \in x..written PROVE y \in Kept
    <3>1. PICK f \in 1..k : k - f \in Names /\ x \in ToSet(disk.content[f])
      BY <2>4
    <3>2. PICK g \in f..k : y \in ToSet(disk.content[g])
      BY <2>1, <2>2, <3>1 DEF Rolling, Ordered, NoGap
    <3>3. g \in 1..k /\ k - g <= k - f /\ k - g \in Nat
      BY <2>3
    <3>4. k - g \in Names
      BY <3>1, <3>3, LogAssumption DEF Names
    <3> QED BY <2>4, <3>2, <3>3, <3>4
  <2>7. ASSUME NEW n \in Names, NEW m \in Names, n < m,
               NEW x \in Lines(disk.name[n]), NEW y \in Lines(disk.name[m])
        PROVE  y < x
    <3>1. /\ disk.name[n] # 0 /\ x \in ToSet(disk.content[disk.name[n]])
          /\ disk.name[m] # 0 /\ y \in ToSet(disk.content[disk.name[m]])
      BY DEF Lines, Closed
    <3>2. n \in Nat /\ m \in Nat
      BY <2>3
    <3>3. n < k /\ m < k /\ disk.name[n] = k - n /\ disk.name[m] = k - m
      BY <2>3, <3>1
    <3>4. PICK f, g : f = k - m /\ g = k - n
      OBVIOUS
    <3>5. f \in 1..k /\ g \in 1..k /\ f < g
      BY <2>3, <2>7, <3>2, <3>3, <3>4
    <3>6. x \in ToSet(disk.content[g]) /\ y \in ToSet(disk.content[f])
      BY <3>1, <3>3, <3>4
    <3> QED BY <2>1, <2>2, <3>5, <3>6 DEF Rolling, Ordered, OldestFirst
  <2>8. ASSUME NEW n \in Names, disk.name[n] # Closed,
               NEW i \in 1..(Len(disk.content[disk.name[n]]) - 1)
        PROVE  disk.content[disk.name[n]][i + 1] = disk.content[disk.name[n]][i] + 1
    <3>1. disk.name[n] \in 1..k
      BY <2>3, <2>8 DEF Closed
    <3> QED BY <2>1, <2>2, <3>1 DEF Rolling, Ordered, Runs
  <2>9. ASSUME Kept # 1..written, NEW n \in Names \ {0}
        PROVE  disk.name[n] # Closed /\ Bytes(disk.name[n]) > maxLogFileSize
    <3>1. PICK y \in 1..written : y \notin Kept
      BY <2>5, <2>9
    <3>2. PICK g \in 1..k : y \in ToSet(disk.content[g])
      BY <2>1, <2>2 DEF Rolling, Ordered, Everything
    <3>3. k - g \notin Names
      BY <2>4, <3>1, <3>2
    <3>4. n \in Nat /\ n > 0 /\ n <= maxRollingLogFile
      BY LogAssumption DEF Names
    <3>5. n < k - g
      BY <2>3, <3>3, <3>4, LogAssumption DEF Names
    <3>6. n < k /\ k - n \in 1..(k - 1)
      BY <2>3, <3>4, <3>5
    <3>7. disk.name[n] = k - n
      BY <2>3, <3>6
    <3>8. LineBytes * Len(disk.content[k - n]) > maxLogFileSize
      BY <2>1, <2>2, <3>6 DEF Rolling, Ordered, Full
    <3> QED BY <3>6, <3>7, <3>8 DEF Bytes, Closed
  <2> QED BY <2>5, <2>6, <2>7, <2>8, <2>9 DEF OnlyOldestDropped
<1> QED BY <1>1, RollInvariant, PTL

(* get_cloud_log, as long as nobody removes a file: a file it scans was    *)
(* the current one when it looked at its end, since a rolled one is longer *)
(* than it accepts, however often the log was rolled since it opened it;   *)
(* only a roll between the opening and the look of one upload escapes it.  *)
THEOREM RollIsNoticed == Spec => RolledFileNoticed
<1> DEFINE Noticed == reader.at # "scan" /\ reader'.at = "scan" /\ removals = MaxRemovals
                         => \/ reader'.file = disk.name[0]
                            \/ reader.at = "opened" /\ reader'.new > maxLogFileSize
<1>1. TypeInv /\ RollInv /\ [Next]_vars => [Noticed]_vars
  <2> SUFFICES ASSUME TypeInv, RollInv, [Next]_vars, reader.at # "scan",
                      reader'.at = "scan", removals = MaxRemovals
               PROVE  \/ reader'.file = disk.name[0]
                      \/ reader.at = "opened" /\ reader'.new > maxLogFileSize
    OBVIOUS
  <2>1. Rolling(disk, written) /\ written \in Nat
    BY LogAssumption DEF RollInv, TypeInv
  <2>2. PICK k : k = Len(disk.content)
    OBVIOUS
  <2>3. k \in Nat /\ disk.name[0] = k
    BY <2>1, <2>2, RollingFacts
  <2>4. reader \in ReaderType /\ reader.file \in 0..k
    BY <2>2 DEF TypeInv, ReaderOK
  <2>8. ASSUME reader.file \in 1..k
        PROVE  /\ Bytes(reader.file) \in Nat
               /\ reader.file = k \/ Bytes(reader.file) > maxLogFileSize
    <3>1. Bytes(reader.file) \in Nat
      <4>1. Bytes(reader.file) \in Positions
        BY <2>2, <2>8, FileBytes DEF TypeInv
      <4> QED BY <4>1 DEF Positions
    <3>2. ASSUME reader.file # k PROVE Bytes(reader.file) > maxLogFileSize
      <4>1. reader.file \in 1..(k - 1)
        BY <2>3, <2>8, <3>2
      <4> QED BY <2>1, <2>2, <4>1 DEF Rolling, Ordered, Full, Bytes
    <3> QED BY <3>1, <3>2
  <2>5. Measure \/ Look
    <3>1. CASE log_log \/ Free \/ RemoveLog \/ UNCHANGED vars
      BY <3>1 DEF log_log, Free, RemoveLog, vars
    <3>2. CASE zclient_init
      <4>1. CASE Tangle
        BY <4>1 DEF Tangle
      <4>2. ASSUME NEW f, initialize_cloud_log(f) PROVE reader'.at = "idle"
        BY <2>4, <4>2 DEF initialize_cloud_log, ReaderType
      <4> QED BY <3>2, <4>1, <4>2 DEF zclient_init
    <3>3. CASE Fetch
      <4>1. reader'.at = "idle"
        BY <2>4, <3>3 DEF Fetch, ReaderType
      <4> QED BY <4>1
    <3>4. CASE Scan
      BY <3>4 DEF Scan
    <3>5. CASE Reopen
      <4>1. reader'.at \in {"idle", "opened"}
        BY <2>4, <3>5 DEF Reopen, ReaderType
      <4> QED BY <4>1
    <3>6. CASE Overlap
      BY <3>6 DEF Overlap, Tangle
    <3> QED BY <3>1, <3>2, <3>3, <3>4, <3>5, <3>6 DEF Next
  <2>6. CASE Measure
    <3>1. reader.file \in 1..k
      BY <2>3, <2>4, <2>6 DEF Measure, Closed
    <3>2. ~TooLong(Bytes(reader.file))
      <4>1. TooLong(Bytes(reader.file)) => reader'.at = "reopen"
        BY <2>4, <2>6 DEF Measure, ReaderType
      <4> QED BY <4>1
    <3>3. reader'.file = reader.file
      BY <2>4, <2>6, <3>2 DEF Measure, ReaderType
    <3>4. reader.file = k
      <4>1. ~(Bytes(reader.file) > maxLogFileSize - Margin)
        BY <3>2 DEF TooLong
      <4>2. ~(Bytes(reader.file) > maxLogFileSize)
        BY <4>1, <2>8, <3>1, LogAssumption
      <4> QED BY <2>8, <3>1, <4>2
    <3> QED BY <2>3, <3>3, <3>4
  <2>7. CASE Look
    <3>1. reader.file \in 1..k
      BY <2>3, <2>4, <2>7 DEF Look, TypeInv, ReaderOK, Closed
    <3>2. /\ reader.at = "opened" /\ reader'.file = reader.file
          /\ reader'.new = Bytes(reader.file)
      BY <2>4, <2>7 DEF Look, ReaderType
    <3>3. reader.file = k \/ Bytes(reader.file) > maxLogFileSize
      BY <2>8, <3>1
    <3> QED BY <2>3, <3>2, <3>3
  <2> QED BY <2>5, <2>6, <2>7
<1> QED BY <1>1, RollInvariant, PTL DEF Spec, RolledFileNoticed

-----------------------------------------------------------------------------
(* Uploading.                                                              *)

(* The lines of a file are numbered one after the other, and the newest    *)
(* file ends with the last line written.                                   *)
Chain(c, w) ==
    /\ \A f \in 1..Len(c) : \A i, j \in 1..Len(c[f]) : c[f][j] = c[f][i] + (j - i)
    /\ \A f \in 1..Len(c) : \A i \in 1..Len(c[f]) : c[f][i] \in 1..w
    /\ EndsWith(c, w)
Handles(d) == d.name[0] \in {Closed, Len(d.content)} /\ d.fp \in {Closed, Len(d.content)}
ChainInv == Chain(disk.content, written) /\ Handles(disk)

(* Files only grow.                                                        *)
Grown(c, e) == Len(c) <= Len(e) /\ \A f \in 1..Len(c) : Len(c[f]) <= Len(e[f])

(* A new file, and a line at the end of the newest, keep the numbers.      *)
LEMMA ChainNewFile ==
    ASSUME NEW c \in Seq(Seq(Nat)), NEW w \in Nat, Chain(c, w), NEW e, e = Append(c, <<>>)
    PROVE  Chain(e, w) /\ Grown(c, e)
<1>1. PICK k : k = Len(c) /\ k \in Nat
  OBVIOUS
<1>2. /\ e \in Seq(Seq(Nat)) /\ Len(e) = k + 1
      /\ \A f \in 1..k : e[f] = c[f]
      /\ e[k + 1] = <<>>
  BY <1>1, NewFile
<1>3. Len(e[k + 1]) = 0
  BY <1>2
<1>4. \A f \in 1..k : Len(c[f]) \in Nat
  BY <1>1
<1>5. Grown(c, e)
  BY <1>1, <1>2, <1>4 DEF Grown
<1>6. ASSUME NEW f \in 1..Len(e), NEW i \in 1..Len(e[f])
      PROVE  f \in 1..Len(c) /\ e[f] = c[f]
  <2>1. CASE f = k + 1
    <3>1. i \in 1..0
      BY <1>3, <2>1
    <3> QED BY <3>1
  <2>2. CASE f # k + 1
    <3>1. f \in 1..k
      BY <1>1, <1>2, <2>2
    <3> QED BY <1>1, <1>2, <3>1
  <2> QED BY <2>1, <2>2
<1>7. ASSUME NEW f \in 1..Len(e), NEW i \in 1..Len(e[f]), NEW j \in 1..Len(e[f])
      PROVE  e[f][j] = e[f][i] + (j - i) /\ e[f][i] \in 1..w
  <2>1. f \in 1..Len(c) /\ e[f] = c[f]
    BY <1>6
  <2> QED BY <2>1 DEF Chain
<1>8. EndsWith(e, w)
  BY <1>2, <1>3 DEF EndsWith
<1>9. \A f \in 1..Len(e) : \A i \in 1..Len(e[f]) : e[f][i] \in 1..w
  BY <1>7
<1>10. \A f \in 1..Len(e) : \A i, j \in 1..Len(e[f]) : e[f][j] = e[f][i] + (j - i)
  BY <1>7
<1> QED BY <1>5, <1>8, <1>9, <1>10 DEF Chain

LEMMA ChainNewLine ==
    ASSUME NEW c \in Seq(Seq(Nat)), NEW w \in Nat, Chain(c, w),
           NEW k \in Nat, k = Len(c), k > 0,
           NEW e, e = [c EXCEPT ![k] = Append(@, w + 1)]
    PROVE  Chain(e, w + 1) /\ Grown(c, e)
<1>1. PICK l : l = Len(c[k])
  OBVIOUS
<1>2. k \in 1..Len(c) /\ w + 1 \in Nat /\ c[k] \in Seq(Nat) /\ l \in Nat
  <2>1. k \in 1..Len(c) /\ w + 1 \in Nat
    OBVIOUS
  <2>2. c[k] \in Seq(Nat)
    BY <2>1
  <2>3. l \in Nat
    BY <1>1, <2>2
  <2> QED BY <2>1, <2>2, <2>3
<1>3. /\ e \in Seq(Seq(Nat)) /\ Len(e) = k
      /\ \A g \in 1..k : g # k => e[g] = c[g]
      /\ Len(e[k]) = l + 1
      /\ \A i \in 1..l : e[k][i] = c[k][i]
      /\ e[k][l + 1] = w + 1
  BY <1>1, <1>2, NewLine
<1>4. \A f \in 1..k : Len(c[f]) \in Nat
  OBVIOUS
<1>5. Grown(c, e)
  <2> SUFFICES ASSUME NEW f \in 1..k PROVE Len(c[f]) <= Len(e[f])
    BY <1>3 DEF Grown
  <2>1. CASE f = k
    BY <1>1, <1>2, <1>3, <2>1
  <2>2. CASE f # k
    BY <1>3, <1>4, <2>2
  <2> QED BY <2>1, <2>2
<1>6. l > 0 => c[k][l] = w
  BY <1>1, <1>2 DEF Chain, EndsWith
<1>7. PICK v : v = w - l /\ v \in Int
  BY <1>2
<1>8. \A i \in 1..(l + 1) : e[k][i] = v + i /\ e[k][i] \in 1..(w + 1)
  <2> SUFFICES ASSUME NEW i \in 1..(l + 1) PROVE e[k][i] = v + i /\ e[k][i] \in 1..(w + 1)
    OBVIOUS
  <2>1. CASE i = l + 1
    <3>1. e[k][i] = w + 1 /\ v + i = w + 1
      BY <1>2, <1>3, <1>7, <2>1
    <3>2. w + 1 \in 1..(w + 1)
      OBVIOUS
    <3> QED BY <3>1, <3>2
  <2>2. CASE i # l + 1
    <3>1. i \in 1..l /\ l \in 1..l /\ l > 0
      BY <1>2, <2>2
    <3>2. c[k][l] = c[k][i] + (l - i) /\ c[k][i] \in 1..w
      BY <1>1, <1>2, <3>1 DEF Chain
    <3>3. PICK x : x = e[k][i]
      OBVIOUS
    <3>4. x \in 1..w /\ w = x + (l - i) /\ l \in Nat /\ i \in Nat
      BY <1>2, <1>3, <1>6, <3>1, <3>2, <3>3
    <3>5. x = v + i
      BY <1>7, <3>4
    <3>6. x \in 1..(w + 1)
      BY <3>4
    <3> QED BY <3>3, <3>5, <3>6
  <2> QED BY <2>1, <2>2
<1>9. ASSUME NEW f \in 1..Len(e), f # k
      PROVE  f \in 1..Len(c) /\ e[f] = c[f]
  BY <1>3, <1>9
<1>10. EndsWith(e, w + 1)
  BY <1>3 DEF EndsWith
<1>11. ASSUME NEW f \in 1..Len(e), NEW i \in 1..Len(e[f])
       PROVE  e[f][i] \in 1..(w + 1)
  <2>1. CASE f = k
    <3>1. i \in 1..(l + 1)
      BY <1>3, <2>1
    <3> QED BY <1>8, <2>1, <3>1
  <2>2. CASE f # k
    <3>1. PICK x : x = e[f][i]
      OBVIOUS
    <3>2. x \in 1..w
      BY <1>9, <2>2, <3>1 DEF Chain
    <3>3. x \in 1..(w + 1)
      BY <3>2
    <3> QED BY <3>1, <3>3
  <2> QED BY <2>1, <2>2
<1>12. ASSUME NEW f \in 1..Len(e), NEW i \in 1..Len(e[f]), NEW j \in 1..Len(e[f])
       PROVE  e[f][j] = e[f][i] + (j - i)
  <2>1. CASE f = k
    <3>1. i \in 1..(l + 1) /\ j \in 1..(l + 1)
      BY <1>3, <2>1
    <3>2. e[k][i] = v + i /\ e[k][j] = v + j
      BY <1>8, <3>1
    <3>3. i \in Int /\ j \in Int /\ v + j = (v + i) + (j - i)
      BY <1>2, <1>7, <3>1
    <3> QED BY <2>1, <3>2, <3>3
  <2>2. CASE f # k
    BY <1>9, <2>2 DEF Chain
  <2> QED BY <2>1, <2>2
<1>13. \A f \in 1..Len(e) : \A i \in 1..Len(e[f]) : e[f][i] \in 1..(w + 1)
  BY <1>11
<1>14. \A f \in 1..Len(e) : \A i, j \in 1..Len(e[f]) : e[f][j] = e[f][i] + (j - i)
  BY <1>12
<1> QED BY <1>5, <1>10, <1>13, <1>14 DEF Chain

(* Opening the log keeps the lines and the handles.                        *)
LEMMA OpenChain ==
    ASSUME NEW w \in Nat, NEW d, DiskOK(d, w), Chain(d.content, w), Handles(d),
           NEW e, e = OpenLog(d)
    PROVE  /\ Chain(e.content, w) /\ Handles(e) /\ e.fp = Len(e.content)
           /\ Grown(d.content, e.content)
<1>1. /\ d \in DiskType /\ d.content \in Seq(Seq(Nat)) /\ 0 \in Names
      /\ d.name \in [Names -> Nat]
  BY LogAssumption DEF DiskOK, DiskType, Names
<1>2. /\ d.name[0] # Closed =>
            e.content = d.content /\ e.name = d.name /\ e.fp = d.name[0]
      /\ d.name[0] = Closed =>
            /\ e.content = Append(d.content, <<>>)
            /\ e.name = [d.name EXCEPT ![0] = Len(d.content) + 1]
            /\ e.fp = Len(d.content) + 1
  BY <1>1, OpenOutcome
<1>3. CASE d.name[0] # Closed
  <2>1. d.name[0] = Len(d.content)
    BY <1>3 DEF Handles
  <2>2. Grown(d.content, d.content)
    <3>1. PICK c : c = d.content /\ c \in Seq(Seq(Nat))
      BY <1>1
    <3>2. Len(c) \in Nat /\ \A f \in 1..Len(c) : Len(c[f]) \in Nat
      BY <3>1
    <3>3. Grown(c, c)
      BY <3>2 DEF Grown
    <3> QED BY <3>1, <3>3
  <2> QED BY <1>2, <1>3, <2>1, <2>2 DEF Handles
<1>4. CASE d.name[0] = Closed
  <2>1. PICK c, b : c = d.content /\ b = e.content
    OBVIOUS
  <2>2. c \in Seq(Seq(Nat)) /\ Chain(c, w) /\ b = Append(c, <<>>)
    BY <1>1, <1>2, <1>4, <2>1
  <2>3. Chain(b, w) /\ Grown(c, b)
    BY <2>2, ChainNewFile
  <2>4. Len(b) = Len(c) + 1
    BY <2>2, NewFile
  <2>5. e.name[0] = Len(c) + 1 /\ e.fp = Len(c) + 1
    BY <1>1, <1>2, <1>4, <2>1
  <2> QED BY <2>1, <2>3, <2>4, <2>5 DEF Handles
<1> QED BY <1>3, <1>4

(* A roll does, too, with a new file.                                      *)
LEMMA RollChain ==
    ASSUME NEW w \in Nat, NEW d, DiskOK(d, w), Chain(d.content, w), NEW e, e = Roll(d)
    PROVE  /\ Chain(e.content, w) /\ Handles(e) /\ e.fp = Len(e.content)
           /\ Grown(d.content, e.content)
<1>1. d \in DiskType /\ d.content \in Seq(Seq(Nat)) /\ 0 \in Names
  BY LogAssumption DEF DiskOK, DiskType, Names
<1>2. PICK c, b : c = d.content /\ b = e.content
  OBVIOUS
<1>3. /\ b = Append(c, <<>>)
      /\ e.name = [RenameAll(d.name) EXCEPT ![0] = Len(c) + 1]
      /\ e.fp = Len(c) + 1
  BY <1>1, <1>2, RollOutcome
<1>4. c \in Seq(Seq(Nat)) /\ Chain(c, w)
  BY <1>1, <1>2
<1>5. Chain(b, w) /\ Grown(c, b)
  BY <1>3, <1>4, ChainNewFile
<1>6. Len(b) = Len(c) + 1
  BY <1>3, <1>4, NewFile
<1>7. e.name[0] = Len(c) + 1
  BY <1>1, <1>3 DEF RenameAll
<1> QED BY <1>2, <1>3, <1>5, <1>6, <1>7 DEF Handles

(* Growing twice, and not at all.                                          *)
LEMMA GrownAgain ==
    ASSUME NEW a \in Seq(Seq(Nat)), NEW b \in Seq(Seq(Nat)), NEW c \in Seq(Seq(Nat)),
           Grown(a, b), Grown(b, c)
    PROVE  Grown(a, c)
<1>1. /\ Len(a) \in Nat /\ Len(b) \in Nat /\ Len(c) \in Nat
      /\ Len(a) <= Len(b) /\ Len(b) <= Len(c)
  BY DEF Grown
<1>2. ASSUME NEW f \in 1..Len(a) PROVE Len(a[f]) <= Len(c[f])
  <2>1. f \in 1..Len(b) /\ f \in 1..Len(c)
    BY <1>1
  <2>2. a[f] \in Seq(Nat) /\ b[f] \in Seq(Nat) /\ c[f] \in Seq(Nat)
    BY <2>1
  <2>3. Len(a[f]) \in Nat /\ Len(b[f]) \in Nat /\ Len(c[f]) \in Nat
    BY <2>2
  <2>4. Len(a[f]) <= Len(b[f]) /\ Len(b[f]) <= Len(c[f])
    BY <2>1 DEF Grown
  <2> QED BY <2>3, <2>4, SMTT(30)
<1> QED BY <1>1, <1>2 DEF Grown

LEMMA GrownSame ==
    ASSUME NEW c \in Seq(Seq(Nat))
    PROVE  Grown(c, c)
<1>1. Len(c) \in Nat /\ \A f \in 1..Len(c) : Len(c[f]) \in Nat
  OBVIOUS
<1> QED BY <1>1 DEF Grown

(* log_log writes to the newest file, also after a removal: a handle to    *)
(* an older file never stays.                                              *)
LEMMA LogChain ==
    ASSUME TypeInv, ChainInv, log_log
    PROVE  /\ Chain(disk'.content, written + 1) /\ Handles(disk')
           /\ Grown(disk.content, disk'.content)
<1>1. PICK d : /\ DiskOK(d, written) /\ d.fp # Closed
               /\ disk' = [d EXCEPT !.content[d.fp] = Append(@, written + 1)]
               /\ \E opened :
                     /\ opened = IF disk.fp # Closed /\ Linked(disk.fp) THEN disk
                                 ELSE OpenLog(disk)
                     /\ d = IF (IF disk.fp = Closed THEN 0 ELSE Bytes(disk.fp))
                                  > maxLogFileSize
                            THEN Roll(opened) ELSE opened
  BY LogStep
<1>2. PICK opened : /\ (opened = disk /\ disk.fp # Closed) \/ opened = OpenLog(disk)
                    /\ d = Roll(opened) \/ d = opened
  BY <1>1
<1>3. PICK w : w = written
  OBVIOUS
<1>4. w \in Nat /\ DiskOK(disk, w) /\ Chain(disk.content, w) /\ Handles(disk)
  BY <1>3, LogAssumption DEF TypeInv, ChainInv
<1>5. disk.content \in Seq(Seq(Nat))
  BY <1>4 DEF DiskOK, DiskType
<1>6. /\ DiskOK(opened, w) /\ Chain(opened.content, w) /\ Handles(opened)
      /\ opened.fp = Len(opened.content) /\ Grown(disk.content, opened.content)
  <2>1. CASE opened = disk /\ disk.fp # Closed
    <3>1. Grown(disk.content, disk.content)
      BY <1>5, GrownSame
    <3>2. disk.fp = Len(disk.content)
      BY <1>4, <2>1 DEF Handles
    <3> QED BY <1>4, <2>1, <3>1, <3>2
  <2>2. CASE opened = OpenLog(disk)
    BY <1>4, <2>2, OpenChain, OpenOK
  <2> QED BY <1>2, <2>1, <2>2
<1>7. opened.content \in Seq(Seq(Nat)) /\ d.content \in Seq(Seq(Nat)) /\ DiskOK(d, w)
  BY <1>1, <1>3, <1>6 DEF DiskOK, DiskType
<1>8. /\ Chain(d.content, w) /\ Handles(d) /\ d.fp = Len(d.content)
      /\ Grown(disk.content, d.content)
  <2>1. CASE d = opened
    BY <1>6, <2>1
  <2>2. CASE d = Roll(opened)
    <3>1. /\ Chain(d.content, w) /\ Handles(d) /\ d.fp = Len(d.content)
          /\ Grown(opened.content, d.content)
      BY <1>4, <1>6, <2>2, RollChain
    <3>2. Grown(disk.content, d.content)
      BY <1>5, <1>6, <1>7, <3>1, GrownAgain
    <3> QED BY <3>1, <3>2
  <2> QED BY <1>2, <2>1, <2>2
<1>9. PICK e : e = disk'
  OBVIOUS
<1>10. e = [d EXCEPT !.content[d.fp] = Append(@, w + 1)]
  BY <1>1, <1>3, <1>9
<1>11. /\ e.content = [d.content EXCEPT ![d.fp] = Append(@, w + 1)]
       /\ e.name = d.name /\ e.fp = d.fp
  <2>1. d \in DiskType
    BY <1>7 DEF DiskOK
  <2> QED BY <1>10, <2>1 DEF DiskType
<1>12. PICK c, b, k : c = d.content /\ b = e.content /\ k = d.fp
  OBVIOUS
<1>13. c \in Seq(Seq(Nat)) /\ Chain(c, w) /\ k = Len(c) /\ k \in Nat /\ k > 0
  <2>1. c \in Seq(Seq(Nat)) /\ Chain(c, w) /\ k = Len(c) /\ k # 0
    BY <1>1, <1>7, <1>8, <1>12 DEF Closed
  <2> QED BY <2>1
<1>14. b = [c EXCEPT ![k] = Append(@, w + 1)]
  BY <1>11, <1>12
<1>15. Chain(b, w + 1) /\ Grown(c, b)
  BY <1>4, <1>13, <1>14, ChainNewLine
<1>16. b \in Seq(Seq(Nat)) /\ Len(b) = Len(c)
  <2>1. k \in 1..Len(c) /\ w + 1 \in Nat
    BY <1>4, <1>13
  <2> QED BY <1>13, <1>14, <2>1, NewLine
<1>17. Handles(e)
  BY <1>8, <1>11, <1>12, <1>16 DEF Handles
<1>18. Grown(disk.content, b)
  BY <1>5, <1>8, <1>12, <1>13, <1>15, <1>16, GrownAgain
<1> QED BY <1>3, <1>9, <1>12, <1>15, <1>17, <1>18

(* Nor does any other step disturb the lines, or make a file shorter.      *)
LEMMA ChainStep ==
    ASSUME TypeInv, ChainInv, [Next]_vars
    PROVE  ChainInv' /\ Grown(disk.content, disk'.content)
<1>1. /\ written \in Nat /\ DiskOK(disk, written) /\ Chain(disk.content, written)
      /\ Handles(disk) /\ disk \in DiskType /\ disk.content \in Seq(Seq(Nat))
  BY LogAssumption DEF TypeInv, ChainInv, DiskOK, DiskType
<1>2. Grown(disk.content, disk.content)
  BY <1>1, GrownSame
<1>3. CASE log_log
  BY <1>3, LogChain DEF log_log, ChainInv
<1>4. ASSUME NEW e, \/ e = [disk EXCEPT !.fp = Closed]
                    \/ e = [disk EXCEPT !.name[0] = Closed]
      PROVE  DiskOK(e, written) /\ e.content = disk.content /\ Handles(e)
  <2>1. DiskOK(e, written) /\ e.content = disk.content
    BY <1>1, <1>4, ClosedOK
  <2>2. 0 \in Names
    BY LogAssumption DEF Names
  <2>3. e.fp \in {Closed, disk.fp} /\ e.name[0] \in {Closed, disk.name[0]}
    BY <1>1, <1>4, <2>2 DEF DiskType
  <2> QED BY <1>1, <2>1, <2>3 DEF Handles
<1>5. CASE Free \/ RemoveLog
  <2>1. /\ \/ disk' = [disk EXCEPT !.fp = Closed]
           \/ disk' = [disk EXCEPT !.name[0] = Closed]
        /\ written' = written
    BY <1>5 DEF Free, RemoveLog, log_free
  <2>2. disk'.content = disk.content /\ Handles(disk')
    BY <1>4, <2>1
  <2> QED BY <1>1, <1>2, <2>1, <2>2 DEF ChainInv
<1>6. CASE zclient_init
  <2>1. CASE disk' = log_initialize(disk)
    <3>1. PICK d, e : d = [disk EXCEPT !.fp = Closed] /\ e = disk'
      OBVIOUS
    <3>2. DiskOK(d, written) /\ d.content = disk.content /\ Handles(d)
      BY <1>4, <3>1
    <3>3. e = OpenLog(d)
      BY <2>1, <3>1 DEF log_initialize
    <3>4. Chain(e.content, written) /\ Handles(e) /\ Grown(d.content, e.content)
      BY <1>1, <3>2, <3>3, OpenChain
    <3> QED BY <1>6, <3>1, <3>2, <3>4 DEF zclient_init, ChainInv
  <2>2. CASE disk' = disk
    BY <1>1, <1>2, <1>6, <2>2 DEF zclient_init, ChainInv
  <2> QED BY <1>6, <2>1, <2>2 DEF zclient_init
<1>7. CASE Measure \/ Reopen \/ Look \/ Fetch \/ Scan \/ Overlap \/ UNCHANGED vars
  <2>1. disk' = disk /\ written' = written
    BY <1>7 DEF Measure, Reopen, Look, Fetch, Scan, Overlap, vars
  <2> QED BY <1>1, <1>2, <2>1 DEF ChainInv
<1> QED BY <1>3, <1>5, <1>6, <1>7 DEF Next

(* Where an upload starts and how far it goes: get_last_lines looked at a   *)
(* file of e lines of which the first a were uploaded.  The oldest byte it  *)
(* may take is in line s + 1, the one it starts at in line q + 1; the first *)
(* whole line it uploads is First(pos, q), or one later if that is blank.   *)
Aim(old, end) == Max({old, end - MAXIMUM_READ})
InLine(p, n) == LineBytes * n <= p /\ p < LineBytes * n + LineBytes
First(pos, q) == IF pos = LineBytes * q + (LineBytes - 1) THEN q + 2 ELSE q + 1
Span(old, end, pos, count, a, e, s, q) ==
    /\ old = LineBytes * a /\ end = LineBytes * e /\ a <= e
    /\ InLine(Aim(old, end), s) /\ InLine(pos, q)
    /\ q <= e /\ s <= e /\ s < First(pos, q)
    /\ \/ First(pos, q) = s + 1 /\ q + count >= e - 1
       \/ /\ q + count >= e
          /\ First(pos, q) = s + 2 \/ First(pos, q) = e - NUM_LINES_TO_READ + 2
Reach(r, l) ==
    \E a, e, s, q \in 0..l : Span(r.old, r.end, r.pos, r.count, a, e, s, q)

(* A line has a byte and its newline, and the buffer of fgets one for a    *)
(* byte and one for its end.                                               *)
LEMMA LineLength ==
    /\ LineBytes \in Nat /\ LineBytes > 0 /\ LineBytes > 1
    /\ LINE_SIZE \in Nat /\ LINE_SIZE > 1
BY LogAssumption

(* Multiples of the length of a line, and division by it.                  *)
LEMMA MultipleOrder ==
    ASSUME NEW a \in Nat, NEW b \in Nat, NEW c \in Nat, c > 0
    PROVE  (c * a <= c * b) <=> (a <= b)
OBVIOUS

LEMMA MultipleNext ==
    ASSUME NEW a \in Nat, NEW c \in Nat
    PROVE  c * a \in Nat /\ c * (a + 1) = c * a + c
OBVIOUS

LEMMA Quotient ==
    ASSUME NEW a \in Nat, NEW b \in Nat, NEW c \in Nat, NEW r \in Nat, r < c, a = c * b + r
    PROVE  a \div c = b /\ a % c = r
OBVIOUS

LEMMA Division ==
    ASSUME NEW a \in Nat, NEW b \in Nat, b > 0
    PROVE  a \div b \in Nat /\ (a \div b) * b <= a /\ a < (a \div b) * b + b
OBVIOUS

LEMMA Multiples ==
    ASSUME NEW a \in Nat, NEW b \in Nat
    PROVE  /\ LineBytes * a \in Nat
           /\ (LineBytes * a <= LineBytes * b) <=> (a <= b)
           /\ LineBytes * (a + 1) = LineBytes * a + LineBytes
           /\ (LineBytes * a) % LineBytes = 0
<1>1. LineBytes \in Nat /\ LineBytes > 0
  BY LineLength, Zenon
<1>2. (LineBytes * a <= LineBytes * b) <=> (a <= b)
  BY <1>1, MultipleOrder
<1>3. LineBytes * a \in Nat /\ LineBytes * (a + 1) = LineBytes * a + LineBytes
  BY <1>1, MultipleNext
<1>4. (LineBytes * a) % LineBytes = 0
  <2>1. PICK x : x = LineBytes * a
    OBVIOUS
  <2>2. x \in Nat /\ x = LineBytes * a + 0 /\ 0 < LineBytes
    BY <1>1, <1>3, <2>1
  <2> QED BY <1>1, <2>1, <2>2, Quotient
<1> QED BY <1>2, <1>3, <1>4

(* Every byte is in one line.                                              *)
LEMMA LineOf ==
    ASSUME NEW p \in Nat
    PROVE  p \div LineBytes \in Nat /\ InLine(p, p \div LineBytes)
<1>1. LineBytes \in Nat /\ LineBytes > 0
  BY LineLength, Zenon
<1>2. PICK q : q = p \div LineBytes
  OBVIOUS
<1>3. q \in Nat /\ q * LineBytes <= p /\ p < q * LineBytes + LineBytes
  BY <1>1, <1>2, Division
<1>4. q * LineBytes = LineBytes * q
  BY <1>1, <1>3
<1> QED BY <1>2, <1>3, <1>4 DEF InLine

LEMMA LineUnique ==
    ASSUME NEW p \in Nat, NEW q \in Nat, InLine(p, q)
    PROVE  p \div LineBytes = q /\ p % LineBytes = p - LineBytes * q
<1>1. LineBytes \in Nat /\ LineBytes > 0
  BY LineLength, Zenon
<1>2. PICK r, c : r = p - LineBytes * q /\ c = LineBytes
  OBVIOUS
<1>3. LineBytes * q \in Nat
  BY Multiples
<1>4. r \in Nat /\ r < LineBytes /\ p = LineBytes * q + r
  BY <1>1, <1>2, <1>3 DEF InLine
<1>5. c \in Nat /\ r < c /\ p = c * q + r
  BY <1>1, <1>2, <1>4
<1>6. p \div c = q /\ p % c = r
  BY <1>4, <1>5, Quotient
<1> QED BY <1>2, <1>6

(* A byte in a later line is later.                                        *)
LEMMA LaterLine ==
    ASSUME NEW p \in Nat, NEW q \in Nat, NEW n \in Nat, InLine(p, q)
    PROVE  (p < LineBytes * n) <=> (q < n)
<1>1. LineBytes \in Nat /\ LineBytes > 0
  BY LineLength, Zenon
<1>2. LineBytes * q \in Nat /\ LineBytes * n \in Nat
  BY Multiples
<1>3. ASSUME q < n PROVE p < LineBytes * n
  <2>1. q + 1 \in Nat /\ q + 1 <= n
    BY <1>3
  <2>2. LineBytes * (q + 1) <= LineBytes * n /\ LineBytes * (q + 1) = LineBytes * q + LineBytes
    BY <2>1, Multiples
  <2> QED BY <1>1, <1>2, <2>2 DEF InLine
<1>4. ASSUME n <= q PROVE ~(p < LineBytes * n)
  <2>1. LineBytes * n <= LineBytes * q
    BY <1>4, Multiples
  <2> QED BY <1>2, <2>1 DEF InLine
<1> QED BY <1>3, <1>4

(* The larger and the smaller of two numbers.                              *)
LEMMA PairMax ==
    ASSUME NEW a \in Int, NEW b \in Int
    PROVE  Max({a, b}) = IF a >= b THEN a ELSE b
<1>1. PICK S, m : S = {a, b} /\ m = IF a >= b THEN a ELSE b
  OBVIOUS
<1>2. m \in S /\ \A y \in S : m >= y
  BY <1>1
<1>3. Max(S) \in S /\ \A y \in S : Max(S) >= y
  BY <1>2 DEF Max
<1> QED BY <1>1, <1>2, <1>3

LEMMA PairMin ==
    ASSUME NEW a \in Int, NEW b \in Int
    PROVE  Min({a, b}) = IF a <= b THEN a ELSE b
<1>1. PICK S, m : S = {a, b} /\ m = IF a <= b THEN a ELSE b
  OBVIOUS
<1>2. m \in S /\ \A y \in S : m <= y
  BY <1>1
<1>3. Min(S) \in S /\ \A y \in S : Min(S) <= y
  BY <1>2 DEF Min
<1> QED BY <1>1, <1>2, <1>3

(* From a byte of line q + 1 to the end of line e there are e - q newlines. *)
LEMMA NewlineNumber ==
    ASSUME NEW p \in Nat, NEW q \in Nat, NEW e \in Nat, InLine(p, q), q <= e
    PROVE  Cardinality(Newlines(p, LineBytes * e)) = e - q
<1> DEFINE S == (q + 1)..e
           T == Newlines(p, LineBytes * e)
           g == [j \in S |-> LineBytes * j - 1]
<1>0. LineBytes \in Nat /\ LineBytes > 0 /\ LineBytes * e \in Nat
  <2>1. LineBytes * e \in Nat
    BY Multiples
  <2> QED BY <2>1, LogAssumption
<1>1. ASSUME NEW j \in S PROVE g[j] \in T
  <2>1. j \in Nat /\ q < j /\ j <= e
    OBVIOUS
  <2>2. /\ LineBytes * j \in Nat /\ LineBytes * j <= LineBytes * e
        /\ (LineBytes * j) % LineBytes = 0
    BY <2>1, Multiples
  <2>3. p < LineBytes * j
    BY <2>1, LaterLine
  <2>4. PICK x : x = LineBytes * j - 1
    OBVIOUS
  <2>5. x \in p..(LineBytes * e - 1) /\ x + 1 = LineBytes * j
    BY <1>0, <2>2, <2>3, <2>4
  <2>6. x \in T
    BY <2>2, <2>5 DEF Newlines
  <2> QED BY <2>4, <2>6
<1>2. ASSUME NEW i \in S, NEW j \in S, g[i] = g[j] PROVE i = j
  <2>1. i \in Nat /\ j \in Nat /\ LineBytes * i - 1 = LineBytes * j - 1
    BY <1>2
  <2>2. LineBytes * i \in Nat /\ LineBytes * j \in Nat
    BY <2>1, Multiples
  <2>3. LineBytes * i <= LineBytes * j /\ LineBytes * j <= LineBytes * i
    BY <2>1, <2>2
  <2>4. i <= j /\ j <= i
    BY <2>1, <2>3, Multiples
  <2> QED BY <2>1, <2>4
<1>3. ASSUME NEW t \in T PROVE \E j \in S : g[j] = t
  <2>1. t \in p..(LineBytes * e - 1) /\ (t + 1) % LineBytes = 0
    BY DEF Newlines
  <2>2. PICK x, j : x = t + 1 /\ j = x \div LineBytes
    OBVIOUS
  <2>3. x \in Nat /\ p < x /\ x <= LineBytes * e /\ x % LineBytes = 0
    BY <1>0, <2>1, <2>2
  <2>4. j \in Nat /\ InLine(x, j)
    BY <2>2, <2>3, LineOf
  <2>5. x % LineBytes = x - LineBytes * j /\ LineBytes * j \in Nat
    BY <2>3, <2>4, LineUnique, Multiples
  <2>6. x = LineBytes * j
    BY <2>3, <2>5
  <2>7. q < j
    BY <2>3, <2>4, <2>6, LaterLine
  <2>8. j <= e
    BY <2>3, <2>4, <2>6, Multiples
  <2>9. j \in S
    BY <2>4, <2>7, <2>8
  <2>10. t = LineBytes * j - 1
    BY <1>0, <2>1, <2>2, <2>6
  <2> QED BY <2>9, <2>10
<1>4. g \in [S -> T]
  BY <1>1
<1>5. DOMAIN g = S
  OBVIOUS
<1> HIDE DEF g
<1>6. g \in Bijection(S, T)
  BY <1>2, <1>3, <1>4, <1>5 DEF Bijection, Injection, Surjection, IsInjective
<1>7. ExistsBijection(S, T)
  BY <1>6 DEF ExistsBijection
<1>8. IsFiniteSet(S) /\ Cardinality(S) = IF q + 1 > e THEN 0 ELSE e - (q + 1) + 1
  <2>1. q + 1 \in Int /\ e \in Int
    OBVIOUS
  <2> QED BY <2>1, FS_Interval
<1>9. Cardinality(T) = Cardinality(S)
  <2> HIDE DEF S, T
  <2> QED BY <1>7, <1>8, FS_Bijection
<1>10. Cardinality(S) = e - q
  BY <1>8
<1> QED BY <1>9, <1>10

(* The oldest byte that may be taken.                                      *)
LEMMA AimRange ==
    ASSUME NEW end \in Nat, NEW old \in Nat, old <= end
    PROVE  /\ Aim(old, end) \in Nat /\ Aim(old, end) <= end
           /\ \A p \in Nat : (end - p > MAXIMUM_READ \/ p < old) <=> p < Aim(old, end)
<1>1. MAXIMUM_READ \in Nat
  BY LogAssumption
<1>2. PICK b, m : b = end - MAXIMUM_READ /\ m = Aim(old, end)
  OBVIOUS
<1>3. b \in Int /\ old \in Int /\ b <= end
  BY <1>1, <1>2
<1>4. m = IF old >= b THEN old ELSE b
  BY <1>2, <1>3, PairMax DEF Aim
<1>5. m \in Nat /\ m <= end
  BY <1>3, <1>4
<1>6. ASSUME NEW p \in Nat PROVE (end - p > MAXIMUM_READ \/ p < old) <=> p < m
  <2>1. (end - p > MAXIMUM_READ) <=> p < b
    BY <1>1, <1>2
  <2> QED BY <1>3, <1>4, <2>1
<1> QED BY <1>2, <1>5, <1>6

(* The file and the goal of the scan.                                      *)
LEMMA ScanLine ==
    ASSUME NEW l \in Nat, NEW a \in 0..l, NEW old, old = LineBytes * a,
           NEW end, end = LineBytes * l
    PROVE  /\ old \in Nat /\ end \in Nat /\ old <= end
           /\ Aim(old, end) \in Nat /\ Aim(old, end) <= end
           /\ \E s \in 0..l : InLine(Aim(old, end), s)
<1>1. a \in Nat /\ a <= l
  OBVIOUS
<1>2. old \in Nat /\ old <= end
  BY <1>1, Multiples
<1>3. end \in Nat
  BY Multiples
<1>4. PICK m : m = Aim(old, end)
  OBVIOUS
<1>5. m \in Nat /\ m <= end
  BY <1>2, <1>3, <1>4, AimRange
<1>6. PICK s : s = m \div LineBytes
  OBVIOUS
<1>7. s \in Nat /\ InLine(m, s)
  BY <1>5, <1>6, LineOf
<1>8. s <= l
  <2>1. l + 1 \in Nat /\ LineBytes * (l + 1) = end + LineBytes
    BY Multiples
  <2>2. m < LineBytes * (l + 1)
    BY <1>3, <1>5, <2>1, LogAssumption
  <2>3. s < l + 1
    BY <1>5, <1>7, <2>1, <2>2, LaterLine
  <2> QED BY <1>7, <2>3
<1>9. s \in 0..l
  BY <1>7, <1>8
<1> QED BY <1>2, <1>3, <1>4, <1>5, <1>7, <1>9

(* A number of a range from 0.                                             *)
LEMMA InRange ==
    ASSUME NEW l \in Nat, NEW a \in 0..l
    PROVE  a \in Nat /\ a <= l
OBVIOUS

(* It stopped at the byte before the first it may take.                    *)
LEMMA SpanBeyond ==
    ASSUME NEW l \in Nat, NEW a \in 0..l, NEW old, old = LineBytes * a,
           NEW end, end = LineBytes * l, NEW m \in Nat, m = Aim(old, end), m > 0,
           NEW s \in 0..l, InLine(m, s)
    PROVE  \E q \in 0..l : Span(old, end, m - 1, l - s, a, l, s, q)
<1>1. LineBytes \in Nat /\ LineBytes > 1
  BY LineLength, Zenon
<1>2. s \in Nat /\ s <= l /\ a <= l
  BY InRange, Zenon
<1>3. PICK x : x = LineBytes * s
  OBVIOUS
<1>4. x \in Nat
  BY <1>2, <1>3, Multiples
<1>5. x <= m /\ m < x + LineBytes
  BY <1>3 DEF InLine
<1>6. CASE m = x
  <2>1. s > 0
    <3>1. s = 0 => x = 0
      BY <1>1, <1>3
    <3> QED BY <1>2, <1>6, <3>1
  <2>2. PICK q : q = s - 1
    OBVIOUS
  <2>3. q \in Nat /\ s = q + 1 /\ q \in 0..l
    BY <1>2, <2>1, <2>2
  <2>4. PICK y : y = LineBytes * q
    OBVIOUS
  <2>5. y \in Nat /\ x = y + LineBytes
    BY <1>3, <2>3, <2>4, Multiples
  <2>6. m - 1 = y + (LineBytes - 1) /\ y <= m - 1 /\ m - 1 < y + LineBytes
    BY <1>1, <1>6, <2>5
  <2>7. InLine(m - 1, q) /\ First(m - 1, q) = q + 2
    BY <2>4, <2>6 DEF InLine, First
  <2>8. q + 2 = s + 1 /\ s < q + 2 /\ q + (l - s) >= l - 1 /\ q <= l
    BY <1>2, <2>3
  <2>9. Span(old, end, m - 1, l - s, a, l, s, q)
    BY <1>2, <2>7, <2>8 DEF Span
  <2> QED BY <2>3, <2>9
<1>7. CASE m # x
  <2>1. x <= m - 1 /\ m - 1 < x + LineBytes /\ m - 1 # x + (LineBytes - 1)
    BY <1>1, <1>4, <1>5, <1>7
  <2>2. InLine(m - 1, s) /\ First(m - 1, s) = s + 1
    BY <1>3, <2>1 DEF InLine, First
  <2>3. s < s + 1 /\ s + (l - s) >= l - 1
    BY <1>2
  <2>4. Span(old, end, m - 1, l - s, a, l, s, s)
    BY <1>2, <2>2, <2>3 DEF Span
  <2> QED BY <2>4
<1> QED BY <1>6, <1>7

(* It had enough lines.                                                    *)
LEMMA SpanLines ==
    ASSUME NEW l \in Nat, NEW a \in 0..l, NEW old, old = LineBytes * a,
           NEW end, end = LineBytes * l, NEW m \in Nat, m = Aim(old, end),
           NEW s \in 0..l, InLine(m, s),
           NEW d \in Nat, d = l - NUM_LINES_TO_READ,
           NEW p, p = LineBytes * d + (LineBytes - 1), m <= p
    PROVE  /\ d + 1 \in 0..l
           /\ Span(old, end, p + 1, NUM_LINES_TO_READ, a, l, s, d + 1)
<1>1. LineBytes \in Nat /\ LineBytes > 1 /\ NUM_LINES_TO_READ \in Nat /\ NUM_LINES_TO_READ > 0
  BY LogAssumption
<1>2. s \in Nat /\ s <= l /\ a <= l
  OBVIOUS
<1>3. PICK x, q : x = LineBytes * d /\ q = d + 1
  OBVIOUS
<1>4. x \in Nat /\ q \in Nat /\ LineBytes * q = x + LineBytes
  BY <1>3, Multiples
<1>5. p + 1 = LineBytes * q /\ m < LineBytes * q
  BY <1>1, <1>3, <1>4
<1>6. s < q
  BY <1>2, <1>4, <1>5, LaterLine
<1>7. q <= l /\ q + NUM_LINES_TO_READ >= l /\ q + 1 = l - NUM_LINES_TO_READ + 2
  BY <1>1, <1>3
<1>8. PICK y : y = p + 1 /\ y = LineBytes * q
  BY <1>5
<1>9. y \in Nat
  BY <1>4, <1>8, <1>1
<1>10. y <= y /\ y < y + LineBytes /\ y # y + (LineBytes - 1)
  BY <1>1, <1>9
<1>11. InLine(y, q) /\ First(y, q) = q + 1
  BY <1>8, <1>10 DEF InLine, First
<1>12. s < q + 1 /\ q \in 0..l
  BY <1>2, <1>4, <1>6, <1>7
<1>13. Span(old, end, y, NUM_LINES_TO_READ, a, l, s, q)
  BY <1>2, <1>7, <1>11, <1>12 DEF Span
<1> QED BY <1>3, <1>8, <1>12, <1>13

(* It came to the first byte.                                              *)
LEMMA SpanFirst ==
    ASSUME NEW l \in Nat, NEW a \in 0..l, NEW old, old = LineBytes * a,
           NEW end, end = LineBytes * l, Aim(old, end) = 0
    PROVE  Span(old, end, 1, l, a, l, 0, 0)
<1>1. LineBytes \in Nat /\ LineBytes > 1 /\ LineBytes * 0 = 0
  BY LogAssumption
<1>2. a <= l
  OBVIOUS
<1>3. InLine(0, 0) /\ InLine(1, 0)
  BY <1>1 DEF InLine
<1>4. First(1, 0) = 1 \/ First(1, 0) = 2
  BY DEF First
<1>5. 0 < First(1, 0) /\ (First(1, 0) = 0 + 1 \/ First(1, 0) = 0 + 2)
  BY <1>4
<1>6. 0 + l >= l /\ 0 + l >= l - 1 /\ 0 <= l
  OBVIOUS
<1> QED BY <1>2, <1>3, <1>5, <1>6 DEF Span

(* There was nothing to look at.                                           *)
LEMMA SpanEmpty == Span(0, 0, 0, 0, 0, 0, 0, 0)
<1>1. LineBytes \in Nat /\ LineBytes > 1 /\ LineBytes * 0 = 0 /\ 0 # LineBytes - 1
  BY LogAssumption
<1>2. Aim(0, 0) = 0
  <2>1. Aim(0, 0) \in Nat /\ Aim(0, 0) <= 0
    BY AimRange
  <2> QED BY <2>1
<1>3. InLine(0, 0) /\ First(0, 0) = 1
  BY <1>1 DEF InLine, First
<1> QED BY <1>1, <1>2, <1>3 DEF Span

(* What stops the scan.                                                    *)
LEMMA Stops ==
    ASSUME NEW l \in Nat, NEW a \in 0..l, reader.old = LineBytes * a,
           NEW end, end = LineBytes * l, NEW p \in 0..(end - 1)
    PROVE  /\ p \div LineBytes \in 0..l
           /\ Cardinality(Newlines(p, end)) = l - p \div LineBytes
           /\ Beyond(p, end) <=> p < Aim(reader.old, end)
           /\ Enough(p, end) <=> (p = 0 \/ p \div LineBytes = l - NUM_LINES_TO_READ)
<1>1. PICK q, old : q = p \div LineBytes /\ old = reader.old
  OBVIOUS
<1>2. old \in Nat /\ end \in Nat /\ old <= end
  BY <1>1, ScanLine
<1>3. p \in Nat /\ p < end
  BY <1>2
<1>4. q \in Nat /\ InLine(p, q)
  BY <1>1, <1>3, LineOf
<1>5. q < l
  BY <1>3, <1>4, LaterLine
<1>6. Cardinality(Newlines(p, end)) = l - q
  <2>1. q <= l
    BY <1>4, <1>5
  <2> QED BY <1>3, <1>4, <2>1, NewlineNumber
<1>7. Beyond(p, end) <=> p < Aim(old, end)
  <2>1. (end - p > MAXIMUM_READ \/ p < old) <=> p < Aim(old, end)
    BY <1>2, <1>3, AimRange
  <2> QED BY <1>1, <2>1 DEF Beyond
<1>8. Enough(p, end) <=> (p = 0 \/ q = l - NUM_LINES_TO_READ)
  <2>1. NUM_LINES_TO_READ \in Nat
    BY LogAssumption
  <2>2. (l - q = NUM_LINES_TO_READ) <=> (q = l - NUM_LINES_TO_READ)
    BY <1>4, <2>1
  <2> QED BY <1>6, <2>2 DEF Enough
<1>9. q \in 0..l
  BY <1>4, <1>5
<1> QED BY <1>1, <1>6, <1>7, <1>8, <1>9

(* Where the scan ends: p is the last byte that stops it.                  *)
LEMMA ScanSpan ==
    ASSUME NEW l \in Nat, NEW a \in 0..l, reader.old = LineBytes * a,
           NEW end, end = LineBytes * l, NEW p \in 0..(end - 1),
           Beyond(p, end) \/ Enough(p, end),
           \A y \in 0..(end - 1) : Beyond(y, end) \/ Enough(y, end) => p >= y,
           NEW pos, NEW count,
           \/ /\ Beyond(p, end)
              /\ pos = p /\ count = Cardinality(Newlines(p + 1, end))
           \/ /\ ~Beyond(p, end)
              /\ pos = p + 1 /\ count = Cardinality(Newlines(p, end))
    PROVE  \E s, q \in 0..l : Span(reader.old, end, pos, count, a, l, s, q)
<1>1. PICK old : old = reader.old /\ old = LineBytes * a
  OBVIOUS
<1>2. PICK m : m = Aim(old, end)
  OBVIOUS
<1>3. old \in Nat /\ end \in Nat /\ m \in Nat /\ m <= end
  BY <1>1, <1>2, ScanLine
<1>4. PICK s \in 0..l : InLine(m, s)
  BY <1>1, <1>2, ScanLine
<1>5. p \in Nat /\ p < end
  BY <1>3
<1>6. \A y \in 0..(end - 1) : Beyond(y, end) <=> y < m
  BY <1>1, <1>2, Stops
<1>7. CASE Beyond(p, end)
  <2>1. p < m
    BY <1>6, <1>7
  <2>2. m - 1 \in 0..(end - 1) /\ m - 1 < m /\ m > 0
    BY <1>3, <1>5, <2>1
  <2>3. Beyond(m - 1, end)
    BY <1>6, <2>2
  <2>4. p >= m - 1
    BY <2>2, <2>3
  <2>5. p + 1 = m /\ p = m - 1
    BY <1>3, <1>5, <2>1, <2>4
  <2>6. s \in Nat /\ s <= l
    OBVIOUS
  <2>7. Cardinality(Newlines(m, end)) = l - s
    BY <1>3, <1>4, <2>6, NewlineNumber
  <2>8. pos = m - 1 /\ count = l - s
    BY <1>7, <2>5, <2>7
  <2>9. \E q \in 0..l : Span(old, end, m - 1, l - s, a, l, s, q)
    BY <1>1, <1>2, <1>3, <1>4, <2>2, SpanBeyond
  <2> QED BY <1>1, <2>8, <2>9
<1>8. CASE ~Beyond(p, end)
  <2>1. m <= p
    BY <1>3, <1>5, <1>6, <1>8
  <2>2. PICK d : d = p \div LineBytes
    OBVIOUS
  <2>3. d \in Nat /\ InLine(p, d)
    BY <1>5, <2>2, LineOf
  <2>4. pos = p + 1 /\ count = l - d
    BY <1>8, <2>2, Stops
  <2>5. p = 0 \/ d = l - NUM_LINES_TO_READ
    BY <1>8, <2>2, Stops
  <2>6. CASE d = l - NUM_LINES_TO_READ
    <3>1. LineBytes \in Nat /\ LineBytes > 1 /\ NUM_LINES_TO_READ \in Nat /\ NUM_LINES_TO_READ > 0
      BY LogAssumption
    <3>2. PICK x, z : x = LineBytes * d /\ z = x + (LineBytes - 1)
      OBVIOUS
    <3>3. x \in Nat /\ z \in Nat
      <4>1. x \in Nat
        BY <2>3, <3>2, Multiples
      <4> QED BY <3>1, <3>2, <4>1
    <3>4. InLine(z, d)
      BY <3>1, <3>2, <3>3 DEF InLine
    <3>5. z < end
      <4>1. d < l
        BY <2>3, <2>6, <3>1
      <4> QED BY <2>3, <3>3, <3>4, <4>1, LaterLine
    <3>6. z \in 0..(end - 1)
      BY <1>3, <3>3, <3>5
    <3>7. z \div LineBytes = d
      BY <2>3, <3>3, <3>4, LineUnique
    <3>8. Enough(z, end)
      BY <2>6, <3>6, <3>7, Stops
    <3>9. p >= z
      BY <3>6, <3>8
    <3>10. p = z
      BY <1>5, <2>3, <3>1, <3>2, <3>3, <3>9 DEF InLine
    <3>11. count = NUM_LINES_TO_READ /\ pos = p + 1
      BY <2>3, <2>4, <2>6, <3>1
    <3>12. /\ d + 1 \in 0..l
           /\ Span(old, end, p + 1, NUM_LINES_TO_READ, a, l, s, d + 1)
      BY <1>1, <1>2, <1>3, <1>4, <2>1, <2>3, <2>6, <3>2, <3>10, SpanLines
    <3> QED BY <1>1, <3>11, <3>12
  <2>7. CASE p = 0
    <3>1. m = 0 /\ pos = 1
      BY <1>3, <2>1, <2>4, <2>7
    <3>2. d = 0
      <4>1. LineBytes \in Nat /\ LineBytes > 0 /\ LineBytes * 0 = 0
        BY LogAssumption
      <4>2. InLine(0, 0)
        BY <4>1 DEF InLine
      <4> QED BY <2>2, <2>7, <4>2, LineUnique
    <3>3. count = l
      BY <2>4, <3>2
    <3>4. Span(old, end, 1, l, a, l, 0, 0)
      BY <1>1, <1>2, <3>1, SpanFirst
    <3>5. 0 \in 0..l
      OBVIOUS
    <3> QED BY <1>1, <3>1, <3>3, <3>4, <3>5
  <2> QED BY <2>5, <2>6, <2>7
<1> QED BY <1>7, <1>8

(* get_last_lines sets up its upload.                                      *)
LEMMA ScanReach ==
    ASSUME TypeInv, Scan, NEW l, l = Len(disk.content[reader.file]),
           NEW a \in 0..l, reader.old = LineBytes * a
    PROVE  /\ reader'.file = reader.file
           /\ reader'.old = reader.old /\ reader'.new = reader.new
           /\ Reach(reader', l)
<1> DEFINE end == Bytes(reader.file)
           stops == {p \in 0..(end - 1) : Beyond(p, end) \/ Enough(p, end)}
           top == Max(stops)
<1>1. reader \in ReaderType /\ reader.file \in 1..Len(disk.content)
  BY DEF TypeInv, ReaderOK, Scan, Closed
<1>2. l \in Nat /\ end = LineBytes * l
  <2>1. disk.content \in Seq(Seq(Nat))
    BY DEF TypeInv, DiskOK, DiskType
  <2>2. disk.content[reader.file] \in Seq(Nat)
    BY <1>1, <2>1
  <2> QED BY <2>2 DEF Bytes
<1>3. end \in Nat
  BY <1>2, Multiples
<1>4. \E pos, count : \E s, q \in 0..l :
         /\ reader' = [reader EXCEPT !.at = "fetch", !.pos = pos, !.count = count, !.end = end]
         /\ Span(reader.old, end, pos, count, a, l, s, q)
  <2>1. CASE stops = {}
    <3>1. reader' = [reader EXCEPT !.at = "fetch", !.pos = end, !.count = 0, !.end = end]
      BY <2>1 DEF Scan
    <3>2. end = 0
      <4> HIDE DEF end
      <4> SUFFICES ASSUME end > 0 PROVE FALSE
        BY <1>3
      <4>1. 0 \in 0..(end - 1) /\ Enough(0, end)
        BY <1>3 DEF Enough
      <4> QED BY <2>1, <4>1
    <3> HIDE DEF end
    <3>3. l = 0
      <4>1. LineBytes * l <= LineBytes * 0
        BY <1>2, <3>2, LogAssumption
      <4>2. 0 \in Nat
        OBVIOUS
      <4>3. l <= 0
        BY <1>2, <4>1, <4>2, Multiples
      <4> QED BY <1>2, <4>3
    <3>4. a = 0 /\ reader.old = 0
      BY <3>3, LogAssumption
    <3>5. Span(reader.old, end, end, 0, a, l, 0, 0)
      BY <3>2, <3>3, <3>4, SpanEmpty
    <3>6. 0 \in 0..l
      BY <3>3
    <3> QED BY <3>1, <3>5, <3>6
  <2>2. CASE stops # {}
    <3>1. top \in stops /\ \A y \in stops : top >= y
      <4> HIDE DEF end
      <4>1. stops \subseteq 0..(end - 1)
        OBVIOUS
      <4> HIDE DEF stops
      <4> QED BY <1>3, <2>2, <4>1, LargestPosition
    <3>2. \/ /\ Beyond(top, end)
             /\ reader' = [reader EXCEPT !.at = "fetch", !.pos = top, !.end = end,
                                     !.count = Cardinality(Newlines(top + 1, end))]
          \/ /\ ~Beyond(top, end)
             /\ reader' = [reader EXCEPT !.at = "fetch", !.pos = top + 1, !.end = end,
                                     !.count = Cardinality(Newlines(top, end))]
      BY <2>2 DEF Scan
    <3> HIDE DEF end
    <3>3. /\ top \in 0..(end - 1)
          /\ Beyond(top, end) \/ Enough(top, end)
          /\ \A y \in 0..(end - 1) : Beyond(y, end) \/ Enough(y, end) => top >= y
      <4> HIDE DEF top
      <4> QED BY <3>1
    <3> HIDE DEF stops, top
    <3>4. PICK pos, count :
             /\ \/ /\ Beyond(top, end)
                   /\ pos = top /\ count = Cardinality(Newlines(top + 1, end))
                \/ /\ ~Beyond(top, end)
                   /\ pos = top + 1 /\ count = Cardinality(Newlines(top, end))
             /\ reader' = [reader EXCEPT !.at = "fetch", !.pos = pos, !.count = count, !.end = end]
      <4>1. CASE Beyond(top, end)
        <5>1. PICK c : c = Cardinality(Newlines(top + 1, end))
          OBVIOUS
        <5>2. reader' = [reader EXCEPT !.at = "fetch", !.pos = top, !.count = c, !.end = end]
          BY <1>1, <3>2, <4>1, <5>1 DEF ReaderType
        <5> QED BY <4>1, <5>1, <5>2
      <4>2. CASE ~Beyond(top, end)
        <5>1. PICK c, x : c = Cardinality(Newlines(top, end)) /\ x = top + 1
          OBVIOUS
        <5>2. reader' = [reader EXCEPT !.at = "fetch", !.pos = x, !.count = c, !.end = end]
          BY <1>1, <3>2, <4>2, <5>1 DEF ReaderType
        <5> QED BY <4>2, <5>1, <5>2
      <4> QED BY <4>1, <4>2
    <3>5. \E s, q \in 0..l : Span(reader.old, end, pos, count, a, l, s, q)
      <4>1. PICK z, p : z = end /\ p = top
        OBVIOUS
      <4>2. /\ l \in Nat /\ z = LineBytes * l /\ p \in 0..(z - 1)
            /\ Beyond(p, z) \/ Enough(p, z)
        <5>1. l \in Nat /\ z = LineBytes * l
          BY <1>2, <4>1, Zenon
        <5>2. p \in 0..(z - 1) /\ (Beyond(p, z) \/ Enough(p, z))
          BY <3>3, <4>1, Zenon
        <5> QED BY <5>1, <5>2, Zenon
      <4>3. \A y \in 0..(z - 1) : Beyond(y, z) \/ Enough(y, z) => p >= y
        BY <3>3, <4>1
      <4>4. \/ Beyond(p, z) /\ pos = p /\ count = Cardinality(Newlines(p + 1, z))
            \/ ~Beyond(p, z) /\ pos = p + 1 /\ count = Cardinality(Newlines(p, z))
        BY <3>4, <4>1
      <4>5. \E s, q \in 0..l : Span(reader.old, z, pos, count, a, l, s, q)
        BY <4>2, <4>3, <4>4, ScanSpan, ZenonT(40)
      <4> QED BY <4>1, <4>5
    <3> QED BY <3>4, <3>5
  <2> QED BY <2>1, <2>2
<1>5. PICK pos, count, s, q :
         /\ s \in 0..l /\ q \in 0..l
         /\ reader' = [reader EXCEPT !.at = "fetch", !.pos = pos, !.count = count, !.end = end]
         /\ Span(reader.old, end, pos, count, a, l, s, q)
  BY <1>4
<1> HIDE DEF end, stops, top
<1>6. /\ reader'.file = reader.file /\ reader'.old = reader.old /\ reader'.new = reader.new
      /\ reader'.pos = pos /\ reader'.count = count /\ reader'.end = end
  BY <1>1, <1>5 DEF ReaderType
<1>7. l \in 0..l
  BY <1>2
<1>8. PICK r : r = reader'
  OBVIOUS
<1>9. Span(r.old, r.end, r.pos, r.count, a, l, s, q)
  BY <1>5, <1>6, <1>8
<1>10. Reach(r, l)
  BY <1>5, <1>7, <1>9, Zenon DEF Reach
<1> QED BY <1>6, <1>8, <1>10

(* The reader's positions are ends of lines of its file.                   *)
OnLine(p, l) == \E a \in 0..l : p = LineBytes * a
ReadOK(r, l) ==
    /\ r.at # "opened" => OnLine(r.old, l)
    /\ r.at \in {"scan", "fetch"} => OnLine(r.new, l)
    /\ r.at = "fetch" => Reach(r, l)
ReadInv == reader.file # Closed => ReadOK(reader, Len(disk.content[reader.file]))

(* A file that has grown still has its lines.                              *)
LEMMA ReadGrown ==
    ASSUME NEW r, NEW l \in Nat, NEW k \in Nat, l <= k, ReadOK(r, l)
    PROVE  ReadOK(r, k)
<1>1. \A n \in 0..l : n \in 0..k
  OBVIOUS
<1>2. \A p : OnLine(p, l) => OnLine(p, k)
  BY <1>1, Zenon DEF OnLine
<1>3. Reach(r, l) => Reach(r, k)
  BY <1>1, Zenon DEF Reach
<1> QED BY <1>2, <1>3, Zenon DEF ReadOK

(* The end of a file is the end of a line.                                 *)
LEMMA LineEnds ==
    ASSUME NEW l \in Nat
    PROVE  OnLine(0, l) /\ OnLine(LineBytes * l, l)
<1>1. 0 \in 0..l /\ l \in 0..l
  OBVIOUS
<1>2. 0 = LineBytes * 0
  BY LogAssumption
<1> QED BY <1>1, <1>2 DEF OnLine

(* No step of the writer, the clients or the reader takes the reader's     *)
(* positions off the ends of lines.                                        *)
LEMMA ReadStep ==
    ASSUME TypeInv, ChainInv, ReadInv, [Next]_vars
    PROVE  ReadInv'
<1>1. /\ reader \in ReaderType /\ disk.content \in Seq(Seq(Nat))
      /\ reader.file \in 0..Len(disk.content) /\ Len(disk.content) \in Nat
      /\ reader.at \in {"reopen", "opened", "scan", "fetch"} => reader.file # Closed
  BY DEF TypeInv, ReaderOK, DiskOK, DiskType
<1>2. \A f \in 1..Len(disk.content) : Len(disk.content[f]) \in Nat
  BY <1>1
<1>3. ASSUME reader' = reader PROVE ReadInv'
  <2> SUFFICES ASSUME reader.file # Closed
               PROVE  ReadOK(reader, Len(disk'.content[reader.file]))
    BY <1>3 DEF ReadInv
  <2>1. PICK f, c, e : f = reader.file /\ c = disk.content /\ e = disk'.content
    OBVIOUS
  <2>2. f \in 1..Len(c)
    BY <1>1, <2>1 DEF Closed
  <2>3. Grown(c, e)
    BY <2>1, ChainStep
  <2>4. e \in Seq(Seq(Nat))
    <3>1. TypeInv'
      BY TypeStep
    <3> QED BY <2>1, <3>1 DEF TypeInv, DiskOK, DiskType
  <2>5. Len(c) \in Nat /\ Len(e) \in Nat /\ Len(c) <= Len(e) /\ Len(c[f]) <= Len(e[f])
    <3>1. Len(c) \in Nat /\ Len(e) \in Nat
      BY <1>1, <2>1, <2>4
    <3>2. Len(c) <= Len(e) /\ Len(c[f]) <= Len(e[f])
      BY <2>2, <2>3, Zenon DEF Grown
    <3> QED BY <3>1, <3>2
  <2>6. f \in 1..Len(e)
    BY <2>2, <2>5
  <2>7. Len(c[f]) \in Nat /\ Len(e[f]) \in Nat
    BY <1>2, <2>1, <2>2, <2>4, <2>6
  <2>8. ReadOK(reader, Len(c[f]))
    BY <2>1 DEF ReadInv
  <2>9. ReadOK(reader, Len(e[f]))
    BY <2>5, <2>7, <2>8, ReadGrown
  <2> QED BY <2>1, <2>9
<1>4. CASE log_log \/ Free \/ RemoveLog \/ UNCHANGED vars
  BY <1>3, <1>4 DEF log_log, Free, RemoveLog, vars
<1>5. CASE zclient_init
  <2>1. PICK f, r, e : f = disk'.name[0] /\ r = reader' /\ e = disk'.content
    OBVIOUS
  <2>0. CASE Tangle
    <3>1. r.file = Closed
      BY <2>0, <2>1 DEF Tangle
    <3> QED BY <2>1, <3>1 DEF ReadInv
  <2> SUFFICES ASSUME initialize_cloud_log(f) PROVE ReadInv'
    BY <1>5, <2>0, <2>1 DEF zclient_init
  <2>2. r.file = f /\ r.at = "idle" /\ (f # Closed => r.old = 0)
    BY <1>1, <2>1 DEF initialize_cloud_log, ReaderType
  <2> SUFFICES ASSUME f # Closed PROVE ReadOK(r, Len(e[f]))
    BY <2>1, <2>2 DEF ReadInv
  <2>3. DiskOK(disk', written)
    BY <1>5, InitClientOK
  <2>4. e \in Seq(Seq(Nat)) /\ f \in 1..Len(e)
    <3>1. 0 \in Names
      BY LogAssumption DEF Names
    <3>2. e \in Seq(Seq(Nat)) /\ f \in 0..Len(e)
      BY <2>1, <2>3, <3>1 DEF DiskOK, DiskType
    <3> QED BY <3>2 DEF Closed
  <2>5. Len(e[f]) \in Nat
    BY <2>4
  <2>6. OnLine(0, Len(e[f]))
    BY <2>5, LineEnds
  <2> QED BY <2>2, <2>6 DEF ReadOK
<1>6. CASE Measure
  <2>1. reader.file # Closed /\ disk' = disk /\ reader.at = "idle"
    BY <1>6 DEF Measure
  <2>2. PICK f, l, r : f = reader.file /\ l = Len(disk.content[f]) /\ r = reader'
    OBVIOUS
  <2>3. f \in 1..Len(disk.content) /\ l \in Nat
    BY <1>1, <1>2, <2>1, <2>2 DEF Closed
  <2>4. ReadOK(reader, l)
    BY <2>1, <2>2 DEF ReadInv
  <2>5. /\ r.file = f /\ r.old = reader.old
        /\ r.at = "reopen" \/ (r.at = "scan" /\ r.new = LineBytes * l)
    BY <1>1, <1>6, <2>2 DEF Measure, ReaderType, Bytes
  <2>6. OnLine(LineBytes * l, l) /\ OnLine(reader.old, l)
    BY <2>1, <2>3, <2>4, LineEnds DEF ReadOK
  <2>7. ReadOK(r, l)
    BY <2>5, <2>6 DEF ReadOK
  <2> QED BY <2>1, <2>2, <2>5, <2>7 DEF ReadInv
<1>7. CASE Reopen
  <2>1. PICK r : r = reader'
    OBVIOUS
  <2>2. r.file = Closed \/ r.at = "opened"
    BY <1>1, <1>7, <2>1 DEF Reopen, ReaderType
  <2>3. r.file # Closed => ReadOK(r, Len(disk'.content[r.file]))
    BY <2>2 DEF ReadOK
  <2> QED BY <2>1, <2>3 DEF ReadInv
<1>10. CASE Look
  <2>1. reader.file # Closed /\ disk' = disk
    BY <1>1, <1>10 DEF Look
  <2>2. PICK f, l, r : f = reader.file /\ l = Len(disk.content[f]) /\ r = reader'
    OBVIOUS
  <2>3. f \in 1..Len(disk.content) /\ l \in Nat
    BY <1>1, <1>2, <2>1, <2>2 DEF Closed
  <2>4. r.file = f /\ r.at = "scan" /\ r.old = 0 /\ r.new = LineBytes * l
    BY <1>1, <1>10, <2>2 DEF Look, ReaderType, Bytes
  <2>5. OnLine(0, l) /\ OnLine(LineBytes * l, l)
    BY <2>3, LineEnds
  <2>6. ReadOK(r, l)
    BY <2>4, <2>5 DEF ReadOK
  <2> QED BY <2>1, <2>2, <2>4, <2>6 DEF ReadInv
<1>11. CASE Overlap
  <2>1. reader'.file = Closed
    BY <1>11 DEF Overlap, Tangle
  <2> QED BY <2>1 DEF ReadInv
<1>8. CASE Scan
  <2>1. reader.at = "scan" /\ disk' = disk /\ reader.file # Closed
    BY <1>1, <1>8 DEF Scan
  <2>2. PICK f, l, r : f = reader.file /\ l = Len(disk.content[f]) /\ r = reader'
    OBVIOUS
  <2>3. ReadOK(reader, l)
    BY <2>1, <2>2 DEF ReadInv
  <2>4. PICK a \in 0..l : reader.old = LineBytes * a
    BY <2>1, <2>3 DEF ReadOK, OnLine
  <2>5. r.file = f /\ r.old = reader.old /\ r.new = reader.new /\ Reach(r, l)
    BY <1>8, <2>2, <2>4, ScanReach
  <2>6. ReadOK(r, l)
    BY <2>1, <2>3, <2>5 DEF ReadOK
  <2> QED BY <2>1, <2>2, <2>5, <2>6 DEF ReadInv
<1>9. CASE Fetch
  <2>1. reader.at = "fetch" /\ disk' = disk /\ reader.file # Closed
    BY <1>1, <1>9 DEF Fetch
  <2>2. PICK f, l, r : f = reader.file /\ l = Len(disk.content[f]) /\ r = reader'
    OBVIOUS
  <2>3. r.file = f /\ r.at = "idle" /\ r.old = reader.new
    BY <1>1, <1>9, <2>2 DEF Fetch, ReaderType
  <2>4. ReadOK(reader, l)
    BY <2>1, <2>2 DEF ReadInv
  <2>5. ReadOK(r, l)
    BY <2>1, <2>3, <2>4 DEF ReadOK
  <2> QED BY <2>1, <2>2, <2>3, <2>5 DEF ReadInv
<1> QED BY <1>4, <1>5, <1>6, <1>7, <1>8, <1>9, <1>10, <1>11 DEF Next

(* Lines that were there stay as they are, and new ones have later numbers *)
(* than all that were written.                                             *)
SameFiles(c, e) == Len(c) <= Len(e) /\ \A f \in 1..Len(c) : e[f] = c[f]
Later(c, e, w) ==
    \A f \in 1..Len(c) : \A i \in 1..Len(e[f]) :
       (i \in 1..Len(c[f]) /\ e[f][i] = c[f][i]) \/ e[f][i] > w

LEMMA SameNewFile ==
    ASSUME NEW c \in Seq(Seq(Nat)), NEW e, e = Append(c, <<>>)
    PROVE  SameFiles(c, e) /\ e \in Seq(Seq(Nat))
<1>1. PICK k : k = Len(c) /\ k \in Nat
  OBVIOUS
<1>2. /\ e \in Seq(Seq(Nat)) /\ Len(e) = k + 1
      /\ \A f \in 1..k : e[f] = c[f]
  BY <1>1, NewFile
<1>3. k <= k + 1
  BY <1>1
<1> QED BY <1>1, <1>2, <1>3 DEF SameFiles

LEMMA SameAgain ==
    ASSUME NEW a \in Seq(Seq(Nat)), NEW b \in Seq(Seq(Nat)), NEW c \in Seq(Seq(Nat)),
           SameFiles(a, b), SameFiles(b, c)
    PROVE  SameFiles(a, c)
<1>1. /\ Len(a) \in Nat /\ Len(b) \in Nat /\ Len(c) \in Nat
      /\ Len(a) <= Len(b) /\ Len(b) <= Len(c)
  BY DEF SameFiles
<1>2. \A f \in 1..Len(a) : f \in 1..Len(b)
  BY <1>1
<1> QED BY <1>1, <1>2 DEF SameFiles

LEMMA SameLater ==
    ASSUME NEW c, NEW e, SameFiles(c, e), NEW w
    PROVE  Later(c, e, w)
BY DEF SameFiles, Later

(* Opening and rolling the log leave the lines alone.                      *)
LEMMA OpenSame ==
    ASSUME NEW d \in DiskType, NEW e, e = OpenLog(d) \/ e = Roll(d) \/ e = d
    PROVE  SameFiles(d.content, e.content) /\ e \in DiskType
<1>1. d.content \in Seq(Seq(Nat))
  BY DEF DiskType
<1>2. SameFiles(d.content, d.content)
  <2>1. Len(d.content) \in Nat
    BY <1>1
  <2> QED BY <2>1 DEF SameFiles
<1>3. e \in DiskType /\ (e.content = d.content \/ e.content = Append(d.content, <<>>))
  BY OpenOutcome, RollOutcome
<1>4. PICK c, b : c = d.content /\ b = e.content
  OBVIOUS
<1>5. b = Append(c, <<>>) => SameFiles(c, b)
  BY <1>1, <1>4, SameNewFile
<1> QED BY <1>2, <1>3, <1>4, <1>5

(* A line is added at the end of a file.                                   *)
LEMMA LaterLineAdded ==
    ASSUME NEW a \in Seq(Seq(Nat)), NEW c \in Seq(Seq(Nat)), SameFiles(a, c), NEW w \in Nat,
           NEW k \in 1..Len(c), NEW e, e = [c EXCEPT ![k] = Append(@, w + 1)]
    PROVE  Later(a, e, w)
<1>1. w + 1 \in Nat /\ w + 1 > w
  OBVIOUS
<1>2. PICK l : l = Len(c[k])
  OBVIOUS
<1>3. /\ e \in Seq(Seq(Nat)) /\ Len(e) = Len(c)
      /\ \A g \in 1..Len(c) : g # k => e[g] = c[g]
      /\ Len(e[k]) = l + 1
      /\ \A i \in 1..l : e[k][i] = c[k][i]
      /\ e[k][l + 1] = w + 1
  BY <1>1, <1>2, NewLine
<1>4. l \in Nat
  <2>1. c[k] \in Seq(Nat)
    OBVIOUS
  <2> QED BY <1>2, <2>1
<1>5. Len(a) \in Nat /\ Len(c) \in Nat /\ Len(a) <= Len(c)
  BY DEF SameFiles
<1>6. ASSUME NEW f \in 1..Len(a), NEW i \in 1..Len(e[f])
      PROVE  (i \in 1..Len(a[f]) /\ e[f][i] = a[f][i]) \/ e[f][i] > w
  <2>1. f \in 1..Len(c) /\ a[f] = c[f]
    BY <1>5 DEF SameFiles
  <2>2. CASE f # k
    BY <1>3, <2>1, <2>2
  <2>3. CASE f = k
    <3>1. i \in 1..l \/ i = l + 1
      BY <1>3, <1>4, <2>3
    <3>2. CASE i \in 1..l
      BY <1>2, <1>3, <2>1, <2>3, <3>2
    <3>3. CASE i = l + 1
      <4>1. e[f][i] = w + 1
        BY <1>3, <2>3, <3>3
      <4> QED BY <1>1, <4>1
    <3> QED BY <3>1, <3>2, <3>3
  <2> QED BY <2>2, <2>3
<1> QED BY <1>6 DEF Later

LEMMA LogLater ==
    ASSUME TypeInv, log_log
    PROVE  Later(disk.content, disk'.content, written)
<1>1. PICK d : /\ DiskOK(d, written) /\ d.fp # Closed
               /\ disk' = [d EXCEPT !.content[d.fp] = Append(@, written + 1)]
               /\ \E opened :
                     /\ opened = IF disk.fp # Closed /\ Linked(disk.fp) THEN disk
                                 ELSE OpenLog(disk)
                     /\ d = IF (IF disk.fp = Closed THEN 0 ELSE Bytes(disk.fp))
                                  > maxLogFileSize
                            THEN Roll(opened) ELSE opened
  BY LogStep
<1>2. PICK opened : /\ opened = disk \/ opened = OpenLog(disk)
                    /\ d = Roll(opened) \/ d = opened
  BY <1>1
<1>3. disk \in DiskType /\ written \in Nat /\ d \in DiskType /\ d.fp \in 0..Len(d.content)
  <2>1. DiskOK(disk, written) /\ written \in 0..MaxLines
    BY Zenon DEF TypeInv
  <2>2. DiskOK(d, written)
    BY <1>1, Zenon
  <2>3. written \in Nat
    BY <2>1, LogAssumption
  <2> QED BY <2>1, <2>2, <2>3, Zenon DEF DiskOK
<1>4. SameFiles(disk.content, opened.content) /\ opened \in DiskType
  BY <1>2, <1>3, OpenSame
<1>5. SameFiles(opened.content, d.content)
  BY <1>2, <1>4, OpenSame
<1>6. PICK a, o, c, e, w, k : /\ a = disk.content /\ o = opened.content /\ c = d.content
                              /\ e = disk'.content /\ w = written /\ k = d.fp
  OBVIOUS
<1>7. a \in Seq(Seq(Nat)) /\ o \in Seq(Seq(Nat)) /\ c \in Seq(Seq(Nat))
  BY <1>3, <1>4, <1>6 DEF DiskType
<1>8. SameFiles(a, c)
  BY <1>4, <1>5, <1>6, <1>7, SameAgain
<1>9. k \in 1..Len(c)
  <2>1. Len(c) \in Nat
    BY <1>7
  <2>2. k \in 0..Len(c)
    BY <1>3, <1>6
  <2>3. k # 0
    BY <1>1, <1>6, Zenon DEF Closed
  <2> QED BY <2>1, <2>2, <2>3
<1>10. e = [c EXCEPT ![k] = Append(@, w + 1)]
  <2>1. PICK x : x = disk'
    OBVIOUS
  <2>2. x = [d EXCEPT !.content[d.fp] = Append(@, w + 1)]
    BY <1>1, <1>6, <2>1
  <2>3. x.content = [d.content EXCEPT ![d.fp] = Append(@, w + 1)]
    BY <1>3, <2>2 DEF DiskType
  <2> QED BY <1>6, <2>1, <2>3
<1>11. Later(a, e, w)
  BY <1>3, <1>6, <1>7, <1>8, <1>9, <1>10, LaterLineAdded
<1> QED BY <1>6, <1>11

LEMMA LaterStep ==
    ASSUME TypeInv, [Next]_vars
    PROVE  Later(disk.content, disk'.content, written)
<1>1. disk \in DiskType
  BY DEF TypeInv, DiskOK
<1>2. CASE log_log
  BY <1>2, LogLater
<1>3. CASE disk'.content = disk.content
  <2>1. PICK c : c = disk.content
    OBVIOUS
  <2>2. SameFiles(c, c)
    <3>1. c \in Seq(Seq(Nat))
      BY <1>1, <2>1 DEF DiskType
    <3>2. Len(c) \in Nat
      BY <3>1
    <3> QED BY <3>2 DEF SameFiles
  <2>3. Later(c, c, written)
    BY <2>2, SameLater
  <2> QED BY <1>3, <2>1, <2>3
<1>4. CASE disk' = log_initialize(disk)
  <2>1. PICK d, e : d = [disk EXCEPT !.fp = Closed] /\ e = disk'
    OBVIOUS
  <2>2. d \in DiskType /\ d.content = disk.content
    BY <1>1, <2>1 DEF DiskType, Closed
  <2>3. e = OpenLog(d)
    BY <1>4, <2>1 DEF log_initialize
  <2>4. SameFiles(d.content, e.content)
    BY <2>2, <2>3, OpenSame
  <2>5. Later(d.content, e.content, written)
    BY <2>4, SameLater
  <2> QED BY <2>1, <2>2, <2>5
<1>5. CASE Free \/ RemoveLog
  <2>1. disk'.content = disk.content
    <3>1. 0 \in Names
      BY LogAssumption DEF Names
    <3> QED BY <1>1, <1>5, <3>1 DEF Free, RemoveLog, log_free, DiskType
  <2> QED BY <1>3, <2>1
<1>6. CASE zclient_init
  BY <1>3, <1>4, <1>6 DEF zclient_init
<1>7. CASE Measure \/ Reopen \/ Look \/ Fetch \/ Scan \/ Overlap \/ UNCHANGED vars
  <2>1. disk' = disk
    BY <1>7 DEF Measure, Reopen, Look, Fetch, Scan, Overlap, vars
  <2> QED BY <1>3, <2>1
<1> QED BY <1>2, <1>5, <1>6, <1>7 DEF Next

(* What was written since an upload looked at the end of its file is in    *)
(* that file, if it is there, beyond that end.                             *)
Newer(c, p, n) == \A i \in 1..Len(c) : LineBytes * i > p => c[i] > n
SinceOK(r, c, m, n) ==
    /\ r.at = "opened" => n = 0
    /\ r.at # "opened" => Newer(c, r.old, n)
    /\ r.at \in {"scan", "fetch"} => Newer(c, r.new, m)
SinceInv ==
    reader.file # Closed => SinceOK(reader, disk.content[reader.file], mark, since)

(* Lines have positive numbers, and none ends beyond the end.              *)
LEMMA NewerEnds ==
    ASSUME NEW c \in Seq(Nat), NEW w, NEW n, \A i \in 1..Len(c) : c[i] \in 1..w
    PROVE  Newer(c, 0, 0) /\ Newer(c, LineBytes * Len(c), n)
<1>1. PICK l : l = Len(c) /\ l \in Nat
  OBVIOUS
<1>2. ASSUME NEW i \in 1..l PROVE c[i] > 0
  <2>1. c[i] \in 1..w
    BY <1>1
  <2>2. PICK x : x = c[i]
    OBVIOUS
  <2> QED BY <2>1, <2>2
<1>3. ASSUME NEW i \in 1..l PROVE ~(LineBytes * i > LineBytes * l)
  <2>1. i \in Nat /\ i <= l
    BY <1>1
  <2>2. LineBytes * i <= LineBytes * l /\ LineBytes * i \in Nat /\ LineBytes * l \in Nat
    BY <1>1, <2>1, Multiples
  <2> QED BY <2>2
<1> QED BY <1>1, <1>2, <1>3 DEF Newer

(* New lines are newer.                                                    *)
LEMMA NewerLater ==
    ASSUME NEW c, NEW e, NEW w \in Nat, NEW p, NEW n \in 0..w, e \in Seq(Nat),
           \A i \in 1..Len(e) : (i \in 1..Len(c) /\ e[i] = c[i]) \/ e[i] > w,
           Newer(c, p, n)
    PROVE  Newer(e, p, n)
<1> SUFFICES ASSUME NEW i \in 1..Len(e), LineBytes * i > p PROVE e[i] > n
  BY DEF Newer
<1>1. CASE i \in 1..Len(c) /\ e[i] = c[i]
  BY <1>1 DEF Newer
<1>2. CASE e[i] > w
  <2>1. PICK x : x = e[i] /\ x \in Nat
    OBVIOUS
  <2>2. x > w
    BY <1>2, <2>1
  <2>3. x > n
    BY <2>1, <2>2
  <2> QED BY <2>1, <2>3
<1> QED BY <1>1, <1>2

(* No step makes a line older than the upload that comes before it.        *)
LEMMA SinceStep ==
    ASSUME TypeInv, ChainInv, SinceInv, [Next]_vars
    PROVE  SinceInv'
<1>1. /\ reader \in ReaderType /\ disk.content \in Seq(Seq(Nat))
      /\ reader.file \in 0..Len(disk.content) /\ Len(disk.content) \in Nat
      /\ reader.at \in {"reopen", "opened", "scan", "fetch"} => reader.file # Closed
      /\ written \in Nat /\ mark \in 0..written /\ since \in 0..written
  BY LogAssumption DEF TypeInv, ReaderOK, DiskOK, DiskType
<1>2. ASSUME NEW f \in 1..Len(disk.content), NEW n
      PROVE  /\ Newer(disk.content[f], 0, 0)
             /\ Newer(disk.content[f], Bytes(f), n)
  <2>1. PICK c : c = disk.content[f]
    OBVIOUS
  <2>2. c \in Seq(Nat)
    BY <1>1, <2>1
  <2>3. \A i \in 1..Len(c) : c[i] \in 1..written
    BY <2>1 DEF ChainInv, Chain
  <2>4. Newer(c, 0, 0) /\ Newer(c, LineBytes * Len(c), n)
    BY <2>2, <2>3, NewerEnds
  <2> QED BY <2>1, <2>4 DEF Bytes
<1>3. CASE reader' = reader /\ mark' = mark /\ since' = since
  <2> SUFFICES ASSUME reader.file # Closed
               PROVE  SinceOK(reader, disk'.content[reader.file], mark, since)
    BY <1>3 DEF SinceInv
  <2>1. PICK f, c, e : f = reader.file /\ c = disk.content[f] /\ e = disk'.content[f]
    OBVIOUS
  <2>2. f \in 1..Len(disk.content)
    BY <1>1, <2>1 DEF Closed
  <2>3. \A i \in 1..Len(e) : (i \in 1..Len(c) /\ e[i] = c[i]) \/ e[i] > written
    <3>1. Later(disk.content, disk'.content, written)
      BY LaterStep
    <3> QED BY <2>1, <2>2, <3>1 DEF Later
  <2>4. e \in Seq(Nat)
    <3>1. TypeInv'
      BY TypeStep
    <3>2. disk'.content \in Seq(Seq(Nat))
      BY <3>1 DEF TypeInv, DiskOK, DiskType
    <3>3. Len(disk.content) <= Len(disk'.content)
      BY ChainStep DEF Grown
    <3>4. f \in 1..Len(disk'.content)
      BY <1>1, <2>2, <3>2, <3>3
    <3> QED BY <2>1, <3>2, <3>4
  <2>5. SinceOK(reader, c, mark, since)
    BY <2>1 DEF SinceInv
  <2>6. ASSUME NEW p, NEW n \in 0..written, Newer(c, p, n) PROVE Newer(e, p, n)
    BY <1>1, <2>3, <2>4, <2>6, NewerLater
  <2>7. SinceOK(reader, e, mark, since)
    BY <1>1, <2>5, <2>6 DEF SinceOK
  <2> QED BY <2>1, <2>7
<1>4. CASE log_log \/ Free \/ RemoveLog \/ UNCHANGED vars
  BY <1>3, <1>4 DEF log_log, Free, RemoveLog, vars
<1>5. CASE Tangle
  <2>1. reader'.file = Closed
    BY <1>5 DEF Tangle
  <2> QED BY <2>1 DEF SinceInv
<1>6. CASE zclient_init
  <2> SUFFICES ASSUME NEW f, f = disk'.name[0], initialize_cloud_log(f) PROVE SinceInv'
    BY <1>5, <1>6 DEF zclient_init
  <2>1. PICK r, e : r = reader' /\ e = disk'.content
    OBVIOUS
  <2>2. r.file = f /\ r.at = "idle" /\ (f # Closed => r.old = 0) /\ since' = 0
    BY <1>1, <2>1 DEF initialize_cloud_log, ReaderType
  <2> SUFFICES ASSUME f # Closed PROVE SinceOK(r, e[f], mark', since')
    BY <2>1, <2>2 DEF SinceInv
  <2>3. ChainInv' /\ TypeInv'
    BY ChainStep, TypeStep
  <2>4. e \in Seq(Seq(Nat)) /\ f \in 1..Len(e)
    <3>1. 0 \in Names
      BY LogAssumption DEF Names
    <3>2. e \in Seq(Seq(Nat)) /\ f \in 0..Len(e)
      BY <2>1, <2>3, <3>1 DEF TypeInv, DiskOK, DiskType
    <3> QED BY <3>2 DEF Closed
  <2>5. PICK c, w : c = e[f] /\ w = written'
    OBVIOUS
  <2>6. c \in Seq(Nat) /\ \A i \in 1..Len(c) : c[i] \in 1..w
    <3>1. c \in Seq(Nat)
      BY <2>4, <2>5
    <3>2. \A i \in 1..Len(c) : c[i] \in 1..w
      BY <2>1, <2>3, <2>4, <2>5 DEF ChainInv, Chain
    <3> QED BY <3>1, <3>2
  <2>7. Newer(c, 0, 0)
    BY <2>6, NewerEnds
  <2> QED BY <2>2, <2>5, <2>7 DEF SinceOK
<1>7. CASE Measure
  <2>1. reader.file # Closed /\ disk' = disk /\ reader.at = "idle" /\ since' = since
    BY <1>7 DEF Measure
  <2>2. PICK f, c, r : f = reader.file /\ c = disk.content[f] /\ r = reader'
    OBVIOUS
  <2>3. f \in 1..Len(disk.content)
    BY <1>1, <2>1, <2>2 DEF Closed
  <2>4. Newer(c, reader.old, since)
    BY <2>1, <2>2 DEF SinceInv, SinceOK
  <2>5. /\ r.file = f /\ r.old = reader.old
        /\ r.at = "reopen" \/ (r.at = "scan" /\ r.new = Bytes(f))
    BY <1>1, <1>7, <2>2 DEF Measure, ReaderType
  <2>6. Newer(c, Bytes(f), mark')
    BY <1>2, <2>2, <2>3
  <2>7. SinceOK(r, c, mark', since')
    BY <2>1, <2>4, <2>5, <2>6 DEF SinceOK
  <2> QED BY <2>1, <2>2, <2>5, <2>7 DEF SinceInv
<1>8. CASE Reopen
  <2>1. PICK r : r = reader'
    OBVIOUS
  <2>2. (r.file = Closed \/ r.at = "opened") /\ since' = 0
    BY <1>1, <1>8, <2>1 DEF Reopen, ReaderType
  <2>3. r.file # Closed => SinceOK(r, disk'.content[r.file], mark', since')
    BY <2>2 DEF SinceOK
  <2> QED BY <2>1, <2>3 DEF SinceInv
<1>9. CASE Look
  <2>1. reader.file # Closed /\ disk' = disk /\ reader.at = "opened" /\ since' = since
    BY <1>1, <1>9 DEF Look
  <2>2. PICK f, c, r : f = reader.file /\ c = disk.content[f] /\ r = reader'
    OBVIOUS
  <2>3. f \in 1..Len(disk.content)
    BY <1>1, <2>1, <2>2 DEF Closed
  <2>4. since' = 0
    BY <2>1 DEF SinceInv, SinceOK
  <2>5. r.file = f /\ r.at = "scan" /\ r.old = 0 /\ r.new = Bytes(f)
    BY <1>1, <1>9, <2>2 DEF Look, ReaderType
  <2>6. Newer(c, 0, 0) /\ Newer(c, Bytes(f), mark')
    BY <1>2, <2>2, <2>3
  <2>7. SinceOK(r, c, mark', since')
    BY <2>4, <2>5, <2>6 DEF SinceOK
  <2> QED BY <2>1, <2>2, <2>5, <2>7 DEF SinceInv
<1>10. CASE Scan
  <2>1. /\ reader.file # Closed /\ disk' = disk /\ reader.at = "scan"
        /\ mark' = mark /\ since' = since
    BY <1>1, <1>10 DEF Scan
  <2>2. PICK f, c, r : f = reader.file /\ c = disk.content[f] /\ r = reader'
    OBVIOUS
  <2>3. r.file = f /\ r.at = "fetch" /\ r.old = reader.old /\ r.new = reader.new
    BY <1>10, <2>2, ScanOK
  <2>4. Newer(c, reader.old, since) /\ Newer(c, reader.new, mark)
    BY <2>1, <2>2 DEF SinceInv, SinceOK
  <2>5. SinceOK(r, c, mark', since')
    BY <2>1, <2>3, <2>4 DEF SinceOK
  <2> QED BY <2>1, <2>2, <2>3, <2>5 DEF SinceInv
<1>11. CASE Fetch
  <2>1. reader.file # Closed /\ disk' = disk /\ reader.at = "fetch" /\ since' = mark
    BY <1>1, <1>11 DEF Fetch
  <2>2. PICK f, c, r : f = reader.file /\ c = disk.content[f] /\ r = reader'
    OBVIOUS
  <2>3. r.file = f /\ r.at = "idle" /\ r.old = reader.new
    BY <1>1, <1>11, <2>2 DEF Fetch, ReaderType
  <2>4. Newer(c, reader.new, mark)
    BY <2>1, <2>2 DEF SinceInv, SinceOK
  <2>5. SinceOK(r, c, mark', since')
    BY <2>1, <2>3, <2>4 DEF SinceOK
  <2> QED BY <2>1, <2>2, <2>3, <2>5 DEF SinceInv
<1>12. CASE Overlap
  BY <1>5, <1>12 DEF Overlap
<1> QED BY <1>4, <1>6, <1>7, <1>8, <1>9, <1>10, <1>11, <1>12 DEF Next

(* A function on 1..n is a sequence of length n.                           *)
LEMMA RunOf ==
    ASSUME NEW n \in Nat, NEW g, DOMAIN g = 1..n, \A i \in 1..n : g[i] \in Nat,
           g = [i \in DOMAIN g |-> g[i]]
    PROVE  g \in Seq(Nat) /\ Len(g) = n
<1>1. g \in [1..n -> Nat]
  OBVIOUS
<1> QED BY <1>1

(* The first k of a sequence.                                              *)
LEMMA FirstOf ==
    ASSUME NEW t \in Seq(Nat), NEW k \in Nat, k <= Len(t), NEW u, u = SubSeq(t, 1, k)
    PROVE  u \in Seq(Nat) /\ Len(u) = k /\ \A i \in 1..k : u[i] = t[i]
OBVIOUS

(* What is uploaded of some lines, and that without a blank at its start.  *)
Counted(t, count) == SubSeq(t, 1, Min({count, Len(t)}))
NonBlank(u) == IF u # <<>> /\ u[1] = Blank THEN Tail(u) ELSE u

(* Lines x + 1, x + 2, ..., the first of them blank if z is 1.             *)
Numbered(t, x) == \A i \in 1..Len(t) : t[i] = x + i
Led(t, x, z) == \A i \in 1..Len(t) : t[i] = IF i = 1 /\ z = 1 THEN Blank ELSE x + i

(* The numbers in a run of lines.                                          *)
LEMMA RunSet ==
    ASSUME NEW t \in Seq(Nat), NEW v \in Nat, NEW lo \in Nat, NEW hi \in Nat, lo > 0,
           Len(t) = IF hi >= lo THEN hi - lo + 1 ELSE 0, Numbered(t, v + (lo - 1))
    PROVE  ToSet(t) = (v + lo)..(v + hi)
<1>1. DOMAIN t = 1..Len(t)
  OBVIOUS
<1>2. ASSUME NEW x \in ToSet(t) PROVE x \in (v + lo)..(v + hi)
  <2>1. PICK i \in 1..Len(t) : x = t[i]
    BY <1>1 DEF ToSet
  <2>2. x = v + (lo - 1) + i
    BY <2>1 DEF Numbered
  <2>3. i \in Nat /\ i >= 1 /\ hi >= lo /\ i <= hi - lo + 1
    BY <2>1
  <2> QED BY <2>2, <2>3
<1>3. ASSUME NEW x \in (v + lo)..(v + hi) PROVE x \in ToSet(t)
  <2>1. PICK i : i = x - v - (lo - 1)
    OBVIOUS
  <2>2. hi >= lo /\ i \in 1..(hi - lo + 1) /\ x = v + (lo - 1) + i
    BY <2>1
  <2>3. i \in 1..Len(t)
    BY <2>2
  <2>4. x = t[i]
    BY <2>2, <2>3 DEF Numbered
  <2> QED BY <1>1, <2>3, <2>4 DEF ToSet
<1> QED BY <1>2, <1>3

(* A sequence without elements.                                            *)
LEMMA NoneOf ==
    ASSUME NEW u \in Seq(Nat), Len(u) = 0
    PROVE  u = <<>>
OBVIOUS

(* The rest of a sequence.                                                 *)
LEMMA RestOf ==
    ASSUME NEW u \in Seq(Nat), Len(u) > 0, NEW w, w = Tail(u)
    PROVE  w \in Seq(Nat) /\ Len(w) = Len(u) - 1 /\ \A i \in 1..(Len(u) - 1) : w[i] = u[i + 1]
<1>1. u # <<>>
  OBVIOUS
<1> QED BY <1>1

(* The lines after line q, when reading starts at byte r of the next: the  *)
(* first is blank when only its newline is left.                           *)
After(c, q, r) ==
    [i \in 1..(Len(c) - q) |-> IF i = 1 /\ r = LineBytes - 1 THEN Blank ELSE c[q + i]]
Blanks(r) == IF r = LineBytes - 1 THEN 1 ELSE 0

(* They are consecutive.                                                   *)
LEMMA AfterRun ==
    ASSUME NEW c \in Seq(Nat), NEW q \in Nat, q <= Len(c), NEW v \in Nat, Numbered(c, v),
           NEW r
    PROVE  /\ After(c, q, r) \in Seq(Nat) /\ Len(After(c, q, r)) = Len(c) - q
           /\ Led(After(c, q, r), v + q, Blanks(r))
<1>1. PICK n, t, l : n = Len(c) - q /\ t = After(c, q, r) /\ l = Len(c)
  OBVIOUS
<1>2. l \in Nat /\ n \in Nat /\ n = l - q
  BY <1>1
<1>3. DOMAIN t = 1..n /\ t = [i \in DOMAIN t |-> t[i]]
  BY <1>1 DEF After
<1>4. ASSUME NEW i \in 1..n
      PROVE  t[i] = IF i = 1 /\ Blanks(r) = 1 THEN Blank ELSE (v + q) + i
  <2>1. t[i] = IF i = 1 /\ r = LineBytes - 1 THEN Blank ELSE c[q + i]
    BY <1>1 DEF After
  <2>2. (Blanks(r) = 1) <=> (r = LineBytes - 1)
    BY DEF Blanks
  <2>3. q + i \in 1..l /\ i \in Nat
    BY <1>2
  <2>4. c[q + i] = v + (q + i)
    BY <1>1, <2>3 DEF Numbered
  <2>5. v + (q + i) = (v + q) + i
    BY <2>3
  <2> QED BY <2>1, <2>2, <2>4, <2>5
<1>5. ASSUME NEW i \in 1..n PROVE t[i] \in Nat
  <2>1. t[i] = 0 \/ t[i] = (v + q) + i
    BY <1>4 DEF Blank
  <2>2. (v + q) + i \in Nat
    BY <1>2
  <2> QED BY <2>1, <2>2
<1>6. t \in Seq(Nat) /\ Len(t) = n
  BY <1>2, <1>3, <1>5, RunOf
<1>7. Led(t, v + q, Blanks(r))
  BY <1>4, <1>6 DEF Led
<1> QED BY <1>1, <1>6, <1>7

(* fetch_log sends count lines, if there are as many.                      *)
LEMMA CountedRun ==
    ASSUME NEW t \in Seq(Nat), NEW n \in Nat, Len(t) = n, NEW count \in Nat,
           NEW x, NEW z, Led(t, x, z), NEW u, u = Counted(t, count)
    PROVE  /\ u \in Seq(Nat) /\ Len(u) = IF count <= n THEN count ELSE n
           /\ Led(u, x, z)
<1>1. PICK k : k = IF count <= n THEN count ELSE n
  OBVIOUS
<1>2. k \in Nat /\ k <= n
  BY <1>1
<1>3. u = SubSeq(t, 1, k)
  <2>1. count \in Int /\ n \in Int
    OBVIOUS
  <2>2. Min({count, n}) = k
    BY <1>1, <2>1, PairMin
  <2> QED BY <2>2 DEF Counted
<1>4. u \in Seq(Nat) /\ Len(u) = k /\ \A i \in 1..k : u[i] = t[i]
  BY <1>2, <1>3, FirstOf
<1>5. \A i \in 1..k : i \in 1..n
  BY <1>2
<1>6. Led(u, x, z)
  BY <1>4, <1>5, Zenon DEF Led
<1> QED BY <1>1, <1>4, <1>6

(* The number of lines that are uploaded, and of those without a blank.    *)
Fewest(a, b) == IF a <= b THEN a ELSE b
Shortened(k, z) == IF k > 0 THEN k - z ELSE 0
UpTo(lo, hi) == IF hi >= lo THEN hi - lo + 1 ELSE 0

(* Without the blank.                                                      *)
LEMMA WithoutBlank ==
    ASSUME NEW u \in Seq(Nat), NEW x \in Nat, NEW z \in {0, 1}, Led(u, x, z)
    PROVE  /\ NonBlank(u) \in Seq(Nat) /\ Len(NonBlank(u)) = Shortened(Len(u), z)
           /\ Numbered(NonBlank(u), x + z)
<1>0. PICK w, k : w = NonBlank(u) /\ k = Len(u) /\ k \in Nat
  OBVIOUS
<1>1. CASE k = 0
  <2>1. u = <<>>
    <3>1. Len(u) = 0
      BY <1>0, <1>1
    <3> QED BY <3>1, NoneOf
  <2>2. w = u
    BY <1>0, <2>1 DEF NonBlank
  <2>3. Shortened(k, z) = 0
    BY <1>1 DEF Shortened
  <2>4. Len(w) = 0
    BY <1>0, <1>1, <2>2
  <2>5. Numbered(w, x + z)
    BY <2>4 DEF Numbered
  <2> QED BY <1>0, <2>2, <2>3, <2>4, <2>5
<1>2. CASE k > 0 /\ z = 1
  <2>1. 1 \in 1..k /\ u # <<>> /\ Len(u) > 0
    BY <1>0, <1>2
  <2>2. u[1] = Blank
    BY <1>0, <1>2, <2>1 DEF Led
  <2>3. w = Tail(u)
    BY <1>0, <2>1, <2>2 DEF NonBlank
  <2>4. w \in Seq(Nat) /\ Len(w) = k - 1 /\ \A i \in 1..(k - 1) : w[i] = u[i + 1]
    BY <1>0, <2>1, <2>3, RestOf
  <2>5. ASSUME NEW i \in 1..(k - 1) PROVE w[i] = (x + 1) + i
    <3>1. i + 1 \in 1..k /\ i + 1 # 1 /\ i \in Nat
      BY <1>0
    <3>2. w[i] = x + (i + 1)
      BY <1>0, <2>4, <3>1 DEF Led
    <3>3. x + (i + 1) = (x + 1) + i
      BY <3>1
    <3> QED BY <3>2, <3>3
  <2>6. Numbered(w, x + 1)
    BY <2>4, <2>5 DEF Numbered
  <2>7. Shortened(k, z) = k - 1
    BY <1>2 DEF Shortened
  <2> QED BY <1>0, <1>2, <2>4, <2>6, <2>7
<1>3. CASE k > 0 /\ z = 0
  <2>1. 1 \in 1..k
    BY <1>0, <1>3
  <2>2. u[1] = x + 1
    BY <1>0, <1>3, <2>1 DEF Led
  <2>3. u[1] # Blank
    BY <2>2 DEF Blank
  <2>4. w = u
    BY <1>0, <2>3 DEF NonBlank
  <2>5. Shortened(k, z) = k /\ x + z = x
    BY <1>0, <1>3 DEF Shortened
  <2>6. \A i \in 1..k : w[i] = x + i
    BY <1>0, <1>3, <2>4 DEF Led
  <2>7. Numbered(w, x)
    BY <1>0, <2>4, <2>6 DEF Numbered
  <2> QED BY <1>0, <2>4, <2>5, <2>7
<1>4. k = 0 \/ (k > 0 /\ z = 1) \/ (k > 0 /\ z = 0)
  BY <1>0
<1> QED BY <1>1, <1>2, <1>3, <1>4

(* Where the first line is blank.                                          *)
LEMMA BlankFirst ==
    ASSUME NEW pos \in Nat, NEW q \in Nat, InLine(pos, q)
    PROVE  /\ Blanks(pos % LineBytes) \in {0, 1}
           /\ First(pos, q) = q + 1 + Blanks(pos % LineBytes)
<1>1. LineBytes \in Nat /\ LineBytes > 1
  BY LineLength, Zenon
<1>2. LineBytes * q \in Nat
  BY Multiples
<1>3. pos % LineBytes = pos - LineBytes * q
  BY LineUnique
<1>4. PICK r, x : r = pos % LineBytes /\ x = LineBytes * q
  OBVIOUS
<1>5. (r = LineBytes - 1) <=> (pos = x + (LineBytes - 1))
  BY <1>1, <1>2, <1>3, <1>4
<1>6. CASE r = LineBytes - 1
  <2>1. First(pos, q) = q + 2 /\ Blanks(r) = 1
    BY <1>4, <1>5, <1>6 DEF First, Blanks
  <2>2. q + 2 = q + 1 + 1
    OBVIOUS
  <2> QED BY <1>4, <2>1, <2>2
<1>7. CASE r # LineBytes - 1
  <2>1. First(pos, q) = q + 1 /\ Blanks(r) = 0
    BY <1>4, <1>5, <1>7 DEF First, Blanks
  <2>2. q + 1 = q + 1 + 0
    OBVIOUS
  <2> QED BY <1>4, <2>1, <2>2
<1> QED BY <1>6, <1>7

(* What is sent of lines that start with a blank or not.                   *)
LEMMA SentRun ==
    ASSUME NEW t \in Seq(Nat), NEW count \in Nat, NEW x \in Nat, NEW z \in {0, 1}, Led(t, x, z)
    PROVE  /\ NonBlank(Counted(t, count)) \in Seq(Nat)
           /\ Len(NonBlank(Counted(t, count))) = Shortened(Fewest(count, Len(t)), z)
           /\ Numbered(NonBlank(Counted(t, count)), x + z)
<1>1. PICK n, u : n = Len(t) /\ u = Counted(t, count)
  OBVIOUS
<1>2. n \in Nat
  BY <1>1
<1>3. u \in Seq(Nat) /\ Len(u) = Fewest(count, n) /\ Led(u, x, z)
  BY <1>1, <1>2, CountedRun, ZenonT(60) DEF Fewest
<1>4. /\ NonBlank(u) \in Seq(Nat) /\ Len(NonBlank(u)) = Shortened(Len(u), z)
      /\ Numbered(NonBlank(u), x + z)
  BY <1>3, WithoutBlank
<1> QED BY <1>1, <1>3, <1>4

(* Its length, by the number of the last line.                             *)
LEMMA RunLength ==
    ASSUME NEW q \in Nat, NEW l \in Nat, q <= l, NEW count \in Nat, NEW z \in {0, 1}
    PROVE  Shortened(Fewest(count, l - q), z)
              = IF Fewest(q + count, l) >= q + 1 + z
                THEN Fewest(q + count, l) - (q + 1 + z) + 1 ELSE 0
<1>1. PICK k, hi : k = Fewest(count, l - q) /\ hi = Fewest(q + count, l)
  OBVIOUS
<1>2. k \in Nat /\ hi = q + k
  BY <1>1 DEF Fewest
<1>3. CASE z = 0
  BY <1>1, <1>2, <1>3 DEF Shortened
<1>4. CASE z = 1
  BY <1>1, <1>2, <1>4 DEF Shortened
<1> QED BY <1>3, <1>4

(* fgets takes at least one piece of a line, and one if it fits.           *)
LEMMA SomePieces ==
    ASSUME NEW n \in Nat, n > 0
    PROVE  Pieces(n) \in Nat /\ Pieces(n) > 0
<1>1. LINE_SIZE \in Nat /\ LINE_SIZE > 1
  BY LineLength, Zenon
<1>2. PICK a, b, p : a = n + LINE_SIZE - 2 /\ b = LINE_SIZE - 1 /\ p = a \div b
  OBVIOUS
<1>3. a \in Nat /\ b \in Nat /\ b > 0 /\ a >= b
  BY <1>1, <1>2
<1>4. p \in Nat /\ p * b <= a /\ a < p * b + b
  BY <1>2, <1>3, Division
<1>5. p # 0
  BY <1>3, <1>4
<1>6. Pieces(n) = p
  BY <1>2 DEF Pieces
<1> QED BY <1>4, <1>5, <1>6

LEMMA OnePiece ==
    ASSUME NEW n \in Nat, n > 0, n < LINE_SIZE
    PROVE  Pieces(n) = 1
<1>1. LINE_SIZE \in Nat /\ LINE_SIZE > 1
  BY LineLength, Zenon
<1>2. PICK a, b, r : a = n + LINE_SIZE - 2 /\ b = LINE_SIZE - 1 /\ r = n - 1
  OBVIOUS
<1>3. a \in Nat /\ b \in Nat /\ r \in Nat /\ r < b /\ 1 \in Nat
  BY <1>1, <1>2
<1>4. a = b * 1 + r
  BY <1>1, <1>2
<1>5. a \div b = 1
  BY <1>3, <1>4, Quotient
<1> QED BY <1>2, <1>5 DEF Pieces

(* Dividing the next number, and a smaller one.                            *)
LEMMA DivStep ==
    ASSUME NEW x \in Nat, NEW b \in Nat, b > 0
    PROVE  x \div b \in Nat /\ (x + 1) \div b \in {x \div b, x \div b + 1}
<1>1. PICK p, m, y : p = x \div b /\ m = b * p /\ y = x + 1
  OBVIOUS
<1>2. p \in Nat /\ p * b <= x /\ x < p * b + b
  BY <1>1, Division
<1>3. m \in Nat /\ m <= x /\ x < m + b
  BY <1>1, <1>2
<1>4. PICK r : r = x - m
  OBVIOUS
<1>5. r \in Nat /\ r < b /\ x = m + r
  BY <1>3, <1>4
<1>6. CASE r + 1 < b
  <2>1. y \in Nat /\ r + 1 \in Nat /\ y = b * p + (r + 1)
    BY <1>1, <1>3, <1>5
  <2>2. y \div b = p
    BY <1>2, <1>6, <2>1, Quotient
  <2> QED BY <1>1, <1>2, <2>2
<1>7. CASE r + 1 >= b
  <2>1. y \in Nat /\ y = m + b
    BY <1>1, <1>3, <1>5, <1>7
  <2>2. b * (p + 1) = m + b /\ p + 1 \in Nat
    BY <1>1, <1>2, MultipleNext
  <2>3. y = b * (p + 1) + 0
    BY <2>1, <2>2
  <2>4. y \div b = p + 1
    <3>1. 0 \in Nat /\ 0 < b
      OBVIOUS
    <3> QED BY <2>1, <2>2, <2>3, <3>1, Quotient
  <2> QED BY <1>1, <1>2, <2>4
<1> QED BY <1>5, <1>6, <1>7

LEMMA DivBound ==
    ASSUME NEW x \in Nat, NEW b \in Nat, b > 0, NEW k \in Nat, x < k * b
    PROVE  x \div b < k
<1>1. PICK p, m, n : p = x \div b /\ m = b * p /\ n = b * k
  OBVIOUS
<1>2. p \in Nat /\ p * b <= x
  BY <1>1, Division
<1>3. m <= x /\ x < n /\ m \in Nat /\ n \in Nat
  BY <1>1, <1>2
<1>4. (b * k <= b * p) <=> (k <= p)
  BY <1>2, MultipleOrder
<1>5. ~(k <= p)
  BY <1>1, <1>3, <1>4
<1> QED BY <1>1, <1>2, <1>5

(* From one piece to the next, the line is the same or the next one.       *)
LEMMA PieceStep ==
    ASSUME NEW head \in Nat, head > 0, NEW i \in Nat, i > 0
    PROVE  /\ PieceLine(i, head) \in Nat
           /\ PieceLine(i + 1, head) \in {PieceLine(i, head), PieceLine(i, head) + 1}
<1>1. PICK w : w = Pieces(LineBytes)
  OBVIOUS
<1>2. w \in Nat /\ w > 0
  BY <1>1, LineLength, SomePieces
<1>3. CASE i + 1 <= head
  BY <1>3 DEF PieceLine
<1>4. CASE i = head
  <2>1. (i + 1) - head - 1 = 0 /\ ~(i + 1 <= head) /\ i <= head
    BY <1>4
  <2>2. 0 \div w = 0
    <3>1. 0 \in Nat /\ 0 < w /\ 0 = w * 0 + 0
      BY <1>2
    <3> QED BY <1>2, <3>1, Quotient
  <2>3. PieceLine(i, head) = 0 /\ PieceLine(i + 1, head) = 0 + 1
    BY <1>1, <2>1, <2>2 DEF PieceLine
  <2> QED BY <2>3
<1>5. CASE i > head
  <2>1. PICK x : x = i - head - 1
    OBVIOUS
  <2>2. x \in Nat /\ (i + 1) - head - 1 = x + 1 /\ ~(i <= head) /\ ~(i + 1 <= head)
    BY <1>5, <2>1
  <2>3. PICK a, b : a = x \div w /\ b = (x + 1) \div w
    OBVIOUS
  <2>4. a \in Nat /\ b \in {a, a + 1}
    BY <1>2, <2>2, <2>3, DivStep
  <2>5. PieceLine(i, head) = a + 1 /\ PieceLine(i + 1, head) = b + 1
    BY <1>1, <2>1, <2>2, <2>3 DEF PieceLine
  <2> QED BY <2>4, <2>5
<1> QED BY <1>3, <1>4, <1>5

LEMMA PieceBound ==
    ASSUME NEW head \in Nat, NEW i \in Nat, NEW k \in Nat,
           i <= head + k * Pieces(LineBytes)
    PROVE  PieceLine(i, head) <= k
<1>1. PICK w, m : w = Pieces(LineBytes) /\ m = k * w
  OBVIOUS
<1>2. w \in Nat /\ w > 0
  BY <1>1, LineLength, SomePieces
<1>3. m \in Nat /\ i <= head + m
  BY <1>1, <1>2
<1>4. CASE i <= head
  BY <1>4 DEF PieceLine
<1>5. CASE ~(i <= head)
  <2>1. PICK x, a : x = i - head - 1 /\ a = x \div w
    OBVIOUS
  <2>2. x \in Nat /\ x < m
    BY <1>3, <1>5, <2>1
  <2>3. a < k /\ a \in Nat
    BY <1>1, <1>2, <2>1, <2>2, DivBound, DivStep
  <2>4. PieceLine(i, head) = a + 1
    BY <1>1, <1>5, <2>1 DEF PieceLine
  <2> QED BY <2>3, <2>4
<1> QED BY <1>4, <1>5

(* Behind a single piece of the first line come later lines; with one      *)
(* piece in each line they come one by one.                                *)
LEMMA PieceLater ==
    ASSUME NEW i \in Nat, i > 1
    PROVE  /\ PieceLine(i, 1) \in Nat /\ PieceLine(i, 1) >= 1
           /\ Fits => PieceLine(i, 1) = i - 1
<1>1. PICK w, x, a : w = Pieces(LineBytes) /\ x = i - 2 /\ a = x \div w
  OBVIOUS
<1>2. w \in Nat /\ w > 0 /\ x \in Nat
  BY <1>1, LineLength, SomePieces
<1>3. a \in Nat
  BY <1>1, <1>2, DivStep
<1>4. PieceLine(i, 1) = a + 1
  <2>1. i - 1 - 1 = x /\ ~(i <= 1)
    BY <1>1
  <2> QED BY <1>1, <2>1 DEF PieceLine
<1>5. ASSUME Fits PROVE a = x
  <2>1. w = 1
    <3>1. LineBytes \in Nat /\ LineBytes > 0
      BY LineLength, Zenon
    <3> QED BY <1>1, <1>5, <3>1, OnePiece DEF Fits
  <2>2. x = 1 * x + 0 /\ 1 \in Nat /\ 0 \in Nat /\ 0 < 1
    BY <1>2
  <2>3. x \div 1 = x
    BY <1>2, <2>2, Quotient
  <2> QED BY <1>1, <2>1, <2>3
<1>6. x + 1 = i - 1
  BY <1>1
<1> QED BY <1>3, <1>4, <1>5, <1>6

(* The pieces from byte r of line q + 1 on, of which it has head.          *)
Pieced(c, q, r, head) ==
    [i \in 1..(IF q < Len(c) THEN head + (Len(c) - q - 1) * Pieces(LineBytes) ELSE 0) |->
        IF i = 1 /\ r = LineBytes - 1 THEN Blank ELSE c[q + 1 + PieceLine(i, head)]]

(* Behind z blanks, numbers from lo to hi without a gap.                   *)
Climbs(t, lo, hi, z) ==
    /\ \A i \in 1..Len(t) : i <= z => t[i] = Blank
    /\ \A i \in 1..Len(t) : i > z => t[i] \in lo..hi
    /\ \A i \in 1..(Len(t) - 1) : i > z => t[i + 1] \in {t[i], t[i] + 1}

LEMMA PiecedClimbs ==
    ASSUME NEW c \in Seq(Nat), NEW q \in Nat, q <= Len(c), NEW v \in Nat, Numbered(c, v),
           NEW r \in Nat, r < LineBytes, NEW head, head = Pieces(LineBytes - r)
    PROVE  /\ Pieced(c, q, r, head) \in Seq(Nat)
           /\ Climbs(Pieced(c, q, r, head), v + q + 1 + Blanks(r), v + Len(c), Blanks(r))
<1>1. PICK l, k, n, t, z : /\ l = Len(c) /\ k = l - q - 1 /\ z = Blanks(r)
                           /\ n = (IF q < l THEN head + k * Pieces(LineBytes) ELSE 0)
                           /\ t = Pieced(c, q, r, head)
  OBVIOUS
<1>2. l \in Nat /\ q <= l /\ LineBytes \in Nat /\ LineBytes > 1
  BY <1>1, LineLength
<1>3. head \in Nat /\ head > 0
  <2>1. LineBytes - r \in Nat /\ LineBytes - r > 0
    BY <1>2
  <2> QED BY <2>1, SomePieces
<1>4. /\ z \in {0, 1} /\ (z = 1 <=> r = LineBytes - 1)
      /\ z = 1 => head = 1
  <2>1. z \in {0, 1} /\ (z = 1 <=> r = LineBytes - 1)
    BY <1>1 DEF Blanks
  <2>2. ASSUME r = LineBytes - 1 PROVE head = 1
    <3>1. LineBytes - r = 1
      BY <1>2, <2>2
    <3>2. 1 \in Nat /\ 1 > 0 /\ 1 < LINE_SIZE
      BY LineLength
    <3>3. Pieces(1) = 1
      BY <3>2, OnePiece
    <3> QED BY <3>1, <3>3
  <2> QED BY <2>1, <2>2
<1>5. n \in Nat
  <2>1. Pieces(LineBytes) \in Nat
    BY <1>2, SomePieces
  <2>2. CASE q < l
    <3>1. k \in Nat
      BY <1>1, <1>2, <2>2
    <3>2. k * Pieces(LineBytes) \in Nat
      BY <2>1, <3>1
    <3> QED BY <1>1, <1>3, <2>2, <3>2
  <2>3. CASE ~(q < l)
    BY <1>1, <2>3
  <2> QED BY <2>2, <2>3
<1>6. /\ DOMAIN t = 1..n /\ t = [i \in DOMAIN t |-> t[i]]
      /\ \A i \in 1..n : t[i] = IF i = 1 /\ r = LineBytes - 1 THEN Blank
                                ELSE c[q + 1 + PieceLine(i, head)]
  BY <1>1 DEF Pieced
<1>7. ASSUME NEW i \in 1..n
      PROVE  /\ i <= z => t[i] = Blank
             /\ i > z => /\ t[i] = v + q + 1 + PieceLine(i, head)
                         /\ t[i] \in (v + q + 1 + z)..(v + l)
  <2>1. i \in Nat /\ i > 0 /\ q < l /\ i <= head + k * Pieces(LineBytes)
    <3>1. q < l
      BY <1>1, <1>5
    <3> QED BY <1>1, <1>5, <3>1
  <2>2. k \in Nat /\ k = l - q - 1
    BY <1>1, <1>2, <2>1
  <2>3. PICK j : j = PieceLine(i, head)
    OBVIOUS
  <2>4. j \in Nat /\ j <= k
    BY <1>3, <2>1, <2>2, <2>3, PieceStep, PieceBound
  <2>5. ASSUME i <= z PROVE t[i] = Blank
    <3>1. i = 1 /\ r = LineBytes - 1
      BY <1>4, <2>1, <2>5
    <3> QED BY <1>6, <3>1
  <2>6. ASSUME i > z PROVE t[i] = v + q + 1 + j /\ t[i] \in (v + q + 1 + z)..(v + l)
    <3>1. ~(i = 1 /\ r = LineBytes - 1)
      BY <1>4, <2>6
    <3>2. t[i] = c[q + 1 + j]
      BY <1>6, <2>3, <3>1
    <3>3. q + 1 + j \in 1..l
      BY <1>2, <2>2, <2>4
    <3>4. c[q + 1 + j] = v + (q + 1 + j)
      BY <1>1, <3>3 DEF Numbered
    <3>5. v + (q + 1 + j) = v + q + 1 + j
      BY <2>4
    <3>6. z <= j
      <4>1. CASE z = 0
        BY <2>4, <4>1
      <4>2. CASE z = 1
        <5>1. i > 1 /\ head = 1
          BY <1>4, <2>6, <4>2
        <5> QED BY <2>1, <2>3, <4>2, <5>1, PieceLater
      <4> QED BY <1>4, <4>1, <4>2
    <3>7. v + q + 1 + j \in (v + q + 1 + z)..(v + l)
      BY <1>2, <1>4, <2>2, <2>4, <3>6
    <3> QED BY <3>2, <3>4, <3>5, <3>7
  <2> QED BY <2>3, <2>5, <2>6
<1>8. t \in Seq(Nat) /\ Len(t) = n
  <2>1. ASSUME NEW i \in 1..n PROVE t[i] \in Nat
    <3>1. i <= z \/ i > z
      BY <1>4
    <3>2. CASE i <= z
      BY <1>7, <3>2 DEF Blank
    <3>3. CASE i > z
      <4>1. PICK x : x = t[i] /\ x \in (v + q + 1 + z)..(v + l)
        BY <1>7, <3>3
      <4>2. x \in Nat
        BY <1>2, <1>4, <4>1
      <4> QED BY <4>1, <4>2
    <3> QED BY <3>1, <3>2, <3>3
  <2> QED BY <1>5, <1>6, <2>1, RunOf
<1>9. ASSUME NEW i \in 1..(n - 1), i > z PROVE t[i + 1] \in {t[i], t[i] + 1}
  <2>1. i \in 1..n /\ i + 1 \in 1..n /\ i \in Nat /\ i > 0 /\ i + 1 > z
    BY <1>4, <1>5, <1>9
  <2>2. PICK a, b : a = PieceLine(i, head) /\ b = PieceLine(i + 1, head)
    OBVIOUS
  <2>3. a \in Nat /\ b \in {a, a + 1}
    BY <1>3, <2>1, <2>2, PieceStep
  <2>4. t[i] = v + q + 1 + a /\ t[i + 1] = v + q + 1 + b
    BY <1>7, <1>9, <2>1, <2>2
  <2>5. v + q + 1 + (a + 1) = (v + q + 1 + a) + 1
    BY <2>3
  <2> QED BY <2>3, <2>4, <2>5
<1>10. Climbs(t, v + q + 1 + z, v + l, z)
  BY <1>7, <1>8, <1>9 DEF Climbs
<1> QED BY <1>1, <1>8, <1>10

(* So are the first of them, and without the blank.                        *)
LEMMA CountedClimbs ==
    ASSUME NEW t \in Seq(Nat), NEW count \in Nat, NEW lo, NEW hi, NEW z,
           Climbs(t, lo, hi, z), NEW u, u = Counted(t, count)
    PROVE  u \in Seq(Nat) /\ Climbs(u, lo, hi, z)
<1>1. PICK n, k : n = Len(t) /\ n \in Nat /\ k = IF count <= n THEN count ELSE n
  OBVIOUS
<1>2. k \in Nat /\ k <= n
  BY <1>1
<1>3. u = SubSeq(t, 1, k)
  <2>1. count \in Int /\ n \in Int
    BY <1>1
  <2>2. Min({count, n}) = k
    BY <1>1, <2>1, PairMin
  <2> QED BY <1>1, <2>2 DEF Counted
<1>4. u \in Seq(Nat) /\ Len(u) = k /\ \A i \in 1..k : u[i] = t[i]
  BY <1>1, <1>2, <1>3, FirstOf
<1>5. /\ \A i \in 1..k : i \in 1..n
      /\ \A i \in 1..(k - 1) : i \in 1..(n - 1) /\ i \in 1..k /\ i + 1 \in 1..k
  BY <1>1, <1>2
<1>6. /\ \A i \in 1..k : i <= z => t[i] = Blank
      /\ \A i \in 1..k : i > z => t[i] \in lo..hi
  BY <1>1, <1>5, Zenon DEF Climbs
<1>7. ASSUME NEW i \in 1..(k - 1), i > z PROVE u[i + 1] \in {u[i], u[i] + 1}
  <2>1. t[i + 1] \in {t[i], t[i] + 1}
    BY <1>1, <1>5, <1>7, Zenon DEF Climbs
  <2>2. u[i] = t[i] /\ u[i + 1] = t[i + 1]
    BY <1>4, <1>5, Zenon
  <2> QED BY <2>1, <2>2
<1>8. /\ \A i \in 1..k : i <= z => u[i] = Blank
      /\ \A i \in 1..k : i > z => u[i] \in lo..hi
  BY <1>4, <1>6, Zenon
<1> QED BY <1>4, <1>7, <1>8 DEF Climbs

LEMMA NonBlankClimbs ==
    ASSUME NEW u \in Seq(Nat), NEW lo \in Nat, lo > 0, NEW hi, NEW z \in {0, 1},
           Climbs(u, lo, hi, z), NEW w, w = NonBlank(u)
    PROVE  w \in Seq(Nat) /\ Climbs(w, lo, hi, 0)
<1>1. PICK n : n = Len(u) /\ n \in Nat
  OBVIOUS
<1>2. CASE n = 0
  <2>1. u = <<>>
    BY <1>1, <1>2, NoneOf
  <2>2. w = u
    BY <2>1 DEF NonBlank
  <2>3. Climbs(u, lo, hi, 0)
    BY <1>1, <1>2 DEF Climbs
  <2> QED BY <2>2, <2>3
<1>3. CASE n > 0 /\ z = 1
  <2>1. u[1] = Blank /\ u # <<>>
    <3>1. 1 \in 1..n /\ 1 <= z
      BY <1>1, <1>3
    <3>2. u # <<>>
      BY <1>1, <1>3
    <3> QED BY <1>1, <3>1, <3>2 DEF Climbs
  <2>2. w = Tail(u)
    BY <2>1 DEF NonBlank
  <2>3. w \in Seq(Nat) /\ Len(w) = n - 1 /\ \A i \in 1..(n - 1) : w[i] = u[i + 1]
    BY <1>1, <1>3, <2>2, RestOf
  <2>4. ASSUME NEW i \in 1..(n - 1) PROVE w[i] \in lo..hi
    <3>1. i + 1 \in 1..n /\ i + 1 > z
      BY <1>1, <1>3
    <3>2. u[i + 1] \in lo..hi
      BY <1>1, <3>1 DEF Climbs
    <3> QED BY <2>3, <3>2
  <2>5. ASSUME NEW i \in 1..((n - 1) - 1) PROVE w[i + 1] \in {w[i], w[i] + 1}
    <3>1. PICK j : j = i + 1
      OBVIOUS
    <3>2. j \in 1..(n - 1) /\ j > z /\ i \in 1..(n - 1)
      BY <1>1, <1>3, <3>1
    <3>3. u[j + 1] \in {u[j], u[j] + 1}
      BY <1>1, <3>2 DEF Climbs
    <3>4. w[i] = u[j] /\ w[j] = u[j + 1]
      BY <2>3, <3>1, <3>2
    <3> QED BY <3>1, <3>3, <3>4
  <2>6. \A i \in 1..(n - 1) : ~(i <= 0)
    BY <1>1
  <2>7. Climbs(w, lo, hi, 0)
    BY <2>3, <2>4, <2>5, <2>6 DEF Climbs
  <2> QED BY <2>3, <2>7
<1>4. CASE n > 0 /\ z = 0
  <2>1. u[1] # Blank
    <3>1. 1 \in 1..n /\ 1 > z
      BY <1>1, <1>4
    <3>2. PICK x : x = u[1] /\ x \in lo..hi
      BY <1>1, <3>1 DEF Climbs
    <3>3. x # 0
      BY <3>2
    <3> QED BY <3>2, <3>3 DEF Blank
  <2>2. w = u
    BY <2>1 DEF NonBlank
  <2> QED BY <1>4, <2>2
<1> QED BY <1>1, <1>2, <1>3, <1>4

(* A file and the number before its first line.                            *)
FileLines(f, v) == disk.content[f] \in Seq(Nat) /\ Numbered(disk.content[f], v)

(* An upload, of whatever length lines are: from First(pos, q) on.         *)
LEMMA UploadClimbs ==
    ASSUME NEW f, NEW v \in Nat, FileLines(f, v), NEW pos \in Nat, NEW q \in Nat,
           q <= Len(disk.content[f]), InLine(pos, q), NEW count \in Nat,
           NEW w, w = NonBlank(Counted(LinesFrom(f, pos), count))
    PROVE  w \in Seq(Nat) /\ Climbs(w, v + First(pos, q), v + Len(disk.content[f]), 0)
<1>1. PICK c, r, z, head, t : /\ c = disk.content[f] /\ r = pos % LineBytes
                              /\ z = Blanks(r) /\ head = Pieces(LineBytes - r)
                              /\ t = Pieced(c, q, r, head)
  OBVIOUS
<1>2. r \in Nat /\ r < LineBytes
  <2>1. r = pos - LineBytes * q /\ LineBytes * q \in Nat /\ LineBytes \in Nat
    BY <1>1, LineUnique, Multiples, LineLength
  <2> QED BY <2>1 DEF InLine
<1>3. t = LinesFrom(f, pos)
  <2>1. pos \div LineBytes = q
    BY LineUnique
  <2> QED BY <1>1, <2>1, Zenon DEF LinesFrom, Pieced
<1>4. c \in Seq(Nat) /\ q <= Len(c) /\ Numbered(c, v)
  BY <1>1 DEF FileLines
<1>5. t \in Seq(Nat) /\ Climbs(t, v + q + 1 + z, v + Len(c), z)
  <2>1. /\ Pieced(c, q, r, head) \in Seq(Nat)
        /\ Climbs(Pieced(c, q, r, head), v + q + 1 + Blanks(r), v + Len(c), Blanks(r))
    BY <1>1, <1>2, <1>4, PiecedClimbs
  <2> QED BY <1>1, <2>1
<1>6. z \in {0, 1} /\ First(pos, q) = q + 1 + z
  BY <1>1, BlankFirst
<1>7. PICK lo, hi, u : /\ lo = v + q + 1 + z /\ hi = v + Len(c)
                       /\ u = Counted(t, count)
  OBVIOUS
<1>8. lo \in Nat /\ lo > 0 /\ lo = v + First(pos, q)
  BY <1>6, <1>7
<1>9. u \in Seq(Nat) /\ Climbs(u, lo, hi, z)
  BY <1>5, <1>7, CountedClimbs
<1>10. w = NonBlank(u)
  BY <1>3, <1>7
<1>11. w \in Seq(Nat) /\ Climbs(w, lo, hi, 0)
  BY <1>6, <1>8, <1>9, <1>10, NonBlankClimbs
<1> QED BY <1>1, <1>7, <1>8, <1>11

(* Lines that fit are read one by one.                                     *)
LEMMA FitsLines ==
    ASSUME Fits, NEW c \in Seq(Nat), NEW q \in Nat, q <= Len(c),
           NEW r \in Nat, r < LineBytes, NEW head, head = Pieces(LineBytes - r)
    PROVE  Pieced(c, q, r, head) = After(c, q, r)
<1>1. PICK l, n : l = Len(c) /\ n = (IF q < l THEN head + (l - q - 1) * Pieces(LineBytes) ELSE 0)
  OBVIOUS
<1>2. l \in Nat /\ q <= l /\ LineBytes \in Nat /\ LineBytes > 0 /\ LineBytes < LINE_SIZE
      /\ LINE_SIZE \in Nat
  BY <1>1, LineLength DEF Fits
<1>3. Pieces(LineBytes) = 1 /\ head = 1
  <2>1. Pieces(LineBytes) = 1
    BY <1>2, OnePiece
  <2>2. PICK m : m = LineBytes - r
    OBVIOUS
  <2>3. m \in Nat /\ m > 0 /\ m < LINE_SIZE
    BY <1>2, <2>2
  <2>4. Pieces(m) = 1
    BY <2>3, OnePiece
  <2> QED BY <2>1, <2>2, <2>4
<1>4. n = l - q
  <2>1. (l - q - 1) * 1 = l - q - 1
    BY <1>2
  <2> QED BY <1>1, <1>2, <1>3, <2>1
<1>5. ASSUME NEW i \in 1..n PROVE q + 1 + PieceLine(i, head) = q + i
  <2>1. n \in Nat /\ i \in Nat /\ i > 0
    BY <1>2, <1>4
  <2>2. CASE i = 1
    <3>1. PieceLine(i, head) = 0
      BY <1>3, <2>2 DEF PieceLine
    <3> QED BY <2>2, <3>1
  <2>3. CASE i > 1
    <3>1. PieceLine(i, head) = i - 1
      BY <1>3, <2>1, <2>3, PieceLater
    <3> QED BY <2>1, <3>1
  <2> QED BY <2>1, <2>2, <2>3
<1>6. Pieced(c, q, r, head)
        = [i \in 1..n |-> IF i = 1 /\ r = LineBytes - 1 THEN Blank
                          ELSE c[q + 1 + PieceLine(i, head)]]
  BY <1>1 DEF Pieced
<1>7. After(c, q, r)
        = [i \in 1..n |-> IF i = 1 /\ r = LineBytes - 1 THEN Blank ELSE c[q + i]]
  BY <1>1, <1>4 DEF After
<1> QED BY <1>5, <1>6, <1>7

(* The lines uploaded from pos on: those of the file from First(pos, q) to *)
(* the last that was counted, or to the end of the file.                   *)
UploadOf(f, v, pos, q, count) ==
    LET w == NonBlank(Counted(LinesFrom(f, pos), count))
    IN /\ w \in Seq(Nat) /\ Numbered(w, v + (First(pos, q) - 1))
       /\ Len(w) = UpTo(First(pos, q), Fewest(q + count, Len(disk.content[f])))
LEMMA UploadRun ==
    ASSUME Fits, NEW f, NEW v \in Nat, FileLines(f, v), NEW pos \in Nat, NEW q \in Nat,
           q <= Len(disk.content[f]), InLine(pos, q), NEW count \in Nat
    PROVE  UploadOf(f, v, pos, q, count)
<1>0. PICK l, w, lo, hi : /\ l = Len(disk.content[f]) /\ l \in Nat /\ q <= l
                          /\ w = NonBlank(Counted(LinesFrom(f, pos), count))
                          /\ lo = First(pos, q) /\ hi = Fewest(q + count, l)
  BY DEF FileLines
<1>1. PICK r, z, c, t, x : /\ r = pos % LineBytes /\ z = Blanks(r) /\ c = disk.content[f]
                           /\ t = After(c, q, r) /\ x = v + q
  OBVIOUS
<1>2. z \in {0, 1} /\ lo = q + 1 + z
  BY <1>0, <1>1, BlankFirst
<1>3. t = LinesFrom(f, pos)
  <2>1. pos \div LineBytes = q /\ r = pos - LineBytes * q
    BY <1>1, LineUnique
  <2>2. PICK head : head = Pieces(LineBytes - r)
    OBVIOUS
  <2>3. LinesFrom(f, pos) = Pieced(c, q, r, head)
    BY <1>1, <2>1, <2>2, Zenon DEF LinesFrom, Pieced
  <2>4. r \in Nat /\ r < LineBytes
    <3>1. LineBytes * q \in Nat /\ LineBytes \in Nat
      BY Multiples, LineLength
    <3> QED BY <2>1, <3>1 DEF InLine
  <2>5. c \in Seq(Nat) /\ q <= Len(c)
    BY <1>0, <1>1 DEF FileLines
  <2>6. Pieced(c, q, r, head) = After(c, q, r)
    BY <2>2, <2>4, <2>5, FitsLines
  <2> QED BY <1>1, <2>3, <2>6
<1>4. t \in Seq(Nat) /\ Len(t) = l - q /\ Led(t, x, z)
  <2>1. c \in Seq(Nat) /\ q <= Len(c) /\ Numbered(c, v) /\ l = Len(c)
    BY <1>0, <1>1 DEF FileLines
  <2>2. /\ After(c, q, r) \in Seq(Nat) /\ Len(After(c, q, r)) = Len(c) - q
        /\ Led(After(c, q, r), v + q, Blanks(r))
    BY <2>1, AfterRun
  <2> QED BY <1>1, <2>1, <2>2
<1>5. x \in Nat
  BY <1>1
<1>6. w = NonBlank(Counted(t, count))
  BY <1>0, <1>3
<1>7. w \in Seq(Nat) /\ Len(w) = Shortened(Fewest(count, l - q), z) /\ Numbered(w, x + z)
  <2>1. /\ NonBlank(Counted(t, count)) \in Seq(Nat)
        /\ Len(NonBlank(Counted(t, count))) = Shortened(Fewest(count, Len(t)), z)
        /\ Numbered(NonBlank(Counted(t, count)), x + z)
    BY <1>2, <1>4, <1>5, SentRun
  <2> QED BY <1>4, <1>6, <2>1
<1>8. Len(w) = IF hi >= lo THEN hi - lo + 1 ELSE 0
  <2>1. Shortened(Fewest(count, l - q), z)
           = IF Fewest(q + count, l) >= q + 1 + z
             THEN Fewest(q + count, l) - (q + 1 + z) + 1 ELSE 0
    BY <1>0, <1>2, RunLength, ZenonT(40)
  <2> QED BY <1>0, <1>2, <1>7, <2>1
<1>9. x + z = v + (lo - 1)
  BY <1>1, <1>2
<1> QED BY <1>0, <1>7, <1>8, <1>9 DEF UploadOf, UpTo

(* The lines of a file have consecutive numbers.                           *)
LEMMA FileNumbered ==
    ASSUME TypeInv, ChainInv, NEW f \in 1..Len(disk.content)
    PROVE  disk.content[f] \in Seq(Nat) /\ \E v \in Nat : Numbered(disk.content[f], v)
<1>1. PICK c, l : c = disk.content[f] /\ l = Len(c)
  OBVIOUS
<1>2. c \in Seq(Nat) /\ l \in Nat /\ written \in Nat
  <2>1. disk.content \in Seq(Seq(Nat)) /\ written \in Nat
    BY LogAssumption DEF TypeInv, DiskOK, DiskType
  <2>2. c \in Seq(Nat)
    BY <1>1, <2>1
  <2> QED BY <1>1, <2>1, <2>2
<1>3. \A i, j \in 1..l : c[j] = c[i] + (j - i) /\ c[i] \in 1..written
  BY <1>1, Zenon DEF ChainInv, Chain
<1>4. \E v \in Nat : Numbered(c, v)
  <2>1. CASE l = 0
    <3>1. Numbered(c, 0)
      BY <1>1, <2>1 DEF Numbered
    <3> QED BY <3>1
  <2>2. CASE l > 0
    <3>1. 1 \in 1..l
      BY <1>2, <2>2
    <3>2. PICK x : x = c[1] /\ x \in 1..written
      BY <1>3, <3>1
    <3>3. \A j \in 1..l : c[j] = x + (j - 1)
      BY <1>3, <3>1, <3>2
    <3>4. PICK v \in Nat : v = x - 1
      BY <1>2, <3>2
    <3>5. ASSUME NEW j \in 1..l PROVE c[j] = v + j
      <4>1. c[j] = x + (j - 1)
        BY <3>3
      <4>2. x + (j - 1) = v + j
        BY <1>2, <3>2, <3>4
      <4> QED BY <4>1, <4>2
    <3>6. Numbered(c, v)
      BY <1>1, <3>5 DEF Numbered
    <3> QED BY <3>6
  <2> QED BY <1>2, <2>1, <2>2
<1> QED BY <1>1, <1>2, <1>4

(* The lines that end after a byte of line s + 1 and up to the end of line e. *)
EndsLine(p, n) == p = LineBytes * n
LinesBetween(f, v, m, s, e, b) == Between(f, m, b) = (v + s + 1)..(v + e)
LEMMA BetweenRun ==
    ASSUME NEW f, NEW v \in Nat, FileLines(f, v), NEW m \in Nat, NEW s \in Nat, InLine(m, s),
           NEW e \in Nat, e <= Len(disk.content[f]), NEW b, EndsLine(b, e)
    PROVE  LinesBetween(f, v, m, s, e, b)
<1>1. PICK c, l : c = disk.content[f] /\ l = Len(c)
  OBVIOUS
<1>2. c \in Seq(Nat) /\ l \in Nat /\ DOMAIN c = 1..l /\ e <= l
  BY <1>1 DEF FileLines
<1>3. ASSUME NEW j \in 1..l
      PROVE  c[j] = v + j /\ ((m < LineBytes * j /\ LineBytes * j <= b) <=> (s < j /\ j <= e))
  <2>1. c[j] = v + j
    BY <1>1 DEF FileLines, Numbered
  <2>2. j \in Nat
    OBVIOUS
  <2>3. (m < LineBytes * j) <=> (s < j)
    BY <2>2, LaterLine
  <2>4. (LineBytes * j <= b) <=> (j <= e)
    BY <1>1, <2>2, Multiples DEF EndsLine
  <2> QED BY <2>1, <2>3, <2>4
<1>4. Between(f, m, b) = {c[i] : i \in {j \in 1..l : m < LineBytes * j /\ LineBytes * j <= b}}
  BY <1>1, <1>2 DEF Between
<1>5. ASSUME NEW x \in Between(f, m, b) PROVE x \in (v + s + 1)..(v + e)
  <2>1. PICK i \in 1..l : x = c[i] /\ m < LineBytes * i /\ LineBytes * i <= b
    BY <1>4
  <2>2. x = v + i /\ s < i /\ i <= e
    BY <1>3, <2>1
  <2> QED BY <1>2, <2>2
<1>6. ASSUME NEW x \in (v + s + 1)..(v + e) PROVE x \in Between(f, m, b)
  <2>1. PICK i : i = x - v
    OBVIOUS
  <2>2. i \in 1..l /\ s < i /\ i <= e /\ x = v + i
    BY <1>2, <2>1
  <2>3. x = c[i] /\ m < LineBytes * i /\ LineBytes * i <= b
    BY <1>3, <2>2
  <2> QED BY <1>4, <2>2, <2>3
<1>7. Between(f, m, b) = (v + s + 1)..(v + e)
  BY <1>5, <1>6
<1> QED BY <1>7 DEF LinesBetween

(* How many lines of a range there are.                                    *)
LEMMA RunCount ==
    ASSUME NEW v \in Nat, NEW a \in Nat, NEW b \in Nat
    PROVE  /\ Cardinality((v + a)..(v + b)) = IF a > b THEN 0 ELSE b - a + 1
           /\ Cardinality((v + a + 1)..(v + b)) = IF a >= b THEN 0 ELSE b - a
<1>1. v + a \in Int /\ v + b \in Int /\ v + a + 1 \in Int
  OBVIOUS
<1>2. /\ Cardinality((v + a)..(v + b))
            = IF v + a > v + b THEN 0 ELSE (v + b) - (v + a) + 1
      /\ Cardinality((v + a + 1)..(v + b))
            = IF v + a + 1 > v + b THEN 0 ELSE (v + b) - (v + a + 1) + 1
  BY <1>1, FS_Interval
<1> QED BY <1>2

(* Of the lines s + 1 to e, at most one of the last n is missed.           *)
LEMMA MissesOne ==
    ASSUME NEW n \in Nat, n > 0, NEW l \in Nat, NEW e \in Nat, e <= l, NEW s \in Nat, s <= e,
           NEW q \in Nat, NEW count \in Nat, NEW lo \in Nat, s < lo,
           \/ lo = s + 1 /\ q + count >= e - 1
           \/ q + count >= e /\ (lo = s + 2 \/ lo = e - n + 2),
           NEW top, top = Fewest(Fewest(q + count, l), e)
    PROVE  top \in Nat /\ (IF lo > top THEN 0 ELSE top - lo + 1) >= Fewest(e - s, n) - 1
<1>0. PICK hi, x : hi = Fewest(q + count, l) /\ x = Fewest(e - s, n)
  OBVIOUS
<1>1. hi \in Nat /\ top \in Nat /\ x \in Nat
  <2>1. hi \in Nat
    BY <1>0 DEF Fewest
  <2>2. top \in Nat
    BY <1>0, <2>1 DEF Fewest
  <2>3. x \in Nat
    BY <1>0 DEF Fewest
  <2> QED BY <2>1, <2>2, <2>3
<1>2. CASE lo = s + 1 /\ q + count >= e - 1
  <2>1. top >= e - 1
    BY <1>0, <1>1, <1>2 DEF Fewest
  <2>2. x <= e - s
    BY <1>0 DEF Fewest
  <2>3. (IF lo > top THEN 0 ELSE top - lo + 1) >= x - 1
    BY <1>1, <1>2, <2>1, <2>2
  <2> QED BY <1>0, <1>1, <2>3
<1>3. CASE q + count >= e /\ (lo = s + 2 \/ lo = e - n + 2)
  <2>1. top = e
    BY <1>0, <1>1, <1>3 DEF Fewest
  <2>2. x <= e - s /\ x <= n
    BY <1>0 DEF Fewest
  <2>3. (IF lo > top THEN 0 ELSE top - lo + 1) >= x - 1
    BY <1>1, <1>3, <2>1, <2>2
  <2> QED BY <1>0, <1>1, <2>3
<1> QED BY <1>2, <1>3

(* The reader's lines do what UploadsWhatIsNew asks.                       *)
LEMMA ReadUploads == TypeInv /\ ChainInv /\ ReadInv /\ SinceInv => UploadsWhatIsNew
<1> SUFFICES ASSUME TypeInv, ChainInv, ReadInv, SinceInv, reader.at = "fetch"
             PROVE  UploadsWhatIsNew
  BY DEF UploadsWhatIsNew
<1>1. PICK f, l : f = reader.file /\ l = Len(disk.content[f])
  OBVIOUS
<1>2. f \in 1..Len(disk.content) /\ f # Closed /\ reader \in ReaderType
  <2>1. f \in 0..Len(disk.content) /\ f # Closed /\ reader \in ReaderType
    BY <1>1 DEF TypeInv, ReaderOK
  <2> QED BY <2>1 DEF Closed
<1>3. disk.content[f] \in Seq(Nat) /\ \E v \in Nat : Numbered(disk.content[f], v)
  BY <1>2, FileNumbered
<1>4. PICK v \in Nat : Numbered(disk.content[f], v)
  BY <1>3
<1>5. l \in Nat
  BY <1>1, <1>3
<1>6. PICK old, end, pos, count : /\ old = reader.old /\ end = reader.end
                                  /\ pos = reader.pos /\ count = reader.count
  OBVIOUS
<1>7. old \in Nat /\ end \in Nat /\ pos \in Nat /\ count \in Nat
  BY <1>2, <1>6 DEF ReaderType
<1>8. Reach(reader, l)
  BY <1>1, <1>2 DEF ReadInv, ReadOK
<1>9. PICK a, e, s, q : /\ a \in 0..l /\ e \in 0..l /\ s \in 0..l /\ q \in 0..l
                        /\ Span(old, end, pos, count, a, e, s, q)
  BY <1>6, <1>8, Zenon DEF Reach
<1>10. /\ a \in Nat /\ e \in Nat /\ s \in Nat /\ q \in Nat
       /\ e <= l /\ q <= l
  BY <1>5, <1>9
<1>11. PICK m, lo, hi, w : /\ m = Aim(old, end) /\ lo = First(pos, q)
                           /\ hi = Fewest(q + count, l)
                           /\ w = NonBlank(Counted(LinesFrom(f, pos), count))
  OBVIOUS
<1>12. /\ old = LineBytes * a /\ end = LineBytes * e /\ a <= e /\ s <= e
       /\ InLine(m, s) /\ InLine(pos, q) /\ s < lo
       /\ \/ lo = s + 1 /\ q + count >= e - 1
          \/ q + count >= e /\ (lo = s + 2 \/ lo = e - NUM_LINES_TO_READ + 2)
  BY <1>9, <1>11 DEF Span
<1>13. lo \in Nat /\ hi \in Nat
  BY <1>5, <1>7, <1>10, <1>11 DEF First, Fewest
<1>14. w \in Seq(Nat) /\ Climbs(w, v + lo, v + l, 0)
  <2>1. q <= Len(disk.content[f])
    BY <1>1, <1>10
  <2>2. FileLines(f, v) /\ v \in Nat /\ pos \in Nat /\ q \in Nat /\ count \in Nat
    BY <1>3, <1>4, <1>7, <1>10 DEF FileLines
  <2>3. InLine(pos, q)
    BY <1>12
  <2>4. w \in Seq(Nat) /\ Climbs(w, v + First(pos, q), v + Len(disk.content[f]), 0)
    BY <1>11, <2>1, <2>2, <2>3, UploadClimbs
  <2> QED BY <1>1, <1>11, <2>4
<1>15. lo > 0
  BY <1>10, <1>12, <1>13
<1>16. ASSUME NEW x \in ToSet(w) PROVE \E j \in lo..l : x = v + j
  <2>1. PICK i \in 1..Len(w) : x = w[i]
    <3>1. DOMAIN w = 1..Len(w)
      BY <1>14
    <3> QED BY <3>1 DEF ToSet
  <2>2. i > 0
    <3>1. Len(w) \in Nat
      BY <1>14
    <3> QED BY <3>1
  <2>3. x \in (v + lo)..(v + l)
    BY <1>14, <2>1, <2>2 DEF Climbs
  <2>4. x - v \in lo..l /\ x = v + (x - v)
    BY <1>5, <1>13, <2>3
  <2> QED BY <2>4
<1>17. old <= end
  BY <1>10, <1>12, Multiples
<1>18. m \in Nat /\ old <= m
  <2>1. m \in Nat
    BY <1>7, <1>11, <1>17, AimRange
  <2>2. end - MAXIMUM_READ \in Int /\ old \in Int
    BY <1>7, LogAssumption
  <2>3. m = IF old >= end - MAXIMUM_READ THEN old ELSE end - MAXIMUM_READ
    BY <1>11, <2>2, PairMax DEF Aim
  <2> QED BY <2>1, <2>2, <2>3
<1>19. a <= s
  <2>1. ~(m < LineBytes * a)
    BY <1>7, <1>12, <1>18
  <2>2. (m < LineBytes * a) <=> (s < a)
    BY <1>10, <1>12, <1>18, LaterLine
  <2> QED BY <1>10, <2>1, <2>2
<1>21. Between(f, m, end) = (v + s + 1)..(v + e)
  <2>1. e <= Len(disk.content[f])
    BY <1>1, <1>10
  <2>2. EndsLine(end, e)
    BY <1>12 DEF EndsLine
  <2>3. FileLines(f, v) /\ v \in Nat /\ m \in Nat /\ s \in Nat /\ e \in Nat
    BY <1>3, <1>4, <1>10, <1>18 DEF FileLines
  <2>4. InLine(m, s)
    BY <1>12
  <2>5. LinesBetween(f, v, m, s, e, end)
    BY <2>1, <2>2, <2>3, <2>4, BetweenRun, Zenon
  <2> QED BY <2>5, Zenon DEF LinesBetween
<1>22. Blank \notin ToSet(w)
  <2>1. ASSUME NEW j \in lo..l PROVE v + j # 0
    BY <1>5, <1>13, <1>15
  <2> QED BY <1>16, <2>1 DEF Blank
<1>23. \A i \in 1..(Len(w) - 1) : w[i + 1] \in {w[i], w[i] + 1}
  <2> SUFFICES ASSUME NEW i \in 1..(Len(w) - 1) PROVE w[i + 1] \in {w[i], w[i] + 1}
    OBVIOUS
  <2>1. i > 0
    <3>1. Len(w) \in Nat
      BY <1>14
    <3> QED BY <3>1
  <2> QED BY <1>14, <2>1 DEF Climbs
<1>24. ASSUME NEW x \in ToSet(w) PROVE x > since
  <2>1. PICK j \in lo..l : x = v + j
    BY <1>16
  <2>2. j \in Nat /\ j \in 1..l /\ ~(j <= a)
    BY <1>5, <1>10, <1>12, <1>13, <1>15, <1>19
  <2>3. LineBytes * j > old
    <3>1. /\ LineBytes * j \in Nat /\ LineBytes * a \in Nat
          /\ (LineBytes * j <= LineBytes * a) <=> (j <= a)
      BY <1>10, <2>2, Multiples
    <3> QED BY <1>12, <2>2, <3>1
  <2>4. Newer(disk.content[f], old, since)
    BY <1>1, <1>2, <1>6 DEF SinceInv, SinceOK
  <2>5. disk.content[f][j] = x
    BY <1>1, <1>4, <2>1, <2>2 DEF Numbered
  <2>6. disk.content[f][j] > since
    BY <1>1, <2>2, <2>3, <2>4 DEF Newer
  <2> QED BY <2>5, <2>6
<1>30. ASSUME Fits
       PROVE  Cardinality(ToSet(w) \cap Between(f, m, end))
                 >= Min({Cardinality(Between(f, m, end)), NUM_LINES_TO_READ}) - 1
  <2>1. /\ w \in Seq(Nat) /\ Len(w) = (IF hi >= lo THEN hi - lo + 1 ELSE 0)
        /\ Numbered(w, v + (lo - 1))
    <3>1. q <= Len(disk.content[f]) /\ hi = Fewest(q + count, Len(disk.content[f]))
      BY <1>1, <1>10, <1>11
    <3>2. FileLines(f, v) /\ v \in Nat /\ pos \in Nat /\ q \in Nat /\ count \in Nat
      BY <1>3, <1>4, <1>7, <1>10 DEF FileLines
    <3>3. InLine(pos, q)
      BY <1>12
    <3>4. UploadOf(f, v, pos, q, count)
      BY <1>30, <3>1, <3>2, <3>3, UploadRun, Zenon
    <3> QED BY <1>11, <3>1, <3>4, Zenon DEF UploadOf, UpTo
  <2>2. ToSet(w) = (v + lo)..(v + hi)
    BY <1>13, <2>1, <1>15, RunSet
  <2>3. PICK top : top = Fewest(hi, e)
    OBVIOUS
  <2>4. /\ top \in Nat
        /\ (IF lo > top THEN 0 ELSE top - lo + 1) >= Fewest(e - s, NUM_LINES_TO_READ) - 1
    <3>1. NUM_LINES_TO_READ \in Nat /\ NUM_LINES_TO_READ > 0
      BY LogAssumption
    <3>2. top = Fewest(Fewest(q + count, l), e)
      BY <1>11, <2>3
    <3> QED BY <1>5, <1>7, <1>10, <1>12, <1>13, <3>1, <3>2, MissesOne, Zenon
  <2>5. ToSet(w) \cap Between(f, m, end) = (v + lo)..(v + top)
    <3>1. (v + lo)..(v + hi) \cap (v + s + 1)..(v + e) = (v + lo)..(v + top)
      <4>1. top = IF hi <= e THEN hi ELSE e
        BY <2>3 DEF Fewest
      <4> QED BY <1>10, <1>12, <1>13, <4>1
    <3> QED BY <2>2, <1>21, <3>1
  <2>6. Cardinality(ToSet(w) \cap Between(f, m, end)) = IF lo > top THEN 0 ELSE top - lo + 1
    <3>1. Cardinality((v + lo)..(v + top)) = IF lo > top THEN 0 ELSE top - lo + 1
      BY <1>13, <2>4, RunCount
    <3> QED BY <2>5, <3>1
  <2>7. Cardinality(Between(f, m, end)) = e - s
    <3>1. Cardinality((v + s + 1)..(v + e)) = IF s >= e THEN 0 ELSE e - s
      BY <1>10, RunCount
    <3> QED BY <1>10, <1>12, <1>21, <3>1
  <2> QED
    <3>1. e - s \in Int /\ NUM_LINES_TO_READ \in Int
      BY <1>10, LogAssumption
    <3>2. Min({e - s, NUM_LINES_TO_READ}) = Fewest(e - s, NUM_LINES_TO_READ)
      BY <3>1, PairMin DEF Fewest
    <3> QED BY <2>4, <2>6, <2>7, <3>2
<1>31. w = IF Uploaded # <<>> /\ Uploaded[1] = Blank THEN Tail(Uploaded) ELSE Uploaded
  <2>1. Uploaded = Counted(LinesFrom(f, pos), count)
    BY <1>1, <1>6 DEF Uploaded, Counted
  <2> QED BY <1>11, <2>1, Zenon DEF NonBlank
<1>32. m = Max({reader.old, reader.end - MAXIMUM_READ})
  BY <1>6, <1>11 DEF Aim
<1> QED BY <1>1, <1>6, <1>22, <1>23, <1>24, <1>30, <1>31, <1>32, Zenon DEF UploadsWhatIsNew

(* Without a file there is nothing to upload.                              *)
LEMMA UploadInit == Init => ChainInv /\ ReadInv /\ SinceInv
<1> SUFFICES ASSUME Init PROVE ChainInv /\ ReadInv /\ SinceInv
  OBVIOUS
<1>1. disk.content = <<>> /\ disk.fp = Closed /\ reader.file = Closed
  BY DEF Init
<1>2. disk.name[0] = Closed
  <2>1. 0 \in Names
    BY LogAssumption DEF Names
  <2> QED BY <2>1 DEF Init
<1>3. Len(disk.content) = 0
  BY <1>1
<1>4. Chain(disk.content, written)
  BY <1>3 DEF Chain, EndsWith
<1> QED BY <1>1, <1>2, <1>4 DEF ChainInv, Handles, ReadInv, SinceInv

(* get_last_lines, whatever is written, rolled or removed between its      *)
(* steps and before, as long as one upload at a time uses ZcloudLog: an    *)
(* upload is a run of lines without a gap, after at most one blank; it has *)
(* only lines written after the last upload through the same handle looked *)
(* at the end of the file; and if lines fit the buffer of fgets, it misses *)
(* at most one of the newest lines that were asked for and are in reach.   *)
THEOREM UploadIsNew == Spec => []UploadsWhatIsNew
<1> DEFINE IInv == TypeInv /\ ChainInv /\ ReadInv /\ SinceInv
<1>1. Init => IInv
  BY TypeInit, UploadInit
<1>2. IInv /\ [Next]_vars => IInv'
  BY TypeStep, ChainStep, ReadStep, SinceStep
<1>3. IInv => UploadsWhatIsNew
  BY ReadUploads
<1> QED BY <1>1, <1>2, <1>3, PTL DEF Spec
=============================================================================
