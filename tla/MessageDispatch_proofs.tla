----------------------- MODULE MessageDispatch_proofs -----------------------
(* Proofs about MessageDispatch, for any number of messages of any kind.   *)
EXTENDS MessageDispatch, TLAPS, WellFoundedInduction

(* The inductive invariant: the property needs to know that a step of one  *)
(* thread changes that thread's control point only.                        *)
LoggingPC == {"log_post", "log_ack", "log_exit"}
BusyInv == pc \in [Messages -> ThreadPC] /\ BusyOnlyWhileLogging

(* A thread that moves, unless it leaves the logging, keeps the invariant  *)
(* when the flag does not change.                                          *)
LEMMA MoveKeepsBusy ==
    ASSUME BusyInv, NEW m \in Messages, NEW from, NEW to \in ThreadPC,
           Goto(m, from, to), from \in LoggingPC => to \in LoggingPC,
           UNCHANGED cloud_logging_in_processing
    PROVE  BusyInv'
<1>1. pc' \in [Messages -> ThreadPC]
  BY DEF BusyInv, Goto
<1>2. ASSUME cloud_logging_in_processing
      PROVE  \E k \in Messages : pc'[k] \in LoggingPC
  <2>1. PICK k \in Messages : pc[k] \in LoggingPC
    BY <1>2 DEF BusyInv, BusyOnlyWhileLogging, LoggingPC
  <2>2. CASE k = m
    BY <2>1, <2>2 DEF Goto, BusyInv
  <2>3. CASE k # m
    BY <2>1, <2>3 DEF Goto, BusyInv
  <2> QED BY <2>2, <2>3
<1> QED BY <1>1, <1>2 DEF BusyInv, BusyOnlyWhileLogging, LoggingPC

(* Every step of a thread keeps the invariant.                             *)
LEMMA StepKeepsBusy ==
    ASSUME BusyInv, NEW m \in Messages, Receive(m) \/ Running(m)
    PROVE  BusyInv'
<1>1. CASE Receive(m)
  BY <1>1, MoveKeepsBusy DEF Receive, ThreadPC, Scanning, LoggingPC
<1>2. CASE ScanItem(m)
  BY <1>2 DEF ScanItem, BusyInv, BusyOnlyWhileLogging
<1>3. CASE ScanAbort(m)
  BY <1>3, MoveKeepsBusy DEF ScanAbort, ThreadPC, Scanning, LoggingPC
<1>4. CASE ScanEnd(m)
  BY <1>4, MoveKeepsBusy DEF ScanEnd, ThreadPC, Scanning, LoggingPC
<1>5. CASE CheckOTA(m)
  BY <1>5, MoveKeepsBusy DEF CheckOTA, ThreadPC, Scanning, LoggingPC
<1>6. CASE CheckLogging(m)
  BY <1>6, MoveKeepsBusy DEF CheckLogging, ThreadPC, Scanning, LoggingPC
<1>7. CASE HandleOTA(m)
  BY <1>7, MoveKeepsBusy DEF HandleOTA, ThreadPC, Scanning, LoggingPC
<1>8. CASE HandleUser(m)
  BY <1>8, MoveKeepsBusy DEF HandleUser, ThreadPC, Scanning, LoggingPC
<1>9. CASE EnterLogging(m)
  <2>1. pc' = [pc EXCEPT ![m] = "log_post"] /\ "log_post" \in ThreadPC
    BY <1>9 DEF EnterLogging, Goto, ThreadPC
  <2>2. pc' \in [Messages -> ThreadPC] /\ pc'[m] = "log_post"
    BY <2>1 DEF BusyInv
  <2> QED BY <2>2 DEF BusyInv, BusyOnlyWhileLogging
<1>10. CASE PostLogs(m)
  BY <1>10, MoveKeepsBusy DEF PostLogs, ThreadPC, Scanning, LoggingPC
<1>11. CASE ExitLogging(m)
  <2>1. pc' = [pc EXCEPT ![m] = "done"] /\ "done" \in ThreadPC
    BY <1>11 DEF ExitLogging, Goto, ThreadPC
  <2> QED BY <1>11, <2>1 DEF ExitLogging, BusyInv, BusyOnlyWhileLogging
<1> QED
  BY <1>1, <1>2, <1>3, <1>4, <1>5, <1>6, <1>7, <1>8, <1>9, <1>10, <1>11
     DEF Running

(* However many log requests race past get_cloud_logging_status, the flag  *)
(* cloud_logging_in_processing is never left set without a thread that     *)
(* will reset it.                                                          *)
THEOREM LoggingNotStuck == Spec => []BusyOnlyWhileLogging
<1>1. Init => BusyInv
  BY DEF Init, BusyInv, BusyOnlyWhileLogging, ThreadPC
<1>2. BusyInv /\ [Next]_vars => BusyInv'
  <2> SUFFICES ASSUME BusyInv, [Next]_vars PROVE BusyInv'
    OBVIOUS
  <2>1. CASE Next
    BY <2>1, StepKeepsBusy DEF Next
  <2>2. CASE UNCHANGED vars
    BY <2>2 DEF vars, BusyInv, BusyOnlyWhileLogging
  <2> QED BY <2>1, <2>2
<1>3. BusyInv => BusyOnlyWhileLogging
  BY DEF BusyInv
<1> QED BY <1>1, <1>2, <1>3, PTL DEF Spec

-----------------------------------------------------------------------------
(* Types.                                                                  *)

(* A thread that moves stays at one of its control points.                 *)
LEMMA MoveType ==
    ASSUME pc \in [Messages -> ThreadPC], NEW m \in Messages, NEW from,
           NEW to \in ThreadPC, Goto(m, from, to)
    PROVE  pc' \in [Messages -> ThreadPC]
BY DEF Goto

(* What a message holds: a sequence of commands.                           *)
LEMMA ItemsType ==
    ASSUME TypeOK, NEW m \in Messages
    PROVE  /\ content[m].items \in Seq(Items)
           /\ Len(content[m].items) \in Nat
           /\ DOMAIN content[m].items = 1..Len(content[m].items)
BY DispatchAssumption DEF TypeOK

(* Every step of a thread keeps the types.                                 *)
LEMMA StepType ==
    ASSUME TypeOK, NEW m \in Messages, Receive(m) \/ Running(m)
    PROVE  TypeOK'
<1>1. /\ content' = content
      /\ overlapped' \subseteq Messages
  BY DEF TypeOK, Receive, Running, ScanItem, ScanAbort, ScanEnd, CheckOTA,
         CheckLogging, HandleOTA, HandleUser, EnterLogging, PostLogs,
         ExitLogging, message
<1>2. /\ OTA_RECEIVED' \in BOOLEAN
      /\ CLOUD_LOGGING' \in BOOLEAN
      /\ cloud_logging_in_processing' \in BOOLEAN
  BY DEF TypeOK, Receive, Running, ScanItem, ScanAbort, ScanEnd, CheckOTA,
         CheckLogging, HandleOTA, HandleUser, EnterLogging, PostLogs,
         ExitLogging, NoteName, flags
<1>3. pc' \in [Messages -> ThreadPC]
  BY MoveType
     DEF TypeOK, Receive, Running, ScanItem, ScanAbort, ScanEnd, CheckOTA,
         CheckLogging, HandleOTA, HandleUser, EnterLogging, PostLogs,
         ExitLogging, ThreadPC, Scanning
<1>4. iter' \in [Messages -> Nat \ {0}]
  BY DEF TypeOK, Receive, Running, ScanItem, ScanAbort, ScanEnd, CheckOTA,
         CheckLogging, HandleOTA, HandleUser, EnterLogging, PostLogs,
         ExitLogging
<1>5. handledAs' \in [Messages -> {NULL, "ota", "log", "user"}]
  BY DEF TypeOK, Receive, Running, ScanItem, ScanAbort, ScanEnd, CheckOTA,
         CheckLogging, HandleOTA, HandleUser, EnterLogging, PostLogs,
         ExitLogging
<1> QED BY <1>1, <1>2, <1>3, <1>4, <1>5 DEF TypeOK

(* A client that zclient_init set up has the types.                        *)
LEMMA InitType == Init => TypeOK
<1> SUFFICES ASSUME Init PROVE TypeOK
  OBVIOUS
<1>1. /\ OTA_RECEIVED \in BOOLEAN
      /\ CLOUD_LOGGING \in BOOLEAN
      /\ cloud_logging_in_processing \in BOOLEAN
  BY DEF Init
<1>2. /\ content \in [Messages -> Contents]
      /\ pc \in [Messages -> ThreadPC]
      /\ iter \in [Messages -> Nat \ {0}]
      /\ handledAs \in [Messages -> {NULL, "ota", "log", "user"}]
      /\ overlapped \subseteq Messages
  BY DEF Init, ThreadPC
<1> QED BY <1>1, <1>2 DEF TypeOK

(* The type invariant holds in every reachable state; in particular the    *)
(* loop counter of a thread never leaves the positions of its commands     *)
(* downwards.                                                              *)
THEOREM Types == Spec => []TypeOK
<1>1. TypeOK /\ [Next]_vars => TypeOK'
  <2> SUFFICES ASSUME TypeOK, [Next]_vars PROVE TypeOK'
    OBVIOUS
  <2>1. CASE Next
    BY <2>1, StepType DEF Next
  <2>2. CASE UNCHANGED vars
    BY <2>2 DEF vars, flags, message, TypeOK
  <2> QED BY <2>1, <2>2
<1> QED BY <1>1, InitType, PTL DEF Spec

-----------------------------------------------------------------------------
(* A thread without another.                                               *)

(* Two threads that run at the same time have overlapped.                  *)
RunningPC == ThreadPC \ {"none", "done"}
Solo == \A m, k \in Messages :
           m # k /\ pc[m] \in RunningPC /\ pc[k] \in RunningPC
              => m \in overlapped

(* The last of the first n commands of m that has a name is command i, and *)
(* its name is what the note says.                                         *)
LastNamed(m, i, n) ==
    /\ i \in 1..n
    /\ content[m].items[i].name # NoName
    /\ \A j \in (i + 1)..n : content[m].items[j].name = NoName
Noted(name) == OTA_RECEIVED = (name = OTA) /\ CLOUD_LOGGING = (name = LOGS)

(* What a thread without another has noted or decided, at each point.      *)
Decided(m, name) ==
    /\ pc[m] \in {"ota_check", "log_check"} => Noted(name)
    /\ pc[m] = "log_check" => name # OTA
    /\ pc[m] = "ota" \/ handledAs[m] = "ota" => name = OTA
    /\ pc[m] = "log_enter" \/ handledAs[m] = "log" => name = LOGS
    /\ pc[m] = "user" \/ handledAs[m] = "user" => name \notin {OTA, LOGS}

NameInv(m) ==
    /\ pc[m] = "none" => iter[m] = 1
    /\ pc[m] \in {"none", "received"} => handledAs[m] = NULL
    /\ pc[m] = "received"
         => /\ iter[m] <= Len(content[m].items) + 1
            /\ \A i \in Nat : LastNamed(m, i, iter[m] - 1)
                             => Noted(content[m].items[i].name)
    /\ content[m].topic = "command"
         => \A i \in Nat : LastNamed(m, i, Len(content[m].items))
                          => Decided(m, content[m].items[i].name)

DispatchInv ==
    /\ TypeOK
    /\ BusyOnlyWhileLogging
    /\ Solo
    /\ \A m \in Messages \ overlapped : NameInv(m)

(* Every step of a thread keeps Solo: a thread that starts beside running  *)
(* ones overlaps with all of them.                                         *)
LEMMA SoloStep ==
    ASSUME TypeOK, Solo, NEW t \in Messages, Receive(t) \/ Running(t)
    PROVE  Solo'
<1> SUFFICES ASSUME NEW m \in Messages, NEW k \in Messages, m # k,
                    pc'[m] \in RunningPC, pc'[k] \in RunningPC
             PROVE  m \in overlapped'
  BY DEF Solo
<1>1. CASE Receive(t)
  <2>1. /\ pc' = [pc EXCEPT ![t] = "received"]
        /\ pc \in [Messages -> ThreadPC]
    BY <1>1 DEF Receive, Goto, TypeOK
  <2> DEFINE running == {j \in Messages : pc[j] \notin {"none", "done"}}
  <2>2. overlapped' = IF running = {} THEN overlapped
                      ELSE overlapped \union running \union {t}
    BY <1>1 DEF Receive
  <2>3. \A j \in Messages : j # t /\ pc'[j] \in RunningPC => j \in running
    BY <2>1 DEF RunningPC
  <2>4. CASE m = t
    BY <2>2, <2>3, <2>4
  <2>5. CASE m # t
    BY <2>2, <2>3, <2>5
  <2> QED BY <2>4, <2>5
<1>2. CASE Running(t)
  <2>1. /\ pc[t] \in RunningPC
        /\ \A j \in Messages : j # t => pc'[j] = pc[j]
        /\ overlapped' = overlapped
    BY <1>2 DEF TypeOK, Running, ScanItem, ScanAbort, ScanEnd, CheckOTA,
         CheckLogging, HandleOTA, HandleUser, EnterLogging, PostLogs,
         ExitLogging, Goto, message, RunningPC, ThreadPC, Scanning
  <2> QED BY <2>1 DEF Solo
<1> QED BY <1>1, <1>2

(* A step of another thread leaves a message alone that has not overlapped *)
(* with it: that thread starts, or the message's own thread does not run.  *)
LEMMA OtherStep ==
    ASSUME DispatchInv, NEW t \in Messages, Receive(t) \/ Running(t),
           NEW m \in Messages, m \notin overlapped', m # t
    PROVE  NameInv(m)'
<1>1. /\ content'[m] = content[m] /\ pc'[m] = pc[m]
      /\ iter'[m] = iter[m] /\ handledAs'[m] = handledAs[m]
      /\ m \notin overlapped
      /\ pc[m] \in RunningPC => UNCHANGED flags
  <2>1. CASE Receive(t)
    BY <2>1 DEF Receive, Goto, DispatchInv, TypeOK
  <2>2. CASE Running(t)
    <3>1. /\ pc[t] \in RunningPC
          /\ content' = content /\ overlapped' = overlapped
      BY <2>2 DEF DispatchInv, TypeOK, Running, ScanItem, ScanAbort, ScanEnd,
           CheckOTA, CheckLogging, HandleOTA, HandleUser, EnterLogging,
           PostLogs, ExitLogging, Goto, message, RunningPC, ThreadPC, Scanning
    <3>2. pc'[m] = pc[m] /\ iter'[m] = iter[m] /\ handledAs'[m] = handledAs[m]
      BY <2>2 DEF DispatchInv, TypeOK, Running, ScanItem, ScanAbort, ScanEnd,
           CheckOTA, CheckLogging, HandleOTA, HandleUser, EnterLogging,
           PostLogs, ExitLogging, Goto
    <3>3. pc[m] \notin RunningPC
      BY <3>1 DEF DispatchInv, Solo
    <3> QED BY <3>1, <3>2, <3>3
  <2> QED BY <2>1, <2>2
<1>2. NameInv(m)
  BY <1>1 DEF DispatchInv
<1>3. pc[m] \in ThreadPC
  BY DEF DispatchInv, TypeOK
<1> QED BY <1>1, <1>2, <1>3
       DEF NameInv, Decided, Noted, LastNamed, RunningPC, ThreadPC, flags

(* One command of generateACKPayload: the note follows the last name.      *)
LEMMA ScanStep ==
    ASSUME DispatchInv, NEW m \in Messages, m \notin overlapped, ScanItem(m)
    PROVE  NameInv(m)'
<1> DEFINE items == content[m].items
<1>1. /\ iter[m] \in Nat \ {0} /\ iter'[m] = iter[m] + 1
      /\ items \in Seq(Items) /\ Len(items) \in Nat
      /\ iter[m] <= Len(items)
  BY ItemsType DEF ScanItem, DispatchInv, TypeOK
<1>2. content' = content /\ pc' = pc /\ handledAs' = handledAs
  BY DEF ScanItem, message
<1>3. pc[m] \in Scanning /\ NoteName(items[iter[m]].name)
  BY DEF ScanItem
<1>4. NameInv(m)
  BY DEF DispatchInv
<1>5. ASSUME pc[m] = "received", NEW i \in Nat,
             LastNamed(m, i, iter[m])
      PROVE  Noted(items[i].name)'
  <2>1. CASE items[iter[m]].name = NoName
    <3>1. LastNamed(m, i, iter[m] - 1)
      BY <1>1, <1>5, <2>1 DEF LastNamed
    <3>2. UNCHANGED flags
      BY <1>3, <2>1 DEF NoteName
    <3> QED BY <1>2, <1>4, <1>5, <3>1, <3>2 DEF NameInv, Noted, flags
  <2>2. CASE items[iter[m]].name # NoName
    <3>1. i = iter[m]
      BY <1>1, <1>5, <2>2 DEF LastNamed
    <3> QED BY <1>2, <1>3, <2>2, <3>1 DEF NoteName, Noted
  <2> QED BY <2>1, <2>2
<1>6. iter'[m] - 1 = iter[m]
  BY <1>1
<1> HIDE DEF items
<1>7. \A i, n : LastNamed(m, i, n)' <=> LastNamed(m, i, n)
  BY <1>2 DEF LastNamed
<1>8. pc'[m] = "received"
        => /\ iter'[m] <= Len(content'[m].items) + 1
           /\ \A i \in Nat : LastNamed(m, i, iter[m] - 1)'
                            => Noted(content[m].items[i].name)'
  BY <1>1, <1>2, <1>5, <1>6, <1>7 DEF items, LastNamed
<1> QED BY <1>1, <1>2, <1>3, <1>4, <1>8
       DEF NameInv, Decided, Noted, LastNamed, Scanning

(* The other steps of a thread without another: it scans all commands      *)
(* before it looks at the note, finds its own note, is not refused the     *)
(* cloud logging, and is handled as it decided.                            *)
LEMMA OwnStep ==
    ASSUME DispatchInv, NEW m \in Messages, m \notin overlapped',
           Receive(m) \/ Running(m)
    PROVE  NameInv(m)'
<1> USE DispatchAssumption
<1>1. /\ content' = content /\ m \notin overlapped
      /\ pc \in [Messages -> ThreadPC] /\ iter \in [Messages -> Nat \ {0}]
      /\ handledAs \in [Messages -> {NULL, "ota", "log", "user"}]
      /\ Len(content[m].items) \in Nat
  BY ItemsType
     DEF DispatchInv, TypeOK, Receive, Running, ScanItem, ScanAbort, ScanEnd,
         CheckOTA, CheckLogging, HandleOTA, HandleUser, EnterLogging,
         PostLogs, ExitLogging, message
<1>2. NameInv(m)
  BY <1>1 DEF DispatchInv
<1>3. CASE Receive(m)
  <2>1. pc[m] = "none" /\ pc'[m] = "received" /\ iter'[m] = 1
        /\ handledAs'[m] = NULL
    BY <1>1, <1>2, <1>3 DEF Receive, Goto, NameInv
  <2>2. \A i \in Nat : ~LastNamed(m, i, iter[m] - 1)'
    BY <2>1 DEF LastNamed
  <2> QED BY <1>1, <2>1, <2>2 DEF NameInv, Decided
<1>4. CASE ScanItem(m)
  BY <1>1, <1>4, ScanStep
<1>5. CASE ScanAbort(m)
  <2>1. /\ pc[m] = "received" /\ pc'[m] = "done" /\ handledAs'[m] = NULL
    BY <1>1, <1>2, <1>5 DEF ScanAbort, Goto, NameInv
  <2> QED BY <2>1 DEF NameInv, Decided
<1>6. CASE ScanEnd(m)
  <2>1. iter' = iter /\ handledAs' = handledAs /\ UNCHANGED flags
    BY <1>6 DEF ScanEnd
  <2>2. CASE Goto(m, "received", IF content[m].topic = "command"
                                 THEN "ota_check" ELSE "user")
    <3>1. /\ pc[m] = "received" /\ handledAs[m] = NULL
          /\ iter[m] - 1 = Len(content[m].items)
      BY <1>1, <1>2, <1>6, <2>2 DEF ScanEnd, Goto, NameInv
    <3>2. pc'[m] = IF content[m].topic = "command" THEN "ota_check" ELSE "user"
      BY <1>1, <2>2 DEF Goto
    <3>3. \A i \in Nat : LastNamed(m, i, Len(content[m].items))
                          => Noted(content[m].items[i].name)
      BY <1>2, <3>1 DEF NameInv
    <3> QED BY <1>1, <2>1, <3>1, <3>2, <3>3
           DEF NameInv, Decided, Noted, LastNamed, flags
  <2>3. CASE Goto(m, "processed", "done") \/ Goto(m, "log_ack", "log_exit")
    <3>1. pc'[m] \in {"done", "log_exit"}
      BY <1>1, <2>3 DEF Goto
    <3> QED BY <1>1, <1>2, <2>1, <3>1 DEF NameInv, Decided, LastNamed
  <2> QED BY <1>6, <2>2, <2>3 DEF ScanEnd
<1>7. CASE CheckOTA(m)
  <2>1. /\ pc[m] = "ota_check" /\ UNCHANGED <<flags, handledAs>>
        /\ pc'[m] = IF OTA_RECEIVED THEN "ota" ELSE "log_check"
    BY <1>1, <1>7 DEF CheckOTA, Goto
  <2> QED BY <1>1, <1>2, <2>1 DEF NameInv, Decided, Noted, LastNamed, flags
<1>8. CASE CheckLogging(m)
  <2>1. /\ pc[m] = "log_check" /\ UNCHANGED <<flags, handledAs>>
        /\ pc'[m] = IF CLOUD_LOGGING /\ ~cloud_logging_in_processing
                    THEN "log_enter" ELSE "user"
    BY <1>1, <1>8 DEF CheckLogging, Goto
  <2>2. ~cloud_logging_in_processing
    <3> SUFFICES ASSUME cloud_logging_in_processing PROVE FALSE
      OBVIOUS
    <3>1. PICK k \in Messages : pc[k] \in {"log_post", "log_ack", "log_exit"}
      BY DEF DispatchInv, BusyOnlyWhileLogging
    <3> QED BY <1>1, <2>1, <3>1
           DEF DispatchInv, Solo, RunningPC, ThreadPC, Scanning
  <2> QED BY <1>1, <1>2, <2>1, <2>2
         DEF NameInv, Decided, Noted, LastNamed, flags
<1>9. CASE HandleOTA(m)
  <2>1. pc[m] = "ota" /\ pc'[m] = "done" /\ handledAs'[m] = "ota"
    BY <1>1, <1>9 DEF HandleOTA, Goto
  <2> QED BY <1>1, <1>2, <2>1 DEF NameInv, Decided, LastNamed
<1>10. CASE HandleUser(m)
  <2>1. /\ pc[m] = "user" /\ pc'[m] \in {"processed", "done"}
        /\ handledAs'[m] = "user"
    BY <1>1, <1>10 DEF HandleUser, Goto
  <2> QED BY <1>1, <1>2, <2>1 DEF NameInv, Decided, LastNamed
<1>11. CASE EnterLogging(m)
  <2>1. pc[m] = "log_enter" /\ pc'[m] = "log_post" /\ handledAs'[m] = "log"
    BY <1>1, <1>11 DEF EnterLogging, Goto
  <2> QED BY <1>1, <1>2, <2>1 DEF NameInv, Decided, LastNamed
<1>12. CASE PostLogs(m) \/ ExitLogging(m)
  <2>1. pc'[m] \in {"log_ack", "done"} /\ handledAs' = handledAs
    BY <1>1, <1>12 DEF PostLogs, ExitLogging, Goto
  <2> QED BY <1>1, <1>2, <2>1 DEF NameInv, Decided, LastNamed
<1> QED
  BY <1>3, <1>4, <1>5, <1>6, <1>7, <1>8, <1>9, <1>10, <1>11, <1>12
     DEF Running

(* The whole invariant holds in every reachable state.                     *)
LEMMA DispatchInvariant == Spec => []DispatchInv
<1>1. Init => DispatchInv
  <2> SUFFICES ASSUME Init, TypeOK PROVE DispatchInv
    BY InitType
  <2>1. BusyOnlyWhileLogging /\ Solo
    BY DEF Init, BusyOnlyWhileLogging, Solo, RunningPC
  <2>2. \A m \in Messages : NameInv(m)
    BY DispatchAssumption DEF Init, NameInv, Decided
  <2> QED BY <2>1, <2>2 DEF DispatchInv
<1>2. DispatchInv /\ [Next]_vars => DispatchInv'
  <2> SUFFICES ASSUME DispatchInv, [Next]_vars PROVE DispatchInv'
    OBVIOUS
  <2>1. ASSUME NEW t \in Messages, Receive(t) \/ Running(t)
        PROVE  DispatchInv'
    <3>1. TypeOK'
      BY <2>1, StepType DEF DispatchInv
    <3>2. BusyOnlyWhileLogging'
      BY <2>1, StepKeepsBusy DEF DispatchInv, TypeOK, BusyInv
    <3>3. Solo'
      BY <2>1, SoloStep DEF DispatchInv
    <3>4. \A m \in Messages \ overlapped' : NameInv(m)'
      BY <2>1, OtherStep, OwnStep
    <3> QED BY <3>1, <3>2, <3>3, <3>4 DEF DispatchInv
  <2>2. CASE UNCHANGED vars
    BY <2>2 DEF vars, flags, message, DispatchInv, TypeOK,
         BusyOnlyWhileLogging, Solo, NameInv, Decided, Noted, LastNamed
  <2> QED BY <2>1, <2>2 DEF Next
<1> QED BY <1>1, <1>2, PTL DEF Spec

-----------------------------------------------------------------------------
(* The last name of a message.                                             *)

(* A nonempty set of positions up to n has a last one.                     *)
LEMMA LastPosition ==
    ASSUME NEW n \in Nat, NEW S, S \subseteq 1..n, S # {}
    PROVE  \E i \in S : \A j \in S : j <= i
<1> DEFINE R == OpToRel(<, Nat)
           D == {n - i : i \in S}
<1>1. IsWellFoundedOn(R, Nat)
  BY NatLessThanWellFounded, Zenon
<1>2. D \subseteq Nat /\ D # {}
  <2>1. D \subseteq Nat
    OBVIOUS
  <2>2. PICK i \in S : TRUE
    OBVIOUS
  <2>3. n - i \in D
    OBVIOUS
  <2> QED BY <2>1, <2>3
<1> HIDE DEF R, D
<1>3. PICK d \in D : \A e \in D : ~(<<e, d>> \in R)
  BY <1>1, <1>2, WFMin
<1>4. \A e \in D : ~(e < d)
  BY <1>2, <1>3 DEF R, OpToRel
<1>5. PICK i \in S : d = n - i
  BY DEF D
<1>6. \A j \in S : n - j \in D
  BY DEF D
<1> QED BY <1>4, <1>5, <1>6

(* A message with a named command has a last one, and its name is          *)
(* LastName.                                                               *)
LEMMA LastNameFound ==
    ASSUME TypeOK, NEW m \in Messages, NamesOf(m) # {}
    PROVE  \E i \in Nat : /\ LastNamed(m, i, Len(content[m].items))
                          /\ LastName(m) = content[m].items[i].name
<1> DEFINE items == content[m].items
           S == {i \in DOMAIN items : items[i].name # NoName}
           P(i) == /\ items[i].name # NoName
                   /\ \A j \in DOMAIN items :
                         j > i => items[j].name = NoName
           last == CHOOSE i \in DOMAIN items : P(i)
<1>1. Len(items) \in Nat /\ DOMAIN items = 1..Len(items)
  BY ItemsType
<1>2. S \subseteq 1..Len(items) /\ S # {}
  BY <1>1 DEF NamesOf
<1>3. PICK i \in S : \A j \in S : j <= i
  <2> HIDE DEF S
  <2> QED BY <1>1, <1>2, LastPosition
<1>4. i \in DOMAIN items /\ P(i)
  BY <1>1, <1>3
<1>5. last \in DOMAIN items /\ P(last)
  BY <1>4
<1>6. LastName(m) = items[last].name
  BY DEF LastName
<1> HIDE DEF last
<1>7. LastNamed(m, last, Len(items)) /\ last \in Nat
  BY <1>1, <1>5 DEF LastNamed
<1> QED BY <1>6, <1>7

(* A named command whose thread ran without another is handled by the part *)
(* its last name calls for, however many messages came before, whatever    *)
(* notes they left and however many commands a message holds.              *)
THEOREM DispatchByName == Spec => []HandledByItsName
<1>1. DispatchInv => HandledByItsName
  <2> SUFFICES ASSUME DispatchInv, NEW m \in Messages \ overlapped,
                      content[m].topic = "command", NamesOf(m) # {},
                      handledAs[m] # NULL
               PROVE  handledAs[m] = CASE LastName(m) = OTA  -> "ota"
                                       [] LastName(m) = LOGS -> "log"
                                       [] OTHER              -> "user"
    BY DEF HandledByItsName
  <2>1. PICK i \in Nat : /\ LastNamed(m, i, Len(content[m].items))
                         /\ LastName(m) = content[m].items[i].name
    BY LastNameFound DEF DispatchInv
  <2>2. Decided(m, LastName(m))
    BY <2>1 DEF DispatchInv, NameInv
  <2>3. handledAs[m] \in {"ota", "log", "user"}
    BY DEF DispatchInv, TypeOK
  <2> QED BY <2>2, <2>3 DEF Decided, OTA, LOGS
<1> QED BY <1>1, DispatchInvariant, PTL
=============================================================================
