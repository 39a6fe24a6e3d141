-------------------------- MODULE MessageDispatch --------------------------
(***************************************************************************)
(* How a received message finds its handler: each message has a thread     *)
(* (onMessageReceivedThread) that runs processMessageReceived, which forms *)
(* the "received" acknowledgement, and on the way notes in the client      *)
(* which kind of command it saw, then reads that note back to choose       *)
(* between the OTA handler, the cloud logging and the user's handler.      *)
(* Every processed acknowledgement runs through the same code once more.   *)
(*                                                                         *)
(* Grain: one action per section under client->lock, and one for each      *)
(* unlocked write of cloud_logging_in_processing.                          *)
(*                                                                         *)
(* A message is the sequence of its commands; corr says whether a command  *)
(* has a correlation_id.  A payload that is no JSON array behaves as a     *)
(* command without one.  The handlers are set: a message only arrives on a *)
(* topic that was subscribed with one.                                     *)
(***************************************************************************)
EXTENDS Naturals, Sequences

CONSTANTS
    Messages,   \* messages the cloud sends, one thread each
    Contents,   \* what a message can be: a topic and its commands
    NULL

NoName == ""                      \* a command without command_name
OTA == "Z_OTA"
LOGS == "Z_PUBLISH_DEVICE_LOGS"
Names == {NoName, OTA, LOGS, "other"}
Items == [corr : BOOLEAN, name : Names]

ASSUME DispatchAssumption ==
    /\ Contents \subseteq [topic : {"command", "config"}, items : Seq(Items)]
    /\ NULL \notin {"ota", "log", "user"}

VARIABLES
    OTA_RECEIVED,                \* client->OTA_RECEIVED
    CLOUD_LOGGING,               \* client->CLOUD_LOGGING
    cloud_logging_in_processing, \* client->cloud_logging_in_processing
    content,                     \* what each message is
    pc,                          \* control point of each message's thread
    iter,                        \* loop counter of generateACKPayload
    handledAs,                   \* history: who handled the message
    overlapped                   \* history: messages whose threads overlapped

flags == <<OTA_RECEIVED, CLOUD_LOGGING>>
message == <<content, overlapped>>     \* what no step of a thread changes
vars == <<flags, cloud_logging_in_processing, message, pc, iter, handledAs>>

(* "received", "processed" and "log_ack" are runs of generateACKPayload.   *)
Scanning == {"received", "processed", "log_ack"}
ThreadPC == Scanning \union {"none", "ota_check", "log_check", "user", "ota",
                             "log_enter", "log_post", "log_exit", "done"}

(* The type invariant.                                                     *)
TypeOK ==
    /\ OTA_RECEIVED \in BOOLEAN
    /\ CLOUD_LOGGING \in BOOLEAN
    /\ cloud_logging_in_processing \in BOOLEAN
    /\ content \in [Messages -> Contents]
    /\ pc \in [Messages -> ThreadPC]
    /\ iter \in [Messages -> Nat \ {0}]
    /\ handledAs \in [Messages -> {NULL, "ota", "log", "user"}]
    /\ overlapped \subseteq Messages

Init ==
    /\ OTA_RECEIVED = FALSE
    /\ CLOUD_LOGGING = FALSE
    /\ cloud_logging_in_processing = FALSE
    /\ content \in [Messages -> Contents]
    /\ pc = [m \in Messages |-> "none"]
    /\ iter = [m \in Messages |-> 1]
    /\ handledAs = [m \in Messages |-> NULL]
    /\ overlapped = {}

-----------------------------------------------------------------------------
Goto(m, from, to) == pc[m] = from /\ pc' = [pc EXCEPT ![m] = to]

(* onMessageReceived.                                                      *)
Receive(m) ==
    LET running == {k \in Messages : pc[k] \notin {"none", "done"}}
    IN  /\ Goto(m, "none", "received")
        /\ overlapped' = IF running = {} THEN overlapped
                         ELSE overlapped \union running \union {m}
        /\ UNCHANGED <<flags, cloud_logging_in_processing, content, iter,
                       handledAs>>

(* Mutant of NoteName: the note is made only for the special commands.     *)
MutNoteName(name) ==
    IF name \in {OTA, LOGS}
    THEN OTA_RECEIVED' = (name = OTA) /\ CLOUD_LOGGING' = (name = LOGS)
    ELSE UNCHANGED flags

(* A command without a name leaves the note of an earlier one.             *)
NoteName(name) ==
    IF name = NoName
    THEN UNCHANGED flags
    ELSE OTA_RECEIVED' = (name = OTA) /\ CLOUD_LOGGING' = (name = LOGS)

(* One command of generateACKPayload.                                      *)
ScanItem(m) ==
    /\ pc[m] \in Scanning
    /\ iter[m] <= Len(content[m].items)
    /\ LET item == content[m].items[iter[m]]
       IN  item.corr /\ NoteName(item.name)
    /\ iter' = [iter EXCEPT ![m] = @ + 1]
    /\ UNCHANGED <<cloud_logging_in_processing, message, pc, handledAs>>

(* A command without correlation_id: no acknowledgement and no handler.    *)
(* Only the first run meets one: handlers acknowledge the same payload.    *)
ScanAbort(m) ==
    /\ iter[m] <= Len(content[m].items)
    /\ ~content[m].items[iter[m]].corr
    /\ Goto(m, "received", "done")
    /\ UNCHANGED <<flags, cloud_logging_in_processing, message, iter,
                   handledAs>>

(* The acknowledgement is complete and is published (see ClientSession).   *)
ScanEnd(m) ==
    /\ iter[m] > Len(content[m].items)
    /\ \/ Goto(m, "received", IF content[m].topic = "command" THEN "ota_check"
                                                              ELSE "user")
       \/ Goto(m, "processed", "done")
       \/ Goto(m, "log_ack", "log_exit")
    /\ UNCHANGED <<flags, cloud_logging_in_processing, message, iter,
                   handledAs>>

(* get_OTA_status.                                                         *)
CheckOTA(m) ==
    /\ Goto(m, "ota_check", IF OTA_RECEIVED THEN "ota" ELSE "log_check")
    /\ UNCHANGED <<flags, cloud_logging_in_processing, message, iter,
                   handledAs>>

(* Mutant of CheckLogging: a request that finds the logging busy is lost.  *)
MutCheckLogging(m) ==
    /\ Goto(m, "log_check",
            CASE ~CLOUD_LOGGING              -> "user"
              [] cloud_logging_in_processing -> "done"
              [] OTHER                       -> "log_enter")
    /\ UNCHANGED <<flags, cloud_logging_in_processing, message, iter,
                   handledAs>>

(* get_cloud_logging_status.                                               *)
CheckLogging(m) ==
    /\ Goto(m, "log_check",
            IF CLOUD_LOGGING /\ ~cloud_logging_in_processing THEN "log_enter"
                                                             ELSE "user")
    /\ UNCHANGED <<flags, cloud_logging_in_processing, message, iter,
                   handledAs>>

(* handle_OTA: the OTA handler, or an acknowledgement that says why not;   *)
(* zclient_publishOTAAck makes no note.                                    *)
HandleOTA(m) ==
    /\ Goto(m, "ota", "done")
    /\ handledAs' = [handledAs EXCEPT ![m] = "ota"]
    /\ UNCHANGED <<flags, cloud_logging_in_processing, message, iter>>

(* Mutant of HandleUser: the second run starts before the first command.   *)
MutHandleUser(m) ==
    /\ Goto(m, "user", "processed") \/ Goto(m, "user", "done")
    /\ iter' = [iter EXCEPT ![m] = 0]
    /\ handledAs' = [handledAs EXCEPT ![m] = "user"]
    /\ UNCHANGED <<flags, cloud_logging_in_processing, message>>

(* The user's handler, which acknowledges the message or does not.         *)
HandleUser(m) ==
    /\ Goto(m, "user", "processed") \/ Goto(m, "user", "done")
    /\ iter' = [iter EXCEPT ![m] = 1]
    /\ handledAs' = [handledAs EXCEPT ![m] = "user"]
    /\ UNCHANGED <<flags, cloud_logging_in_processing, message>>

(* handle_cloud_logging: the flag around the upload and its                *)
(* acknowledgement is written without the lock.                            *)
EnterLogging(m) ==
    /\ Goto(m, "log_enter", "log_post")
    /\ cloud_logging_in_processing' = TRUE
    /\ handledAs' = [handledAs EXCEPT ![m] = "log"]
    /\ UNCHANGED <<flags, message, iter>>

PostLogs(m) ==
    /\ Goto(m, "log_post", "log_ack")
    /\ iter' = [iter EXCEPT ![m] = 1]
    /\ UNCHANGED <<flags, cloud_logging_in_processing, message, handledAs>>

(* Mutant of ExitLogging: the flag is not reset.                           *)
MutExitLogging(m) ==
    /\ Goto(m, "log_exit", "done")
    /\ UNCHANGED <<flags, cloud_logging_in_processing, message, iter,
                   handledAs>>

ExitLogging(m) ==
    /\ Goto(m, "log_exit", "done")
    /\ cloud_logging_in_processing' = FALSE
    /\ UNCHANGED <<flags, message, iter, handledAs>>

-----------------------------------------------------------------------------
Running(m) == \/ ScanItem(m) \/ ScanAbort(m) \/ ScanEnd(m)
              \/ CheckOTA(m) \/ CheckLogging(m) \/ HandleOTA(m)
              \/ HandleUser(m) \/ EnterLogging(m) \/ PostLogs(m)
              \/ ExitLogging(m)

Next == \E m \in Messages : Receive(m) \/ Running(m)

Spec == Init /\ [][Next]_vars

(* Every thread runs.                                                      *)
FairSpec == Spec /\ \A m \in Messages : WF_vars(Running(m))

-----------------------------------------------------------------------------
(* Properties.                                                             *)

NamesOf(m) == {content[m].items[i].name : i \in DOMAIN content[m].items}
                 \ {NoName}
WellFormed(m) == \A i \in DOMAIN content[m].items : content[m].items[i].corr

(* The last name decides, as the loop of generateACKPayload has it.        *)
LastName(m) ==
    LET items == content[m].items
        last == CHOOSE i \in DOMAIN items :
                   /\ items[i].name # NoName
                   /\ \A j \in DOMAIN items :
                         j > i => items[j].name = NoName
    IN  items[last].name

(* A command that has a name, and whose thread ran without another, is     *)
(* handled by the part its name calls for: the notes that earlier messages *)
(* and their acknowledgements left do not decide.                          *)
HandledByItsName ==
    \A m \in Messages \ overlapped :
        /\ content[m].topic = "command"
        /\ NamesOf(m) # {}
        /\ handledAs[m] # NULL
        => handledAs[m] = CASE LastName(m) = OTA  -> "ota"
                            [] LastName(m) = LOGS -> "log"
                            [] OTHER              -> "user"

(* The cloud logging is marked busy only while a thread is at it, so a     *)
(* request for the logs is never refused for good.                         *)
BusyOnlyWhileLogging ==
    cloud_logging_in_processing
        => \E m \in Messages : pc[m] \in {"log_post", "log_ack", "log_exit"}

(* A message whose commands all have a correlation_id reaches a handler,   *)
(* whatever the other threads write to the flags.                          *)
EveryMessageHandled ==
    \A m \in Messages :
        (pc[m] = "received" /\ WellFormed(m)) ~> handledAs[m] # NULL

(* What is handled as an OTA command (zoho_message_handler.c:305) is one.  *)
OnlyOTAHandledAsOTA ==
    \A m \in Messages : handledAs[m] = "ota" => OTA \in NamesOf(m)
=============================================================================
