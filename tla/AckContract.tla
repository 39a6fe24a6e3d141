---------------------------- MODULE AckContract ----------------------------
(***************************************************************************)
(* What becomes of the acknowledgement of a message, whatever threads,     *)
(* connections and retries are involved: it is published only for a        *)
(* message that was received and successfully at most once; one that       *)
(* failed is kept, in a single place, until another one takes that place   *)
(* or until an acknowledgement has been resent; and one that has been      *)
(* published is not kept again.                                            *)
(***************************************************************************)
CONSTANTS Messages,     \* the messages of the cloud
          NULL          \* nothing is kept

VARIABLES received,     \* the messages that have arrived
          acked,        \* those whose acknowledgement was published
          kept          \* the acknowledgement kept for the retry

cvars == <<received, acked, kept>>

Init ==
    /\ received = {}
    /\ acked = {}
    /\ kept = NULL

Receive(m) ==
    /\ m \notin received
    /\ received' = received \union {m}

Acknowledge(m) ==
    /\ m \in received \ acked
    /\ acked' = acked \union {m}
    /\ UNCHANGED kept

(* The place is taken from whatever was kept before.                       *)
Keep(m) ==
    /\ m \in received \ acked
    /\ kept' = m
    /\ UNCHANGED acked

(* What is discarded need not be what was resent.                          *)
Discard ==
    /\ kept # NULL
    /\ acked # {}
    /\ kept' = NULL
    /\ UNCHANGED acked

(* A message can arrive while an acknowledgement waits for its PUBACK.     *)
Next ==
    /\ \/ UNCHANGED received
       \/ \E m \in Messages : Receive(m)
    /\ \/ UNCHANGED <<acked, kept>>
       \/ \E m \in Messages : Acknowledge(m) \/ Keep(m)
       \/ Discard

Spec == Init /\ [][Next]_cvars
=============================================================================
