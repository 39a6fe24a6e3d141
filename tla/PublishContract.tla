-------------------------- MODULE PublishContract --------------------------
(***************************************************************************)
(* What MQTTPublish with QoS 1 promises its caller, whatever packets,      *)
(* timers and connections it takes: a call that returns SUCCESS was        *)
(* accepted by the broker, a call is accepted at most once, and a call     *)
(* that failed may still be accepted later.  The promise is void once a    *)
(* read was cut off in the middle of a packet and the rest of the stream   *)
(* has been taken for packets.                                             *)
(***************************************************************************)
EXTENDS Naturals

CONSTANT Messages            \* one value for each call of MQTTPublish

VARIABLES result,            \* what the caller of each publish knows
          accepted,          \* how often the broker has accepted each
          garbled            \* the stream was read out of step

cvars == <<result, accepted, garbled>>

Init == /\ result = [m \in Messages |-> "new"]
        /\ accepted = [m \in Messages |-> 0]
        /\ garbled = FALSE

Call(m) == /\ result[m] = "new"
           /\ result' = [result EXCEPT ![m] = "calling"]
           /\ UNCHANGED <<accepted, garbled>>

\* A call may also fail before anything is sent.
Fail(m) == /\ result[m] \in {"new", "calling"}
           /\ result' = [result EXCEPT ![m] = "failed"]
           /\ UNCHANGED <<accepted, garbled>>

Succeed(m) == /\ result[m] = "calling"
              /\ accepted[m] > 0 \/ garbled
              /\ result' = [result EXCEPT ![m] = "ok"]
              /\ UNCHANGED <<accepted, garbled>>

\* Never before the call, never twice.
Accept(m) == /\ result[m] # "new"
             /\ accepted[m] = 0
             /\ accepted' = [accepted EXCEPT ![m] = 1]
             /\ UNCHANGED <<result, garbled>>

\* Reading out of step lasts until the next connection.  The read with which it
\* begins may also end the call, as a failure or on a cut off acknowledgement.
Garble == /\ garbled' \in BOOLEAN
          /\ \/ UNCHANGED result
             \/ \E m \in Messages :
                  /\ result[m] = "calling"
                  /\ \/ result' = [result EXCEPT ![m] = "failed"]
                     \/ /\ accepted[m] > 0
                        /\ result' = [result EXCEPT ![m] = "ok"]
          /\ UNCHANGED accepted

Next == \/ \E m \in Messages : Call(m) \/ Fail(m) \/ Succeed(m) \/ Accept(m)
        \/ Garble

Spec == Init /\ [][Next]_cvars
=============================================================================
