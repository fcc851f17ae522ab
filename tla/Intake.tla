-------------------------------- MODULE Intake --------------------------------
(***************************************************************************)
(* What the messaging service promises for an event that reaches           *)
(* messaging.work, without deliveries, attempts, processes or queues: the  *)
(* fate of each event.  Consumer implements it; Platform is built on it.   *)
(***************************************************************************)
CONSTANT Events

VARIABLE fate

Fates == {"absent",     \* never published
          "queued",     \* the service owes it an outcome
          "persisted",  \* there is a message row
          "dead",       \* in messaging.dlq, or logged by DlqConsumerService
          "dropped"}    \* refused by the contract and acked

Init == fate = [e \in Events |-> "absent"]

Arrive(e) ==
    /\ fate[e] = "absent"
    /\ fate' = [fate EXCEPT ![e] = "queued"]

\* handleMessageCreationIdempotent() commits.  A copy of a dead event may
\* still be under way.
Persist(e) ==
    /\ fate[e] \in {"queued", "dead"}
    /\ fate' = [fate EXCEPT ![e] = "persisted"]

Reject(e) ==
    /\ fate[e] = "queued"
    /\ fate' = [fate EXCEPT ![e] = "dropped"]

DeadLetter(e) ==
    /\ fate[e] = "queued"
    /\ fate' = [fate EXCEPT ![e] = "dead"]

\* An operator moves the dead letter back.
Requeue(e) ==
    /\ fate[e] = "dead"
    /\ fate' = [fate EXCEPT ![e] = "queued"]

EventStep(e) == Arrive(e) \/ Persist(e) \/ Reject(e) \/ DeadLetter(e) \/ Requeue(e)

Next == \E e \in Events : EventStep(e)

Spec == Init /\ [][Next]_fate

==============================================================================
