------------------------- MODULE Consumer_refinement -------------------------
(***************************************************************************)
(* Consumer implements Intake, for any number of events, processes, slots, *)
(* attempts and faults.                                                    *)
(***************************************************************************)
EXTENDS Consumer_proofs

Fate == [e \in Events |-> FateOf(e)]

\* An event that was never published has left no trace.
Unpublished ==
    \A e \in Events : copies[e] = 0 => /\ work[e] = 0 /\ retry[e] = 0 /\ dlq[e] = 0
                                       /\ messages[e] = 0
                                       /\ e \notin logged \cup rejected
                                       /\ \A s \in Slots : event[s] # e

\* An invalid event is neither persisted nor dead-lettered.
InvalidNeverKept == \A e \in Invalid : messages[e] = 0 /\ dlq[e] = 0 /\ e \notin logged

\* Since nothing is lost, custody does not decide the fate.
LEMMA FateCases ==
    ASSUME TypeOK, NothingLost, NEW e \in Events
    PROVE  FateOf(e) = IF copies[e] = 0 THEN "absent"
                       ELSE IF messages[e] > 0 THEN "persisted"
                       ELSE IF e \in rejected THEN "dropped"
                       ELSE IF e \in logged \/ dlq[e] > 0 THEN "dead"
                       ELSE "queued"
BY DEF FateOf, NothingLost, TypeOK, QueueTypeOK

\* The same of the state a step leads to.
LEMMA NextFateCases ==
    ASSUME TypeOK', NothingLost', NEW e \in Events
    PROVE  FateOf(e)' = IF copies'[e] = 0 THEN "absent"
                        ELSE IF messages'[e] > 0 THEN "persisted"
                        ELSE IF e \in rejected' THEN "dropped"
                        ELSE IF e \in logged' \/ dlq'[e] > 0 THEN "dead"
                        ELSE "queued"
BY DEF FateOf, NothingLost, TypeOK, QueueTypeOK

\* An event keeps its fate when the step leaves what decides it alone.
Untouched(f) ==
    /\ copies'[f] = copies[f] /\ messages'[f] = messages[f] /\ dlq'[f] = dlq[f]
    /\ f \in rejected' <=> f \in rejected
    /\ f \in logged' <=> f \in logged

\* A step that decides the fate of at most one event, in a way Intake allows.
LEMMA OneFate ==
    ASSUME TypeOK, TypeOK', NothingLost, NothingLost', NEW e \in Events,
           \A f \in Events \ {e} : Untouched(f),
           \/ FateOf(e)' = FateOf(e)
           \/ FateOf(e) = "absent" /\ FateOf(e)' = "queued"
           \/ FateOf(e) \in {"queued", "dead"} /\ FateOf(e)' = "persisted"
           \/ FateOf(e) = "queued" /\ FateOf(e)' \in {"dropped", "dead"}
           \/ FateOf(e) = "dead" /\ FateOf(e)' = "queued"
    PROVE  [Abstract!Next]_Fate
<1>1. \A f \in Events \ {e} : FateOf(f)' = FateOf(f)
  BY FateCases, NextFateCases DEF Untouched
<1>2. Fate' = [f \in Events |-> FateOf(f)']
  BY DEF Fate
<1>3. Fate' = [Fate EXCEPT ![e] = FateOf(e)']
  BY <1>1, <1>2 DEF Fate
<1>4. Fate[e] = FateOf(e)
  BY DEF Fate
<1>5. CASE FateOf(e)' = FateOf(e)
  BY <1>1, <1>2, <1>5 DEF Fate
<1>6. CASE FateOf(e)' # FateOf(e)
  <2>1. Abstract!EventStep(e)
    BY <1>3, <1>4, <1>6 DEF Fate, Abstract!EventStep, Abstract!Arrive, Abstract!Persist,
       Abstract!Reject, Abstract!DeadLetter, Abstract!Requeue
  <2> QED BY <2>1 DEF Abstract!Next
<1> QED BY <1>5, <1>6

------------------------------------------------------------------------------
\* What a nack to the DLQ does to its queue.
LEMMA NackedInto ==
    ASSUME TypeOK, NEW s \in Slots, event[s] \in Events
    PROVE  /\ Nacked(s, dlq)[event[s]] >= dlq[event[s]]
           /\ \A f \in Events \ {event[s]} : Nacked(s, dlq)[f] = dlq[f]
BY PlusType DEF Nacked, TypeOK, QueueTypeOK

\* What the catch block does to the DLQ.
LEMMA CaughtInto ==
    ASSUME TypeOK, NEW s \in Slots, event[s] \in Events, NEW class, Catch(s, class)
    PROVE  /\ dlq'[event[s]] >= dlq[event[s]]
           /\ \A f \in Events \ {event[s]} : dlq'[f] = dlq[f]
<1>1. dlq' = dlq \/ dlq' = Nacked(s, dlq)
  BY DEF Catch
<1> QED BY <1>1, NackedInto DEF TypeOK, QueueTypeOK

\* A handler touches the event it holds and no other.  It drops an invalid
\* one; for a valid one it may add a message row and a dead letter.
LEMMA HandlerEffect ==
    ASSUME TypeOK, ConsumerInv, NEW s \in Slots, HandlerStep(s)
    PROVE  /\ event[s] \in Events
           /\ UNCHANGED <<copies, logged>>
           /\ \A f \in Events \ {event[s]} : Untouched(f)
           /\ \/ /\ event[s] \in Invalid /\ rejected' = rejected \cup {event[s]}
                 /\ UNCHANGED <<messages, dlq>>
              \/ /\ event[s] \notin Invalid \/ UNCHANGED <<messages, dlq>>
                 /\ rejected' = rejected
                 /\ messages'[event[s]] >= messages[event[s]]
                 /\ dlq'[event[s]] >= dlq[event[s]]
<1> USE DEF queueVars, slotVars, tableVars, Untouched
<1>a. event[s] \in Events
  <2>1. pc[s] # "free"
    BY DEF HandlerStep, RejectInvalid, RecordAttempt, RecordAttemptFails, InsertLedger, Commit,
       TransactionFails, CommitReplyLost, ClearAttempts, ClearAttemptsFails, Ack, PublishToRetry,
       PublishToRetryFails, HandleTestRabbit, HandleTestRabbitFails, At
  <2> QED BY <2>1, BusyHasEvent DEF TypeOK
<1>t. messages[event[s]] \in Nat /\ dlq[event[s]] \in Nat
  BY <1>a DEF TypeOK, QueueTypeOK, TableTypeOK
<1>b. /\ Plus(messages, event[s])[event[s]] >= messages[event[s]]
      /\ \A f \in Events \ {event[s]} : Plus(messages, event[s])[f] = messages[f]
  BY <1>a, PlusType DEF TypeOK, TableTypeOK
<1>c. event[s] \in Contract \cup Legacy => event[s] \notin Invalid
  BY ConsumerAssumption DEF Contract
<1>d. pc[s] \in {"recorded", "inTransaction", "clearing"} => event[s] \in Contract
  BY DEF ConsumerInv, Stages
<1>e. CASE UNCHANGED <<copies, dlq, logged, rejected, messages>>
  BY <1>a, <1>e, <1>t
<1>1. CASE RejectInvalid(s)
  BY <1>1, <1>a DEF RejectInvalid
<1>2. CASE \/ RecordAttempt(s) \/ RecordAttemptFails(s) \/ InsertLedger(s) \/ ClearAttempts(s)
           \/ Ack(s) \/ PublishToRetry(s) \/ PublishToRetryFails(s)
  <2>1. UNCHANGED <<copies, dlq, logged, rejected, messages>>
    BY <1>2 DEF RecordAttempt, RecordAttemptFails, InsertLedger, ClearAttempts, Ack,
       PublishToRetry, PublishToRetryFails
  <2> QED BY <1>e, <2>1
<1>3. CASE Commit(s) \/ HandleTestRabbit(s)
  <2>1. /\ UNCHANGED <<copies, dlq, logged, rejected>>
        /\ messages' = Plus(messages, event[s])
        /\ event[s] \in Contract \cup Legacy
    BY <1>3, <1>d DEF Commit, HandleTestRabbit, Persist, At
  <2> QED BY <1>a, <1>b, <1>c, <1>t, <2>1
<1>4. CASE TransactionFails(s) \/ CommitReplyLost(s) \/ ClearAttemptsFails(s)
  <2>1. /\ UNCHANGED <<copies, logged, rejected>>
        /\ messages' = messages \/ messages' = Plus(messages, event[s])
        /\ event[s] \in Contract
        /\ \E class \in ErrorClass : Catch(s, class)
    BY <1>4, <1>d DEF TransactionFails, CommitReplyLost, ClearAttemptsFails, Persist, At
  <2>2. dlq'[event[s]] >= dlq[event[s]] /\ \A f \in Events \ {event[s]} : dlq'[f] = dlq[f]
    BY <1>a, <2>1, CaughtInto
  <2> QED BY <1>a, <1>b, <1>c, <1>t, <2>1, <2>2
<1>5. CASE HandleTestRabbitFails(s)
  <2>1. /\ UNCHANGED <<copies, logged, rejected>>
        /\ messages' = messages \/ messages' = Plus(messages, event[s])
        /\ event[s] \in Legacy
        /\ dlq' = Nacked(s, dlq)
    BY <1>5 DEF HandleTestRabbitFails
  <2> QED BY <1>a, <1>b, <1>c, <1>t, <2>1, NackedInto
<1> QED BY <1>1, <1>2, <1>3, <1>4, <1>5 DEF HandlerStep

\* Every step of the consumer is a step of Intake, or changes no fate.
LEMMA StepMaps ==
    ASSUME TypeOK, TypeOK', ConsumerInv, NothingLost, NothingLost', Unpublished, InvalidNeverKept,
           [Next]_vars
    PROVE  [Abstract!Next]_Fate
<1> DEFINE Goal == [Abstract!Next]_Fate
<1> USE DEF queueVars, slotVars, tableVars
<1>a. ASSUME NEW f \in Events
      PROVE  /\ copies[f] \in Nat /\ messages[f] \in Nat /\ dlq[f] \in Nat
             /\ copies'[f] \in Nat /\ messages'[f] \in Nat /\ dlq'[f] \in Nat
  BY DEF TypeOK, QueueTypeOK, TableTypeOK
<1>0. ASSUME UNCHANGED <<copies, dlq, logged, rejected, messages>> PROVE Goal
  <2>1. \A f \in Events : FateOf(f)' = FateOf(f)
    BY <1>0, FateCases, NextFateCases
  <2>2. Fate' = [f \in Events |-> FateOf(f)']
    BY DEF Fate
  <2> QED BY <2>1, <2>2 DEF Fate
<1>1. ASSUME NEW e \in Events, Arrive(e) PROVE Goal
  <2>1. \A f \in Events \ {e} : Untouched(f)
    BY <1>1, PlusType DEF Arrive, Untouched, TypeOK, QueueTypeOK
  <2>2. copies'[e] > 0 /\ UNCHANGED <<messages, dlq, logged, rejected>>
    BY <1>1, PlusType DEF Arrive, TypeOK, QueueTypeOK
  <2>3. FateOf(e)' = FateOf(e) \/ (FateOf(e) = "absent" /\ FateOf(e)' = "queued")
    BY <1>a, <2>2, FateCases, NextFateCases DEF Unpublished
  <2> QED BY <2>1, <2>3, OneFate
<1>2. ASSUME NEW e \in Events, HandleDlqMessage(e) PROVE Goal
  <2>1. \A f \in Events \ {e} : Untouched(f)
    BY <1>2, MinusType DEF HandleDlqMessage, Untouched, TypeOK, QueueTypeOK
  <2>2. dlq[e] > 0 /\ e \in logged' /\ UNCHANGED <<copies, messages, rejected>>
    BY <1>2 DEF HandleDlqMessage
  <2>3. FateOf(e)' = FateOf(e)
    BY <2>2, FateCases, NextFateCases
  <2> QED BY <2>1, <2>3, OneFate
<1>3. ASSUME NEW e \in Events, Requeue(e) PROVE Goal
  <2>1. \A f \in Events \ {e} : Untouched(f)
    BY <1>3, MinusType DEF Requeue, Untouched, TypeOK, QueueTypeOK
  <2>2. dlq[e] > 0 /\ UNCHANGED <<copies, messages, rejected, logged>>
    BY <1>3 DEF Requeue
  <2>3. FateOf(e)' = FateOf(e) \/ (FateOf(e) = "dead" /\ FateOf(e)' = "queued")
    BY <2>2, FateCases, NextFateCases
  <2> QED BY <2>1, <2>3, OneFate
<1>4. ASSUME NEW s \in Slots, HandlerStep(s) PROVE Goal
  <2>0. PICK e \in Events : e = event[s]
    BY <1>4, HandlerEffect
  <2>1. UNCHANGED <<copies, logged>> /\ \A f \in Events \ {e} : Untouched(f)
    BY <1>4, <2>0, HandlerEffect
  <2>2. copies[e] > 0 /\ copies'[e] > 0
    BY <1>a, <2>0, <2>1 DEF Unpublished
  <2>3. CASE e \in Invalid /\ rejected' = rejected \cup {e} /\ UNCHANGED <<messages, dlq>>
    <3>1. messages[e] = 0 /\ dlq[e] = 0 /\ e \notin logged
      BY <2>3 DEF InvalidNeverKept
    <3>2. FateOf(e)' = "dropped" /\ FateOf(e) \in {"queued", "dropped"}
      BY <2>1, <2>2, <2>3, <3>1, FateCases, NextFateCases
    <3> QED BY <2>1, <3>2, OneFate
  <2>4. CASE /\ e \notin Invalid /\ rejected' = rejected
             /\ messages'[e] >= messages[e] /\ dlq'[e] >= dlq[e]
    <3>1. e \notin rejected /\ e \notin rejected'
      BY <2>4 DEF TypeOK, QueueTypeOK
    <3>2. FateOf(e) = IF messages[e] > 0 THEN "persisted"
                      ELSE IF e \in logged \/ dlq[e] > 0 THEN "dead" ELSE "queued"
      BY <2>1, <2>2, <3>1, FateCases
    <3>3. FateOf(e)' = IF messages'[e] > 0 THEN "persisted"
                       ELSE IF e \in logged \/ dlq'[e] > 0 THEN "dead" ELSE "queued"
      BY <2>1, <2>2, <3>1, NextFateCases
    <3>4. \/ FateOf(e)' = FateOf(e)
          \/ FateOf(e) \in {"queued", "dead"} /\ FateOf(e)' = "persisted"
          \/ FateOf(e) = "queued" /\ FateOf(e)' = "dead"
      BY <1>a, <2>1, <2>4, <3>2, <3>3
    <3> QED BY <2>1, <3>4, OneFate
  <2>5. CASE UNCHANGED <<messages, dlq, rejected>>
    BY <1>0, <2>1, <2>5
  <2> QED BY <1>4, <2>0, <2>3, <2>4, <2>5, HandlerEffect
<1>5. ASSUME \/ \E e \in Events : RetryTtlExpires(e)
             \/ \E s \in Slots, e \in Events : Deliver(s, e)
             \/ \E p \in Processes : ConnectionLost(p) \/ Crash(p)
             \/ UNCHANGED vars
      PROVE  Goal
  <2>1. UNCHANGED <<copies, dlq, logged, rejected, messages>>
    BY <1>5 DEF RetryTtlExpires, Deliver, ConnectionLost, Crash, vars
  <2> QED BY <1>0, <2>1
<1> QED BY <1>1, <1>2, <1>3, <1>4, <1>5, NextCases

------------------------------------------------------------------------------
\* Invalid events stay out of the message table, the DLQ and its log.
LEMMA InvalidStep ==
    ASSUME TypeOK, TypeOK', ConsumerInv, InvalidNeverKept, [Next]_vars
    PROVE  InvalidNeverKept'
<1> USE DEF queueVars, slotVars, tableVars
<1>i. Invalid \subseteq Events
  BY ConsumerAssumption
<1>1. ASSUME NEW e \in Events, HandleDlqMessage(e) \/ Requeue(e) PROVE InvalidNeverKept'
  <2>1. dlq[e] > 0 /\ dlq' = Minus(dlq, e) /\ messages' = messages /\ logged' \subseteq logged \cup {e}
    BY <1>1 DEF HandleDlqMessage, Requeue
  <2>2. e \notin Invalid
    BY <1>i, <2>1 DEF InvalidNeverKept
  <2>3. \A f \in Invalid : dlq'[f] = dlq[f]
    BY <1>i, <2>1, <2>2, MinusType DEF TypeOK, QueueTypeOK
  <2> QED BY <2>1, <2>2, <2>3 DEF InvalidNeverKept
<1>2. ASSUME NEW s \in Slots, HandlerStep(s) PROVE InvalidNeverKept'
  <2>1. ASSUME NEW f \in Invalid
        PROVE  messages'[f] = messages[f] /\ dlq'[f] = dlq[f] /\ logged' = logged
    BY <1>2, <1>i, HandlerEffect DEF Untouched
  <2> QED BY <2>1 DEF InvalidNeverKept
<1>3. ASSUME UNCHANGED <<dlq, logged, messages>> PROVE InvalidNeverKept'
  BY <1>3 DEF InvalidNeverKept
<1>4. ASSUME \/ \E e \in Events : Arrive(e) \/ RetryTtlExpires(e)
             \/ \E s \in Slots, e \in Events : Deliver(s, e)
             \/ \E p \in Processes : ConnectionLost(p) \/ Crash(p)
             \/ UNCHANGED vars
      PROVE  InvalidNeverKept'
  BY <1>3, <1>4 DEF Arrive, RetryTtlExpires, Deliver, ConnectionLost, Crash, vars
<1> QED BY <1>1, <1>2, <1>4, NextCases

\* A handler queues copies of its own event only, and takes up no other.
LEMMA HandlerQueues ==
    ASSUME TypeOK, NEW s \in Slots, event[s] \in Events, HandlerStep(s)
    PROVE  /\ \A f \in Events \ {event[s]} : work'[f] = work[f] /\ retry'[f] = retry[f]
           /\ \A t \in Slots : event'[t] \in {event[t], NoEvent}
<1> USE DEF queueVars, slotVars, tableVars
<1>r. Release(s) => \A t \in Slots : event'[t] \in {event[t], NoEvent}
  BY DEF Release, TypeOK, SlotTypeOK
<1>1. CASE \/ RejectInvalid(s) \/ RecordAttempt(s) \/ RecordAttemptFails(s) \/ InsertLedger(s)
           \/ Commit(s) \/ ClearAttempts(s) \/ Ack(s) \/ HandleTestRabbit(s) \/ HandleTestRabbitFails(s)
  <2>1. UNCHANGED <<work, retry>> /\ (UNCHANGED event \/ Release(s))
    BY <1>1 DEF RejectInvalid, RecordAttempt, RecordAttemptFails, InsertLedger, Commit,
       ClearAttempts, Ack, HandleTestRabbit, HandleTestRabbitFails
  <2> QED BY <1>r, <2>1
<1>2. CASE TransactionFails(s) \/ CommitReplyLost(s) \/ ClearAttemptsFails(s)
  <2>1. UNCHANGED <<work, retry>> /\ (UNCHANGED event \/ Release(s))
    BY <1>2 DEF TransactionFails, CommitReplyLost, ClearAttemptsFails, Catch
  <2> QED BY <1>r, <2>1
<1>3. CASE PublishToRetry(s) \/ PublishToRetryFails(s)
  <2>1. /\ retry' = retry \/ retry' = Plus(retry, event[s])
        /\ work' = work \/ work' = Plus(work, event[s])
        /\ UNCHANGED event \/ Release(s)
    BY <1>3 DEF PublishToRetry, PublishToRetryFails, Schedule, Nacked
  <2> QED BY <1>r, <2>1, PlusType DEF TypeOK, QueueTypeOK
<1> QED BY <1>1, <1>2, <1>3 DEF HandlerStep

\* An unpublished event stays out of every queue, table and slot.
LEMMA UnpublishedStep ==
    ASSUME TypeOK, TypeOK', ConsumerInv, Unpublished, [Next]_vars
    PROVE  Unpublished'
<1> USE DEF queueVars, slotVars, tableVars
<1>n. \A f \in Events : f # NoEvent
  BY ConsumerAssumption
<1>c. ASSUME NEW f \in Events, copies[f] = 0
      PROVE  /\ work[f] = 0 /\ retry[f] = 0 /\ dlq[f] = 0 /\ messages[f] = 0
             /\ f \notin logged \cup rejected /\ \A s \in Slots : event[s] # f
  BY <1>c DEF Unpublished
<1>k. ASSUME \A f \in Events : copies'[f] = 0 =>
                 /\ copies[f] = 0
                 /\ work'[f] = work[f] /\ retry'[f] = retry[f] /\ dlq'[f] = dlq[f]
                 /\ messages'[f] = messages[f]
                 /\ f \in logged' => f \in logged
                 /\ f \in rejected' => f \in rejected
                 /\ \A s \in Slots : event'[s] # f
      PROVE  Unpublished'
  BY <1>c, <1>k DEF Unpublished
<1>1. ASSUME NEW e \in Events, Arrive(e) PROVE Unpublished'
  <2>1. copies'[e] > 0
    BY <1>1, PlusType DEF Arrive, TypeOK, QueueTypeOK
  <2>2. \A f \in Events \ {e} : copies'[f] = copies[f] /\ work'[f] = work[f]
    BY <1>1, PlusType DEF Arrive, TypeOK, QueueTypeOK
  <2> QED BY <1>1, <1>c, <1>k, <2>1, <2>2 DEF Arrive
<1>2. ASSUME NEW e \in Events, RetryTtlExpires(e) \/ HandleDlqMessage(e) \/ Requeue(e)
      PROVE  Unpublished'
  <2>1. copies[e] # 0 /\ copies' = copies
    BY <1>2, <1>c DEF RetryTtlExpires, HandleDlqMessage, Requeue
  <2>2. \A f \in Events \ {e} : work'[f] = work[f] /\ retry'[f] = retry[f] /\ dlq'[f] = dlq[f]
    <3>1. /\ work' = work \/ work' = Plus(work, e)
          /\ retry' = retry \/ (retry[e] > 0 /\ retry' = Minus(retry, e))
          /\ dlq' = dlq \/ (dlq[e] > 0 /\ dlq' = Minus(dlq, e))
      BY <1>2 DEF RetryTtlExpires, HandleDlqMessage, Requeue
    <3> QED BY <3>1, PlusType, MinusType DEF TypeOK, QueueTypeOK
  <2>3. UNCHANGED <<messages, rejected, event>> /\ logged' \subseteq logged \cup {e}
    BY <1>2 DEF RetryTtlExpires, HandleDlqMessage, Requeue
  <2> QED BY <1>c, <1>k, <2>1, <2>2, <2>3
<1>3. ASSUME NEW s \in Slots, NEW e \in Events, Deliver(s, e) PROVE Unpublished'
  <2>1. copies[e] # 0 /\ UNCHANGED <<copies, retry, dlq, logged, rejected, messages>>
    BY <1>3, <1>c DEF Deliver
  <2>2. \A f \in Events \ {e} : work'[f] = work[f]
    BY <1>3, MinusType DEF Deliver, TypeOK, QueueTypeOK
  <2>3. \A t \in Slots : event'[t] \in {event[t], e}
    BY <1>3 DEF Deliver, TypeOK, SlotTypeOK
  <2> QED BY <1>c, <1>k, <2>1, <2>2, <2>3
<1>4. ASSUME NEW s \in Slots, HandlerStep(s) PROVE Unpublished'
  <2>1. event[s] \in Events /\ UNCHANGED <<copies, logged>> /\ \A f \in Events \ {event[s]} : Untouched(f)
    BY <1>4, HandlerEffect
  <2>2. copies[event[s]] # 0
    BY <1>c, <2>1
  <2>3. \A f \in Events \ {event[s]} : work'[f] = work[f] /\ retry'[f] = retry[f]
    BY <1>4, <2>1, HandlerQueues
  <2>4. \A t \in Slots : event'[t] \in {event[t], NoEvent}
    BY <1>4, <2>1, HandlerQueues
  <2> QED BY <1>c, <1>k, <1>n, <2>1, <2>2, <2>3, <2>4 DEF Untouched
<1>5. ASSUME NEW p \in Processes, ConnectionLost(p) \/ Crash(p) PROVE Unpublished'
  <2>1. work' = Requeued(p) /\ UNCHANGED <<copies, retry, dlq, logged, rejected, messages>>
    BY <1>5 DEF ConnectionLost, Crash
  <2>2. \A t \in Slots : event'[t] \in {event[t], NoEvent}
    BY <1>5 DEF ConnectionLost, Crash, TypeOK, SlotTypeOK
  <2>3. ASSUME NEW f \in Events, copies[f] = 0 PROVE Requeued(p)[f] = work[f]
    <3>1. {s \in Held(p) : event[s] = f} = {}
      BY <1>c, <2>3 DEF Held
    <3>2. Requeued(p)[f] = work[f] + Cardinality({s \in Held(p) : event[s] = f})
      BY DEF Requeued
    <3>3. Cardinality({s \in Held(p) : event[s] = f}) = 0
      <4> DEFINE S == {s \in Held(p) : event[s] = f}
      <4>1. S = {}
        BY <3>1
      <4> HIDE DEF S
      <4>2. Cardinality(S) = 0
        BY <4>1, FS_EmptySet
      <4> QED BY <4>2 DEF S
    <3>4. work[f] \in Nat
      BY DEF TypeOK, QueueTypeOK
    <3> QED BY <3>2, <3>3, <3>4
  <2> QED BY <1>c, <1>k, <1>n, <2>1, <2>2, <2>3
<1>6. ASSUME UNCHANGED vars PROVE Unpublished'
  BY <1>6, <1>c, <1>k DEF vars
<1> QED BY <1>1, <1>2, <1>3, <1>4, <1>5, <1>6, NextCases

\* The messaging service, with its retries, redeliveries, duplicates, faults
\* and restarts, shows the platform nothing but the steps of Intake: a
\* persisted or dropped event keeps its fate, a dead one stays dead until it
\* is requeued or persisted, and none is lost.
THEOREM ConsumerImplementsIntake == Spec => ImplementsIntake
<1>1. Init => Unpublished /\ InvalidNeverKept
  BY ConsumerAssumption DEF Init, Unpublished, InvalidNeverKept, NoneQueued
<1>2. Spec => [](Unpublished /\ InvalidNeverKept)
  <2>1. /\ Unpublished /\ InvalidNeverKept /\ TypeOK /\ TypeOK' /\ ConsumerInv /\ [Next]_vars
        => (Unpublished /\ InvalidNeverKept)'
    BY UnpublishedStep, InvalidStep
  <2> QED BY <1>1, <2>1, ConsumerTyping, ConsumerInvariant, PTL DEF Spec
<1>3. Init => Abstract!Init
  BY DEF Init, Abstract!Init, FateOf, NoneQueued
<1>4. /\ TypeOK /\ TypeOK' /\ ConsumerInv /\ NothingLost /\ NothingLost'
      /\ Unpublished /\ InvalidNeverKept /\ [Next]_vars
      => [Abstract!Next]_[e \in Events |-> FateOf(e)]
  BY StepMaps DEF Fate
<1> QED BY <1>2, <1>3, <1>4, ConsumerTyping, ConsumerInvariant, NoEventIsLost, PTL
        DEF Spec, ImplementsIntake, Abstract!Spec

==============================================================================
