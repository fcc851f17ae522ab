--------------------------- MODULE Consumer_proofs ---------------------------
(***************************************************************************)
(* Proofs about the consumer for any number of events, processes and       *)
(* slots, any MAX_ATTEMPTS and any number of faults.                       *)
(***************************************************************************)
EXTENDS Consumer, FiniteSetTheorems, TLAPS

\* A step is one of the actions, or changes nothing.
LEMMA NextCases ==
    ASSUME [Next]_vars
    PROVE  \/ \E e \in Events : Arrive(e) \/ RetryTtlExpires(e) \/ HandleDlqMessage(e) \/ Requeue(e)
           \/ \E s \in Slots, e \in Events : Deliver(s, e)
           \/ \E s \in Slots : HandlerStep(s)
           \/ \E p \in Processes : ConnectionLost(p) \/ Crash(p)
           \/ UNCHANGED vars
BY DEF Next

\* Adding a copy to a queue keeps its type; so does nacking into it.
LEMMA PlusType ==
    ASSUME NEW q \in [Events -> Nat], NEW e \in Events
    PROVE  /\ Plus(q, e) \in [Events -> Nat]
           /\ Plus(q, e)[e] > 0
           /\ \A f \in Events : Plus(q, e)[f] >= q[f]
           /\ \A f \in Events \ {e} : Plus(q, e)[f] = q[f]
BY DEF Plus

\* Taking a copy out of a queue that has one.
LEMMA MinusType ==
    ASSUME NEW q \in [Events -> Nat], NEW e \in Events, q[e] > 0
    PROVE  /\ Minus(q, e) \in [Events -> Nat]
           /\ \A f \in Events \ {e} : Minus(q, e)[f] = q[f]
BY DEF Minus

\* A busy slot has an event.
LEMMA BusyHasEvent ==
    ASSUME SlotTypeOK, NEW s \in Slots, pc[s] # "free"
    PROVE  event[s] \in Events
BY DEF SlotTypeOK, At

\* What the broker puts back when a process loses its deliveries.
LEMMA RequeuedType ==
    ASSUME work \in [Events -> Nat], NEW p \in Processes
    PROVE  /\ Requeued(p) \in [Events -> Nat]
           /\ \A e \in Events : Requeued(p)[e] >= work[e]
           /\ \A s \in Held(p) : event[s] \in Events => Requeued(p)[event[s]] > 0
<1> DEFINE S(e) == {s \in Held(p) : event[s] = e}
<1>1. ASSUME NEW e PROVE IsFiniteSet(S(e)) /\ Cardinality(S(e)) \in Nat
  <2>1. S(e) \subseteq Slots
    BY DEF Held
  <2> HIDE DEF S
  <2> QED BY <2>1, ConsumerAssumption, FS_Subset, FS_CardinalityType
<1>2. Requeued(p) = [e \in Events |-> work[e] + Cardinality(S(e))]
  BY DEF Requeued
<1>3. ASSUME NEW s \in Held(p), event[s] \in Events PROVE Cardinality(S(event[s])) > 0
  <2>1. S(event[s]) # {}
    OBVIOUS
  <2> HIDE DEF S
  <2> QED BY <1>1, <2>1, FS_EmptySet
<1> HIDE DEF S
<1> QED BY <1>1, <1>2, <1>3

\* A slot's handler moves on, or returns: the slots keep their types.
LEMMA GotoType ==
    ASSUME SlotTypeOK, NEW s \in Slots, pc[s] # "free",
           NEW label \in {"recorded", "inTransaction", "clearing", "publishing", "acking", "returned"},
           Goto(s, label), UNCHANGED <<event, live>>, attempt' \in [Slots -> Nat]
    PROVE  SlotTypeOK'
BY DEF SlotTypeOK, Goto, At

\* Release leaves a free slot.
LEMMA ReleaseType ==
    ASSUME SlotTypeOK, NEW s \in Slots, Release(s)
    PROVE  SlotTypeOK'
BY ConsumerAssumption DEF SlotTypeOK, Release, Goto, At

\* The catch block keeps the types of slots and DLQ.
LEMMA CatchType ==
    ASSUME SlotTypeOK, dlq \in [Events -> Nat], NEW s \in Slots, pc[s] # "free", NEW class, Catch(s, class)
    PROVE  SlotTypeOK' /\ dlq' \in [Events -> Nat]
<1>1. CASE IsRetryable(s, class)
  <2>1. Goto(s, "publishing") /\ UNCHANGED <<event, live, attempt, dlq>>
    BY <1>1 DEF Catch
  <2>2. attempt' \in [Slots -> Nat]
    BY <2>1 DEF SlotTypeOK
  <2> QED BY <2>1, <2>2, GotoType
<1>2. CASE ~IsRetryable(s, class)
  <2>1. Release(s) /\ dlq' = Nacked(s, dlq)
    BY <1>2 DEF Catch
  <2> QED BY <2>1, ReleaseType, BusyHasEvent, PlusType DEF Nacked
<1> QED BY <1>1, <1>2

\* Scheduling a retry copy keeps the types.
LEMMA ScheduleType ==
    ASSUME retry \in [Events -> Nat], scheduled \in [Events -> [1..MaxAttempts -> Nat]],
           NEW s \in Slots, event[s] \in Events, Schedule(s)
    PROVE  retry' \in [Events -> Nat] /\ scheduled' \in [Events -> [1..MaxAttempts -> Nat]]
<1>1. retry' \in [Events -> Nat]
  BY PlusType DEF Schedule
<1>2. ASSUME NEW f \in [1..MaxAttempts -> Nat], NEW n PROVE Plus(f, n) \in [1..MaxAttempts -> Nat]
  <2>1. Plus(f, n) = [m \in 1..MaxAttempts |-> IF m = n THEN f[m] + 1 ELSE f[m]]
    BY DEF Plus
  <2> QED BY <2>1
<1>3. Plus(scheduled[event[s]], attempt[s]) \in [1..MaxAttempts -> Nat]
  BY <1>2
<1>4. scheduled' = [scheduled EXCEPT ![event[s]] = Plus(scheduled[event[s]], attempt[s])]
  BY DEF Schedule
<1> QED BY <1>1, <1>3, <1>4

------------------------------------------------------------------------------
\* Every handler step keeps the types.
LEMMA HandlerTypeStep ==
    ASSUME TypeOK, NEW s \in Slots, HandlerStep(s)
    PROVE  TypeOK'
<1> USE DEF TypeOK, QueueTypeOK, TableTypeOK, queueVars, slotVars, tableVars
<1>1. CASE RejectInvalid(s)
  BY <1>1, ReleaseType DEF RejectInvalid
<1>2. CASE RecordAttempt(s)
  <2>1. event[s] \in Events /\ pc[s] # "free"
    BY <1>2 DEF RecordAttempt, Contract, At
  <2>2. attempts' \in [Events -> Nat]
    BY <1>2, <2>1, PlusType DEF RecordAttempt
  <2>3. attempts[event[s]] + 1 \in Nat /\ attempt \in [Slots -> Nat]
    BY <2>1 DEF SlotTypeOK
  <2>4. attempt' \in [Slots -> Nat]
    BY <1>2, <2>3 DEF RecordAttempt
  <2> QED BY <1>2, <2>1, <2>2, <2>4, GotoType DEF RecordAttempt
<1>3. CASE RecordAttemptFails(s)
  <2>1. event[s] \in Events /\ pc[s] # "free"
    BY <1>3 DEF RecordAttemptFails, Contract, At
  <2>2. attempts' \in [Events -> Nat] /\ attempt' \in [Slots -> Nat]
    BY <1>3, <2>1, PlusType DEF RecordAttemptFails, SlotTypeOK
  <2>3. SlotTypeOK'
    BY <1>3, <2>1, <2>2, GotoType DEF RecordAttemptFails
  <2>4. faults' \in 0..MaxFaults
    BY <1>3, ConsumerAssumption DEF RecordAttemptFails, Fault
  <2> QED BY <1>3, <2>2, <2>3, <2>4 DEF RecordAttemptFails
<1>4. CASE InsertLedger(s)
  <2>1. pc[s] # "free" /\ attempt' \in [Slots -> Nat]
    BY <1>4 DEF InsertLedger, At, SlotTypeOK
  <2> QED BY <1>4, <2>1, GotoType DEF InsertLedger
<1>5. CASE Commit(s)
  <2>1. pc[s] # "free" /\ attempt' \in [Slots -> Nat]
    BY <1>5 DEF Commit, At, SlotTypeOK
  <2> QED BY <1>5, <2>1, BusyHasEvent, PlusType, GotoType DEF Commit, Persist
<1>6. CASE TransactionFails(s)
  <2>1. pc[s] # "free"
    BY <1>6 DEF TransactionFails
  <2> QED BY <1>6, <2>1, CatchType, ConsumerAssumption DEF TransactionFails, Fault
<1>7. CASE CommitReplyLost(s)
  <2>1. pc[s] # "free"
    BY <1>7 DEF CommitReplyLost, At
  <2>2. event[s] \in Events
    BY <2>1, BusyHasEvent
  <2>3. SlotTypeOK' /\ dlq' \in [Events -> Nat]
    BY <1>7, <2>1, CatchType DEF CommitReplyLost
  <2>4. processed' \subseteq Events /\ messages' \in [Events -> Nat]
    BY <1>7, <2>2, PlusType DEF CommitReplyLost, Persist
  <2>5. faults' \in 0..MaxFaults
    BY <1>7, ConsumerAssumption DEF CommitReplyLost, Fault
  <2> QED BY <1>7, <2>3, <2>4, <2>5 DEF CommitReplyLost
<1>8. CASE ClearAttempts(s)
  <2>1. pc[s] # "free" /\ attempt' \in [Slots -> Nat]
    BY <1>8 DEF ClearAttempts, At, SlotTypeOK
  <2> QED BY <1>8, <2>1, BusyHasEvent, GotoType DEF ClearAttempts
<1>9. CASE ClearAttemptsFails(s)
  <2>1. pc[s] # "free"
    BY <1>9 DEF ClearAttemptsFails, At
  <2>2. SlotTypeOK' /\ dlq' \in [Events -> Nat]
    BY <1>9, <2>1, CatchType DEF ClearAttemptsFails
  <2>3. attempts' \in [Events -> Nat]
    <3>1. attempts' = attempts \/ attempts' = [attempts EXCEPT ![event[s]] = 0]
      BY <1>9 DEF ClearAttemptsFails
    <3>2. CASE attempts' = attempts
      BY <3>2
    <3>3. CASE attempts' = [attempts EXCEPT ![event[s]] = 0]
      BY <3>3
    <3> QED BY <3>1, <3>2, <3>3
  <2>4. faults' \in 0..MaxFaults
    BY <1>9, ConsumerAssumption DEF ClearAttemptsFails, Fault
  <2> QED BY <1>9, <2>2, <2>3, <2>4 DEF ClearAttemptsFails
<1>10. CASE Ack(s)
  BY <1>10, ReleaseType DEF Ack
<1>11. CASE PublishToRetry(s)
  <2>1. pc[s] # "free" /\ attempt' \in [Slots -> Nat]
    BY <1>11 DEF PublishToRetry, At, SlotTypeOK
  <2> QED BY <1>11, <2>1, BusyHasEvent, ScheduleType, GotoType DEF PublishToRetry
<1>12. CASE PublishToRetryFails(s)
  <2>1. pc[s] # "free"
    BY <1>12 DEF PublishToRetryFails, At
  <2>2. event[s] \in Events
    BY <2>1, BusyHasEvent
  <2>3. SlotTypeOK'
    BY <1>12, ReleaseType DEF PublishToRetryFails
  <2>4. work' \in [Events -> Nat]
    BY <1>12, <2>2, PlusType DEF PublishToRetryFails, Nacked
  <2>5. retry' \in [Events -> Nat] /\ scheduled' \in [Events -> [1..MaxAttempts -> Nat]]
    BY <1>12, <2>2, ScheduleType DEF PublishToRetryFails
  <2>6. faults' \in 0..MaxFaults
    BY <1>12, ConsumerAssumption DEF PublishToRetryFails, Fault
  <2> QED BY <1>12, <2>3, <2>4, <2>5, <2>6 DEF PublishToRetryFails
<1>13. CASE HandleTestRabbit(s)
  <2>1. pc[s] # "free" /\ attempt' \in [Slots -> Nat]
    BY <1>13 DEF HandleTestRabbit, At, SlotTypeOK
  <2> QED BY <1>13, <2>1, BusyHasEvent, PlusType, GotoType DEF HandleTestRabbit
<1>14. CASE HandleTestRabbitFails(s)
  <2>1. pc[s] # "free"
    BY <1>14 DEF HandleTestRabbitFails, At
  <2>2. event[s] \in Events
    BY <2>1, BusyHasEvent
  <2>3. SlotTypeOK'
    BY <1>14, ReleaseType DEF HandleTestRabbitFails
  <2>4. dlq' \in [Events -> Nat]
    BY <1>14, <2>2, PlusType DEF HandleTestRabbitFails, Nacked
  <2>6. messages' = messages \/ messages' = Plus(messages, event[s])
    BY <1>14 DEF HandleTestRabbitFails
  <2>7. messages' \in [Events -> Nat]
    <3>1. CASE messages' = messages
      BY <3>1
    <3>2. CASE messages' = Plus(messages, event[s])
      BY <2>2, <3>2, PlusType
    <3> QED BY <2>6, <3>1, <3>2
  <2>5. faults' \in 0..MaxFaults
    BY <1>14, ConsumerAssumption DEF HandleTestRabbitFails, Fault
  <2> QED BY <1>14, <2>3, <2>4, <2>5, <2>7 DEF HandleTestRabbitFails
<1> QED BY <1>1, <1>2, <1>3, <1>4, <1>5, <1>6, <1>7, <1>8, <1>9, <1>10, <1>11, <1>12, <1>13, <1>14
        DEF HandlerStep

\* Every step keeps the types.
LEMMA TypeStep == TypeOK /\ [Next]_vars => TypeOK'
<1> SUFFICES ASSUME TypeOK, [Next]_vars PROVE TypeOK'
  OBVIOUS
<1> USE DEF TypeOK, QueueTypeOK, TableTypeOK, queueVars, slotVars, tableVars
<1>1. ASSUME NEW e \in Events, Arrive(e) PROVE TypeOK'
  BY <1>1, PlusType DEF Arrive, SlotTypeOK, At
<1>2. ASSUME NEW e \in Events, RetryTtlExpires(e) PROVE TypeOK'
  BY <1>2, PlusType, MinusType DEF RetryTtlExpires, SlotTypeOK, At
<1>3. ASSUME NEW e \in Events, HandleDlqMessage(e) PROVE TypeOK'
  BY <1>3, PlusType, MinusType DEF HandleDlqMessage, SlotTypeOK, At
<1>4. ASSUME NEW e \in Events, Requeue(e) PROVE TypeOK'
  <2>1. work' \in [Events -> Nat] /\ dlq' \in [Events -> Nat]
    BY <1>4, PlusType, MinusType DEF Requeue
  <2>2. requeues' \in 0..MaxRequeues
    BY <1>4, ConsumerAssumption DEF Requeue
  <2> QED BY <1>4, <2>1, <2>2 DEF Requeue, SlotTypeOK, At
<1>5. ASSUME NEW s \in Slots, NEW e \in Events, Deliver(s, e) PROVE TypeOK'
  BY <1>5, MinusType, ConsumerAssumption DEF Deliver, SlotTypeOK, Goto, At
<1>6. ASSUME NEW s \in Slots, HandlerStep(s) PROVE TypeOK'
  BY <1>6, HandlerTypeStep
<1>7. ASSUME NEW p \in Processes, ConnectionLost(p) PROVE TypeOK'
  <2>1. SlotTypeOK'
    BY <1>7 DEF ConnectionLost, SlotTypeOK, At
  <2>2. work' \in [Events -> Nat]
    BY <1>7, RequeuedType DEF ConnectionLost
  <2> QED BY <1>7, <2>1, <2>2, ConsumerAssumption DEF ConnectionLost, Fault
<1>8. ASSUME NEW p \in Processes, Crash(p) PROVE TypeOK'
  <2>1. SlotTypeOK'
    BY <1>8 DEF Crash, SlotTypeOK, At
  <2>2. work' \in [Events -> Nat]
    BY <1>8, RequeuedType DEF Crash
  <2> QED BY <1>8, <2>1, <2>2, ConsumerAssumption DEF Crash, Fault
<1>9. ASSUME UNCHANGED vars PROVE TypeOK'
  BY <1>9 DEF vars, SlotTypeOK, At
<1> QED BY <1>1, <1>2, <1>3, <1>4, <1>5, <1>6, <1>7, <1>8, <1>9, NextCases

\* Every reachable state is well typed, and no slot is free with a delivery.
THEOREM ConsumerTyping == Spec => []TypeOK
<1>1. Init => TypeOK
  BY ConsumerAssumption DEF Init, TypeOK, QueueTypeOK, SlotTypeOK, TableTypeOK, NoneQueued, At
<1> QED BY <1>1, TypeStep, PTL DEF Spec

------------------------------------------------------------------------------
\* The labels of which ConsumerInv says nothing.
Quiet == {"free", "received", "acking", "returned"}

\* The step leaves the slot's handler where it is.
Same(s) == pc'[s] = pc[s] /\ event'[s] = event[s] /\ attempt'[s] = attempt[s]

\* Handlers that stay, start or end keep the invariant while the tables only
\* change for events that are settled.
LEMMA QuietStep ==
    ASSUME TypeOK, TypeOK', ConsumerInv,
           \A s \in Slots : pc'[s] \in Quiet \/ Same(s),
           processed' = processed,
           \A e \in Contract : messages'[e] = messages[e],
           scheduled' = scheduled,
           \A e \in Contract \ processed : attempts'[e] >= attempts[e]
    PROVE  ConsumerInv'
<1> USE DEF ConsumerInv, Quiet, Same
<1>1. Stages'
  BY DEF Stages, At
<1>2. OneTransaction'
  BY DEF OneTransaction, At
<1>3. Ledger'
  BY DEF Ledger
<1>4. \A s \in Slots : Pending(s)' => Pending(s) /\ Same(s) /\ event[s] \in Contract
  BY DEF Pending, Stages
<1>5. AttemptNumbers'
  <2>1. ASSUME NEW s \in Slots, Pending(s)'
        PROVE  attempt'[s] <= attempts'[event'[s]] /\
               (attempt'[s] < MaxAttempts => scheduled'[event'[s]][attempt'[s]] = 0)
    <3>1. Pending(s) /\ Same(s) /\ event[s] \in Contract \ processed
      BY <1>4, <2>1 DEF Pending
    <3>2. attempt[s] <= attempts[event[s]] /\ (attempt[s] < MaxAttempts => scheduled[event[s]][attempt[s]] = 0)
      BY <3>1 DEF AttemptNumbers
    <3>3. attempts'[event[s]] >= attempts[event[s]]
      BY <3>1
    <3>4. attempts[event[s]] \in Nat /\ attempts'[event[s]] \in Nat /\ attempt[s] \in Nat
      BY <3>1 DEF TypeOK, TableTypeOK, SlotTypeOK, Contract
    <3> QED BY <3>1, <3>2, <3>3, <3>4
  <2>2. ASSUME NEW s \in Slots, NEW t \in Slots, Pending(s)', Pending(t)',
               event'[s] = event'[t], attempt'[s] = attempt'[t]
        PROVE  s = t
    BY <1>4, <2>2 DEF AttemptNumbers
  <2>3. ASSUME NEW e \in Contract \ processed', NEW n \in 1..MaxAttempts, n > attempts'[e]
        PROVE  scheduled'[e][n] = 0
    <3>1. attempts'[e] >= attempts[e] /\ attempts[e] \in Nat /\ attempts'[e] \in Nat
      BY DEF TypeOK, TableTypeOK, Contract
    <3>2. n > attempts[e]
      BY <2>3, <3>1
    <3> QED BY <3>2 DEF AttemptNumbers
  <2> QED BY <2>1, <2>2, <2>3 DEF AttemptNumbers
<1>6. RetryBudgetIsDurable'
  BY DEF RetryBudgetIsDurable
<1> QED BY <1>1, <1>2, <1>3, <1>5, <1>6

\* The catch block either lets the delivery go or goes on to publish a retry,
\* below the budget.
LEMMA CatchCases ==
    ASSUME SlotTypeOK, NEW s \in Slots, NEW class, Catch(s, class)
    PROVE  /\ \A t \in Slots \ {s} : Same(t) /\ live'[t] = live[t]
           /\ \/ pc'[s] = "free" /\ dlq' = Nacked(s, dlq)
              \/ /\ pc'[s] = "publishing" /\ event'[s] = event[s] /\ attempt'[s] = attempt[s]
                 /\ live' = live /\ dlq' = dlq /\ attempt[s] < MaxAttempts
<1>1. CASE IsRetryable(s, class)
  BY <1>1 DEF Catch, IsRetryable, Goto, Same, SlotTypeOK
<1>2. CASE ~IsRetryable(s, class)
  BY <1>2 DEF Catch, Release, Goto, Same, SlotTypeOK
<1> QED BY <1>1, <1>2

\* Going on to publish a retry, or into the transaction, or past a duplicate.
LEMMA AdvanceStep ==
    ASSUME TypeOK, TypeOK', ConsumerInv, NEW s \in Slots,
           \A t \in Slots \ {s} : Same(t),
           event'[s] = event[s], attempt'[s] = attempt[s],
           \/ /\ pc'[s] = "publishing" /\ attempt[s] < MaxAttempts
              /\ pc[s] \in {"recorded", "inTransaction", "clearing"}
           \/ /\ pc'[s] = "inTransaction" /\ pc[s] = "recorded" /\ event[s] \notin processed
              /\ \A t \in Slots : At(t, "inTransaction") => event[t] # event[s]
           \/ pc'[s] = "clearing" /\ pc[s] = "recorded" /\ event[s] \in processed,
           UNCHANGED <<processed, messages, scheduled>>,
           \A e \in Contract \ processed : attempts'[e] = attempts[e]
    PROVE  ConsumerInv'
<1> USE DEF ConsumerInv, Same
<1>1. Stages'
  BY DEF Stages, At
<1>2. OneTransaction'
  BY DEF OneTransaction, At
<1>3. Ledger'
  BY DEF Ledger
<1>4. \A t \in Slots : event'[t] = event[t] /\ attempt'[t] = attempt[t]
  OBVIOUS
<1>5. \A t \in Slots : Pending(t)' => Pending(t) /\ event[t] \in Contract \ processed
  BY DEF Pending, Stages, At
<1>6. AttemptNumbers'
  BY <1>4, <1>5 DEF AttemptNumbers
<1>7. RetryBudgetIsDurable'
  BY DEF RetryBudgetIsDurable
<1> QED BY <1>1, <1>2, <1>3, <1>6, <1>7

\* The commit persists the event once; its handler goes on in any way.
LEMMA PersistStep ==
    ASSUME TypeOK, TypeOK', ConsumerInv, NEW s \in Slots, At(s, "inTransaction"), Persist(s),
           \A t \in Slots \ {s} : Same(t),
           \/ pc'[s] \in Quiet
           \/ pc'[s] = "clearing" /\ event'[s] = event[s] /\ attempt'[s] = attempt[s]
           \/ /\ pc'[s] = "publishing" /\ event'[s] = event[s] /\ attempt'[s] = attempt[s]
              /\ attempt[s] < MaxAttempts,
           UNCHANGED <<attempts, scheduled>>
    PROVE  ConsumerInv'
<1> USE DEF ConsumerInv, Same, Quiet
<1>0. event[s] \in Contract \ processed /\ Contract \subseteq Events /\ attempt[s] > 0
  BY DEF Stages, At, Contract
<1>a. processed' = processed \cup {event[s]} /\ messages' = [messages EXCEPT ![event[s]] = @ + 1]
  BY DEF Persist, Plus
<1>1. Stages'
  <2>1. ASSUME NEW t \in Slots \ {s}, pc[t] = "inTransaction" PROVE event[t] \notin processed'
    BY <1>0, <1>a, <2>1 DEF OneTransaction, Stages, At
  <2> QED BY <1>0, <1>a, <2>1 DEF Stages, At
<1>2. OneTransaction'
  BY DEF OneTransaction, At
<1>3. Ledger'
  BY <1>0, <1>a DEF Ledger, TypeOK, TableTypeOK
<1>5. \A t \in Slots : Pending(t)' => t # s /\ Pending(t) /\ event[t] \in Contract \ processed
  BY <1>0, <1>a DEF Pending, Stages, At
<1>6. AttemptNumbers'
  BY <1>a, <1>5 DEF AttemptNumbers
<1>7. RetryBudgetIsDurable'
  BY <1>a DEF RetryBudgetIsDurable
<1> QED BY <1>1, <1>2, <1>3, <1>6, <1>7

\* recordAttempt() hands out a number nobody has had for this event.
LEMMA RecordStep ==
    ASSUME TypeOK, TypeOK', ConsumerInv, NEW s \in Slots, RecordAttempt(s)
    PROVE  ConsumerInv'
<1> USE DEF ConsumerInv
<1>1. /\ event[s] \in Contract /\ event[s] \in Events
      /\ attempts[event[s]] \in Nat
      /\ attempts' = [attempts EXCEPT ![event[s]] = attempts[event[s]] + 1]
      /\ attempt' = [attempt EXCEPT ![s] = attempts[event[s]] + 1]
      /\ pc' = [pc EXCEPT ![s] = "recorded"]
      /\ UNCHANGED <<event, processed, messages, scheduled>>
  BY DEF RecordAttempt, Contract, Plus, Goto, TypeOK, TableTypeOK
<1>2. Stages'
  BY <1>1 DEF Stages, At, TypeOK, SlotTypeOK
<1>3. OneTransaction'
  BY <1>1 DEF OneTransaction, At, TypeOK, SlotTypeOK
<1>4. Ledger'
  BY <1>1 DEF Ledger
<1>5. \A t \in Slots \ {s} : /\ Pending(t)' => Pending(t) /\ event[t] \in Contract \ processed
                             /\ attempt'[t] = attempt[t] /\ event'[t] = event[t]
  BY <1>1 DEF Pending, Stages, At, TypeOK, SlotTypeOK
<1>6. event'[s] = event[s] /\ attempt'[s] = attempts[event[s]] + 1
  BY <1>1 DEF TypeOK, SlotTypeOK
<1>7. \A e \in Events : /\ attempts'[e] \in Nat /\ attempts[e] \in Nat
                        /\ attempts'[e] = IF e = event[s] THEN attempts[e] + 1 ELSE attempts[e]
  BY <1>1 DEF TypeOK, TableTypeOK
<1>8. AttemptNumbers'
  <2>1. ASSUME NEW t \in Slots, Pending(t)'
        PROVE  attempt'[t] <= attempts'[event'[t]] /\
               (attempt'[t] < MaxAttempts => scheduled'[event'[t]][attempt'[t]] = 0)
    <3>1. CASE t = s
      <4>1. event[s] \in Contract \ processed
        BY <1>1, <1>6, <2>1, <3>1 DEF Pending
      <4>2. attempt'[s] <= attempts'[event'[s]]
        BY <1>1, <1>6, <1>7
      <4>3. ASSUME attempt'[s] < MaxAttempts PROVE scheduled[event[s]][attempt'[s]] = 0
        <5>1. attempt'[s] \in 1..MaxAttempts /\ attempt'[s] > attempts[event[s]]
          BY <1>1, <1>6, <4>3, ConsumerAssumption
        <5> QED BY <4>1, <5>1 DEF AttemptNumbers
      <4> QED BY <1>1, <1>6, <3>1, <4>2, <4>3
    <3>2. CASE t # s
      <4>1. Pending(t) /\ event[t] \in Contract /\ event[t] \in Events
        BY <1>5, <2>1, <3>2 DEF Contract
      <4>2. attempt[t] <= attempts[event[t]] /\ (attempt[t] < MaxAttempts => scheduled[event[t]][attempt[t]] = 0)
        BY <4>1 DEF AttemptNumbers
      <4>3. attempt[t] \in Nat
        BY DEF TypeOK, SlotTypeOK
      <4>4. attempts'[event[t]] >= attempts[event[t]] /\ attempts[event[t]] \in Nat /\ attempts'[event[t]] \in Nat
        BY <1>7, <4>1
      <4> QED BY <1>1, <1>5, <3>2, <4>2, <4>3, <4>4
    <3> QED BY <3>1, <3>2
  <2>2. ASSUME NEW t \in Slots \ {s}, Pending(t)', event'[t] = event'[s], attempt'[t] = attempt'[s]
        PROVE  FALSE
    <3>1. Pending(t) /\ event[t] = event[s] /\ attempt[t] = attempts[event[s]] + 1
      BY <1>5, <1>6, <2>2
    <3>2. attempt[t] <= attempts[event[t]]
      BY <3>1 DEF AttemptNumbers
    <3> QED BY <1>1, <3>1, <3>2
  <2>3. ASSUME NEW t \in Slots, NEW u \in Slots, Pending(t)', Pending(u)',
               event'[t] = event'[u], attempt'[t] = attempt'[u]
        PROVE  t = u
    <3>1. CASE t # s /\ u # s
      BY <1>5, <2>3, <3>1 DEF AttemptNumbers
    <3>2. CASE t = s \/ u = s
      BY <2>2, <2>3, <3>2
    <3> QED BY <3>1, <3>2
  <2>4. ASSUME NEW e \in Contract \ processed', NEW n \in 1..MaxAttempts, n > attempts'[e]
        PROVE  scheduled'[e][n] = 0
    <3>1. e \in Events
      BY DEF Contract
    <3>2. n > attempts[e]
      BY <1>7, <2>4, <3>1
    <3> QED BY <1>1, <3>2 DEF AttemptNumbers
  <2> QED BY <2>1, <2>3, <2>4 DEF AttemptNumbers
<1>9. RetryBudgetIsDurable'
  BY <1>1 DEF RetryBudgetIsDurable
<1> QED BY <1>2, <1>3, <1>4, <1>8, <1>9

\* A retry copy uses up the attempt number of the handler that scheduled it.
LEMMA ScheduleStep ==
    ASSUME TypeOK, TypeOK', ConsumerInv, NEW s \in Slots, At(s, "publishing"), Schedule(s),
           \A t \in Slots \ {s} : Same(t), pc'[s] \in Quiet,
           UNCHANGED <<processed, messages, attempts>>
    PROVE  ConsumerInv'
<1> USE DEF ConsumerInv, Same, Quiet
<1> DEFINE e == event[s]
           n == attempt[s]
<1>1. e \in Contract /\ e \in Events /\ n \in 1..(MaxAttempts - 1) /\ n \in 1..MaxAttempts
  BY ConsumerAssumption DEF Stages, At, Contract, TypeOK, SlotTypeOK
<1>2. /\ \A f \in Events, m \in 1..MaxAttempts :
            scheduled'[f][m] = IF f = e /\ m = n THEN scheduled[f][m] + 1 ELSE scheduled[f][m]
  BY <1>1 DEF Schedule, Plus, TypeOK, TableTypeOK
<1>3. Stages'
  BY DEF Stages, At
<1>4. OneTransaction'
  BY DEF OneTransaction, At
<1>5. Ledger'
  BY DEF Ledger
<1>6. ASSUME NEW t \in Slots, Pending(t)'
      PROVE  /\ t # s /\ Pending(t) /\ event[t] \in Contract \ processed /\ event[t] \in Events
             /\ attempt[t] \in Nat /\ attempt[t] > 0
             /\ event'[t] = event[t] /\ attempt'[t] = attempt[t]
  BY <1>6 DEF Pending, Stages, Contract, TypeOK, SlotTypeOK
<1>7. ASSUME e \notin processed PROVE Pending(s) /\ scheduled[e][n] = 0 /\ n <= attempts[e]
  <2>1. Pending(s)
    BY <1>7 DEF Pending, At
  <2> QED BY <1>1, <2>1, ConsumerAssumption DEF AttemptNumbers
<1> HIDE DEF e, n
<1>8. AttemptNumbers'
  <2>1. ASSUME NEW t \in Slots, Pending(t)'
        PROVE  attempt'[t] <= attempts'[event'[t]] /\
               (attempt'[t] < MaxAttempts => scheduled'[event'[t]][attempt'[t]] = 0)
    <3>1. attempt[t] <= attempts[event[t]] /\ (attempt[t] < MaxAttempts => scheduled[event[t]][attempt[t]] = 0)
      BY <1>6, <2>1 DEF AttemptNumbers
    <3>2. ~(event[t] = e /\ attempt[t] = n)
      BY <1>6, <1>7, <2>1 DEF AttemptNumbers, e, n
    <3>3. attempt[t] < MaxAttempts => attempt[t] \in 1..MaxAttempts
      BY <1>6, <2>1, ConsumerAssumption
    <3> QED BY <1>2, <1>6, <2>1, <3>1, <3>2, <3>3
  <2>2. ASSUME NEW t \in Slots, NEW u \in Slots, Pending(t)', Pending(u)',
               event'[t] = event'[u], attempt'[t] = attempt'[u]
        PROVE  t = u
    BY <1>6, <2>2 DEF AttemptNumbers
  <2>3. ASSUME NEW f \in Contract \ processed', NEW m \in 1..MaxAttempts, m > attempts'[f]
        PROVE  scheduled'[f][m] = 0
    <3>1. scheduled[f][m] = 0 /\ f \in Events
      BY <2>3 DEF AttemptNumbers, Contract
    <3>2. ~(f = e /\ m = n)
      BY <1>1, <1>7, <2>3 DEF TypeOK, TableTypeOK
    <3> QED BY <1>2, <3>1, <3>2
  <2> QED BY <2>1, <2>2, <2>3 DEF AttemptNumbers
<1>9. RetryBudgetIsDurable'
  <2>1. ASSUME NEW f \in Contract \ processed' PROVE f \in Contract \ processed /\ f \in Events
    BY <2>1 DEF Contract
  <2>2. ASSUME NEW f \in Contract \ processed', NEW m \in 1..(MaxAttempts - 1) PROVE scheduled'[f][m] <= 1
    <3>1. m \in 1..MaxAttempts /\ scheduled[f][m] <= 1
      BY <2>1, ConsumerAssumption DEF RetryBudgetIsDurable
    <3>2. CASE f = e /\ m = n
      BY <1>2, <1>7, <2>1, <3>1, <3>2
    <3>3. CASE ~(f = e /\ m = n)
      BY <1>2, <2>1, <3>1, <3>3
    <3> QED BY <3>2, <3>3
  <2>3. ASSUME NEW f \in Contract \ processed' PROVE scheduled'[f][MaxAttempts] = 0
    <3>1. scheduled[f][MaxAttempts] = 0 /\ MaxAttempts \in 1..MaxAttempts /\ MaxAttempts # n
      BY <1>1, <2>1, ConsumerAssumption DEF RetryBudgetIsDurable
    <3> QED BY <1>2, <2>1, <3>1
  <2> QED BY <2>2, <2>3 DEF RetryBudgetIsDurable
<1> QED BY <1>3, <1>4, <1>5, <1>8, <1>9

\* Release ends one handler and leaves the others alone.
LEMMA ReleaseCases ==
    ASSUME SlotTypeOK, NEW s \in Slots, Release(s)
    PROVE  pc'[s] = "free" /\ live'[s] = FALSE /\ \A t \in Slots \ {s} : Same(t) /\ live'[t] = live[t]
BY DEF SlotTypeOK, Release, Goto, Same

\* Goto moves one handler and leaves the others alone.
LEMMA GotoCases ==
    ASSUME SlotTypeOK, NEW s \in Slots, NEW label, Goto(s, label), UNCHANGED <<event, attempt>>
    PROVE  /\ pc'[s] = label /\ event'[s] = event[s] /\ attempt'[s] = attempt[s]
           /\ \A t \in Slots \ {s} : Same(t)
BY DEF SlotTypeOK, Goto, Same

\* Every handler step keeps the invariant.
LEMMA HandlerInvStep ==
    ASSUME TypeOK, TypeOK', ConsumerInv, NEW s \in Slots, HandlerStep(s)
    PROVE  ConsumerInv'
<1> USE DEF queueVars, slotVars, tableVars
<1>0. /\ SlotTypeOK
      /\ \A e \in Contract : e \in Events /\ attempts[e] \in Nat
      /\ \A e \in Contract : messages[e] \in Nat
  BY DEF TypeOK, TableTypeOK, Contract
<1>1. CASE RejectInvalid(s)
  <2>a. \A t \in Slots : pc'[t] \in Quiet \/ Same(t)
    BY <1>0, <1>1, ReleaseCases DEF RejectInvalid, Quiet
  <2>b. \A e \in Contract \ processed : attempts'[e] >= attempts[e]
    BY <1>0, <1>1 DEF RejectInvalid
  <2> QED BY <1>1, <2>a, <2>b, QuietStep DEF RejectInvalid
<1>2. CASE RecordAttempt(s)
  BY <1>2, RecordStep
<1>3. CASE RecordAttemptFails(s)
  <2>1. \A t \in Slots : pc'[t] \in Quiet \/ Same(t)
    BY <1>0, <1>3, GotoCases DEF RecordAttemptFails, Quiet
  <2>2. \A e \in Contract : attempts'[e] >= attempts[e]
    <3>1. CASE attempts' = attempts
      BY <1>0, <3>1
    <3>2. CASE attempts' = Plus(attempts, event[s])
      BY <1>0, <3>2 DEF Plus, TypeOK, TableTypeOK
    <3> QED BY <1>3, <3>1, <3>2 DEF RecordAttemptFails
  <2> QED BY <1>3, <2>1, <2>2, QuietStep DEF RecordAttemptFails
<1>4. CASE InsertLedger(s)
  <2>1. UNCHANGED <<event, attempt, processed, messages, scheduled, attempts>>
    BY <1>4 DEF InsertLedger
  <2>2. CASE event[s] \in processed
    <3>1. Goto(s, "clearing")
      BY <1>4, <2>2 DEF InsertLedger
    <3> QED BY <1>0, <1>4, <2>1, <2>2, <3>1, GotoCases, AdvanceStep DEF InsertLedger, At
  <2>3. CASE event[s] \notin processed
    <3>1. Goto(s, "inTransaction")
      BY <1>4, <2>3 DEF InsertLedger
    <3> QED BY <1>0, <1>4, <2>1, <2>3, <3>1, GotoCases, AdvanceStep DEF InsertLedger, At
  <2> QED BY <2>2, <2>3
<1>5. CASE Commit(s)
  BY <1>0, <1>5, GotoCases, PersistStep DEF Commit
<1>6. CASE TransactionFails(s)
  <2>1. PICK class \in ErrorClass : Catch(s, class)
    BY <1>6 DEF TransactionFails
  <2>2. CASE pc'[s] = "free"
    BY <1>0, <1>6, <2>1, <2>2, CatchCases, QuietStep DEF TransactionFails, Quiet
  <2>3. CASE pc'[s] = "publishing"
    BY <1>0, <1>6, <2>1, <2>3, CatchCases, AdvanceStep DEF TransactionFails
  <2> QED BY <1>0, <2>1, <2>2, <2>3, CatchCases
<1>7. CASE CommitReplyLost(s)
  <2>1. PICK class \in ErrorClass : Catch(s, class)
    BY <1>7 DEF CommitReplyLost
  <2> QED BY <1>0, <1>7, <2>1, CatchCases, PersistStep DEF CommitReplyLost, Quiet
<1>8. CASE ClearAttempts(s)
  <2>1. event[s] \in processed
    BY <1>8 DEF ClearAttempts, ConsumerInv, Stages
  <2>2. \A e \in Contract \ processed : attempts'[e] >= attempts[e]
    BY <1>0, <1>8, <2>1 DEF ClearAttempts, TypeOK, TableTypeOK
  <2>3. \A t \in Slots : pc'[t] \in Quiet \/ Same(t)
    BY <1>0, <1>8, GotoCases DEF ClearAttempts, Quiet
  <2> QED BY <1>8, <2>2, <2>3, QuietStep DEF ClearAttempts
<1>9. CASE ClearAttemptsFails(s)
  <2>1. event[s] \in processed
    BY <1>9 DEF ClearAttemptsFails, ConsumerInv, Stages
  <2>2. \A e \in Contract \ processed : attempts'[e] = attempts[e]
    <3>1. CASE attempts' = attempts
      BY <3>1
    <3>2. CASE attempts' = [attempts EXCEPT ![event[s]] = 0]
      BY <1>0, <2>1, <3>2 DEF TypeOK, TableTypeOK
    <3> QED BY <1>9, <3>1, <3>2 DEF ClearAttemptsFails
  <2>3. PICK class \in ErrorClass : Catch(s, class)
    BY <1>9 DEF ClearAttemptsFails
  <2>4. CASE pc'[s] = "free"
    BY <1>0, <1>9, <2>2, <2>3, <2>4, CatchCases, QuietStep DEF ClearAttemptsFails, Quiet
  <2>5. CASE pc'[s] = "publishing"
    BY <1>0, <1>9, <2>2, <2>3, <2>5, CatchCases, AdvanceStep DEF ClearAttemptsFails, At
  <2> QED BY <1>0, <2>3, <2>4, <2>5, CatchCases
<1>10. CASE Ack(s)
  <2>a. \A t \in Slots : pc'[t] \in Quiet \/ Same(t)
    BY <1>0, <1>10, ReleaseCases DEF Ack, Quiet
  <2>b. \A e \in Contract \ processed : attempts'[e] >= attempts[e]
    BY <1>0, <1>10 DEF Ack
  <2> QED BY <1>10, <2>a, <2>b, QuietStep DEF Ack
<1>11. CASE PublishToRetry(s)
  BY <1>0, <1>11, GotoCases, ScheduleStep DEF PublishToRetry, Quiet
<1>12. CASE PublishToRetryFails(s)
  <2>1. CASE Schedule(s)
    BY <1>0, <1>12, <2>1, ReleaseCases, ScheduleStep DEF PublishToRetryFails, Quiet
  <2>2. CASE UNCHANGED <<retry, scheduled>>
    <3>1. \A t \in Slots : pc'[t] \in Quiet \/ Same(t)
      BY <1>0, <1>12, ReleaseCases DEF PublishToRetryFails, Quiet
    <3>2. \A e \in Contract \ processed : attempts'[e] >= attempts[e]
      BY <1>0, <1>12 DEF PublishToRetryFails
    <3> QED BY <1>12, <2>2, <3>1, <3>2, QuietStep DEF PublishToRetryFails
  <2> QED BY <1>12, <2>1, <2>2 DEF PublishToRetryFails
<1>13. CASE HandleTestRabbit(s)
  <2>1. \A e \in Contract : messages'[e] = messages[e]
    BY <1>0, <1>13 DEF HandleTestRabbit, Plus, Contract, TypeOK, TableTypeOK
  <2> QED BY <1>0, <1>13, <2>1, GotoCases, QuietStep DEF HandleTestRabbit, Quiet
<1>14. CASE HandleTestRabbitFails(s)
  <2>1. \A e \in Contract : messages'[e] = messages[e]
    <3>1. CASE messages' = messages
      BY <3>1
    <3>2. CASE messages' = Plus(messages, event[s])
      BY <1>0, <1>14, <3>2 DEF HandleTestRabbitFails, Plus, Contract, TypeOK, TableTypeOK
    <3> QED BY <1>14, <3>1, <3>2 DEF HandleTestRabbitFails
  <2>a. \A t \in Slots : pc'[t] \in Quiet \/ Same(t)
    BY <1>0, <1>14, ReleaseCases DEF HandleTestRabbitFails, Quiet
  <2>b. \A e \in Contract \ processed : attempts'[e] >= attempts[e]
    BY <1>0, <1>14 DEF HandleTestRabbitFails
  <2> QED BY <1>14, <2>1, <2>a, <2>b, QuietStep DEF HandleTestRabbitFails
<1> QED BY <1>1, <1>2, <1>3, <1>4, <1>5, <1>6, <1>7, <1>8, <1>9, <1>10, <1>11, <1>12, <1>13, <1>14
        DEF HandlerStep

\* Every step keeps the invariant.
LEMMA InvStep == TypeOK /\ TypeOK' /\ ConsumerInv /\ [Next]_vars => ConsumerInv'
<1> SUFFICES ASSUME TypeOK, TypeOK', ConsumerInv, [Next]_vars PROVE ConsumerInv'
  OBVIOUS
<1> USE DEF queueVars, slotVars, tableVars
<1>0. \A e \in Contract \ processed : attempts[e] \in Nat
  BY DEF TypeOK, TableTypeOK, Contract
<1>1. ASSUME UNCHANGED <<slotVars, tableVars, scheduled>> PROVE ConsumerInv'
  <2>1. \A s \in Slots : Same(s)
    BY <1>1 DEF Same
  <2>2. \A e \in Contract \ processed : attempts'[e] >= attempts[e]
    BY <1>0, <1>1
  <2> QED BY <1>1, <2>1, <2>2, QuietStep
<1>2. ASSUME NEW e \in Events, Arrive(e) \/ RetryTtlExpires(e) \/ HandleDlqMessage(e) \/ Requeue(e)
      PROVE  ConsumerInv'
  BY <1>1, <1>2 DEF Arrive, RetryTtlExpires, HandleDlqMessage, Requeue
<1>3. ASSUME NEW s \in Slots, NEW e \in Events, Deliver(s, e) PROVE ConsumerInv'
  <2>1. \A t \in Slots : pc'[t] \in Quiet \/ Same(t)
    BY <1>3 DEF Deliver, Goto, Quiet, Same, TypeOK, SlotTypeOK
  <2>2. \A f \in Contract \ processed : attempts'[f] >= attempts[f]
    BY <1>0, <1>3 DEF Deliver
  <2> QED BY <1>3, <2>1, <2>2, QuietStep DEF Deliver
<1>4. ASSUME NEW s \in Slots, HandlerStep(s) PROVE ConsumerInv'
  BY <1>4, HandlerInvStep
<1>5. ASSUME NEW p \in Processes, ConnectionLost(p) PROVE ConsumerInv'
  <2>1. \A t \in Slots : pc'[t] \in Quiet \/ Same(t)
    BY <1>5 DEF ConnectionLost, Quiet, Same
  <2>2. \A f \in Contract \ processed : attempts'[f] >= attempts[f]
    BY <1>0, <1>5 DEF ConnectionLost
  <2> QED BY <1>5, <2>1, <2>2, QuietStep DEF ConnectionLost
<1>6. ASSUME NEW p \in Processes, Crash(p) PROVE ConsumerInv'
  <2>1. \A t \in Slots : pc'[t] \in Quiet \/ Same(t)
    BY <1>6 DEF Crash, Quiet, Same
  <2>2. \A f \in Contract \ processed : attempts'[f] >= attempts[f]
    BY <1>0, <1>6 DEF Crash
  <2> QED BY <1>6, <2>1, <2>2, QuietStep DEF Crash
<1>7. ASSUME UNCHANGED vars PROVE ConsumerInv'
  BY <1>1, <1>7 DEF vars
<1> QED BY <1>2, <1>3, <1>4, <1>5, <1>6, <1>7, NextCases

\* The inductive invariant: where a handler can be, one open transaction per
\* event, the ledger agrees with the messages, attempt numbers are used once.
THEOREM ConsumerInvariant == Spec => []ConsumerInv
<1>1. Init => ConsumerInv
  BY ConsumerAssumption DEF Init, ConsumerInv, Stages, OneTransaction, Ledger, AttemptNumbers, Pending,
     RetryBudgetIsDurable, NoneQueued, Contract, At
<1>2. ConsumerInv /\ TypeOK /\ TypeOK' /\ [Next]_vars => ConsumerInv'
  BY InvStep
<1> QED BY <1>1, <1>2, ConsumerTyping, PTL DEF Spec

\* No sequence of redeliveries, retries, requeues and failures persists a
\* contract event twice.
THEOREM PersistedAtMostOnce == Spec => []PersistedOnce
<1>1. ConsumerInv => PersistedOnce
  BY DEF ConsumerInv, Ledger, PersistedOnce
<1> QED BY <1>1, ConsumerInvariant, PTL

\* The retry budget of an event is never renewed before it is persisted.
THEOREM BudgetIsDurable == Spec => []RetryBudgetIsDurable
<1>1. ConsumerInv => RetryBudgetIsDurable
  BY DEF ConsumerInv
<1> QED BY <1>1, ConsumerInvariant, PTL

------------------------------------------------------------------------------
\* An event is accounted for.
Safe(e) == messages[e] > 0 \/ e \in logged \/ e \in rejected \/ InCustody(e)

\* A handler step that takes nothing out of the queues and keeps its own
\* event accounted for keeps every event accounted for.
LEMMA CustodyHandler ==
    ASSUME TypeOK, TypeOK', NothingLost, NEW s \in Slots, NEW f \in Events, f = event[s],
           \A t \in Slots \ {s} : pc'[t] = pc[t] /\ event'[t] = event[t] /\ live'[t] = live[t],
           \A e \in Events : /\ work'[e] >= work[e] /\ retry'[e] >= retry[e] /\ dlq'[e] >= dlq[e]
                             /\ messages'[e] >= messages[e],
           UNCHANGED <<copies, logged>>, rejected \subseteq rejected',
           Safe(f)' \/ ~live[s] \/ At(s, "acking")
    PROVE  NothingLost'
<1> SUFFICES ASSUME NEW e \in Events, copies[e] > 0 PROVE Safe(e)'
  BY DEF NothingLost, Safe
<1>1. /\ work[e] \in Nat /\ retry[e] \in Nat /\ dlq[e] \in Nat /\ messages[e] \in Nat
      /\ work'[e] \in Nat /\ retry'[e] \in Nat /\ dlq'[e] \in Nat /\ messages'[e] \in Nat
  BY DEF TypeOK, QueueTypeOK, TableTypeOK
<1>2. Safe(e)
  BY DEF NothingLost, Safe
<1>3. CASE messages[e] > 0 \/ e \in logged \/ e \in rejected
  BY <1>1, <1>3 DEF Safe
<1>4. CASE work[e] + retry[e] + dlq[e] > 0
  BY <1>1, <1>4 DEF Safe, InCustody
<1>5. ASSUME NEW t \in Slots, live[t], event[t] = e, ~At(t, "acking") PROVE Safe(e)'
  <2>1. CASE t = s
    BY <1>5, <2>1
  <2>2. CASE t # s
    BY <1>5, <2>2 DEF Safe, InCustody, At
  <2> QED BY <2>1, <2>2
<1> QED BY <1>2, <1>3, <1>4, <1>5 DEF Safe, InCustody

\* The delivery a handler nacks, or keeps, is in custody.
LEMMA NackedSafe ==
    ASSUME NEW q \in [Events -> Nat], NEW s \in Slots, event[s] \in Events
    PROVE  /\ \A e \in Events : Nacked(s, q)[e] >= q[e]
           /\ live[s] => Nacked(s, q)[event[s]] > 0
BY PlusType DEF Nacked

\* Every handler step keeps every event accounted for.
LEMMA HandlerCustodyStep ==
    ASSUME TypeOK, TypeOK', ConsumerInv, NothingLost, NEW s \in Slots, HandlerStep(s)
    PROVE  NothingLost'
<1> USE DEF queueVars, slotVars, tableVars
<1>a. pc[s] # "free"
  BY DEF HandlerStep, RejectInvalid, RecordAttempt, RecordAttemptFails, InsertLedger, Commit,
     TransactionFails, CommitReplyLost, ClearAttempts, ClearAttemptsFails, Ack, PublishToRetry,
     PublishToRetryFails, HandleTestRabbit, HandleTestRabbitFails, At
<1>b. SlotTypeOK /\ event[s] \in Events
  BY <1>a, BusyHasEvent DEF TypeOK
<1>i. PICK e \in Events : e = event[s]
  BY <1>b
<1>c. /\ work \in [Events -> Nat] /\ retry \in [Events -> Nat] /\ dlq \in [Events -> Nat]
      /\ messages \in [Events -> Nat]
      /\ work' \in [Events -> Nat] /\ retry' \in [Events -> Nat] /\ dlq' \in [Events -> Nat]
      /\ messages' \in [Events -> Nat]
  BY DEF TypeOK, QueueTypeOK, TableTypeOK
\* The other slots are left alone.
<1>d. \A t \in Slots \ {s} : pc'[t] = pc[t] /\ event'[t] = event[t] /\ live'[t] = live[t]
  <2>1. CASE Release(s)
    BY <1>b, <1>i, <2>1, ReleaseCases DEF Same
  <2>2. ASSUME NEW label, Goto(s, label), UNCHANGED <<event, live>>
        PROVE  \A t \in Slots \ {s} : pc'[t] = pc[t] /\ event'[t] = event[t] /\ live'[t] = live[t]
    BY <1>b, <1>i, <2>2 DEF Goto, SlotTypeOK
  <2>3. ASSUME NEW class, Catch(s, class)
        PROVE  \A t \in Slots \ {s} : pc'[t] = pc[t] /\ event'[t] = event[t] /\ live'[t] = live[t]
    BY <1>b, <1>i, <2>3, CatchCases DEF Same
  <2> QED BY <2>1, <2>2, <2>3 DEF HandlerStep, RejectInvalid, RecordAttempt, RecordAttemptFails,
             InsertLedger, Commit, TransactionFails, CommitReplyLost, ClearAttempts,
             ClearAttemptsFails, Ack, PublishToRetry, PublishToRetryFails, HandleTestRabbit,
             HandleTestRabbitFails
\* A delivery kept by a handler that is not about to ack is in custody.
<1>e. ASSUME live' = live, event' = event, pc'[s] # "acking" PROVE Safe(e)' \/ ~live[s]
  BY <1>i, <1>e DEF Safe, InCustody, At
\* So is one the catch block has dealt with.
<1>f. ASSUME NEW class, Catch(s, class)
      PROVE  (Safe(e)' \/ ~live[s]) /\ \A f \in Events : dlq'[f] >= dlq[f]
  <2>1. CASE dlq' = Nacked(s, dlq)
    <3>1. live[s] => dlq'[e] > 0
      BY <1>b, <1>i, <1>c, <2>1, NackedSafe
    <3>2. \A f \in Events : dlq'[f] >= dlq[f]
      BY <1>b, <1>i, <1>c, <2>1, NackedSafe
    <3> QED BY <1>b, <1>i, <1>c, <3>1, <3>2 DEF Safe, InCustody
  <2>2. CASE pc'[s] = "publishing" /\ event'[s] = event[s] /\ live' = live /\ dlq' = dlq
    BY <1>i, <1>c, <2>2 DEF Safe, InCustody, At
  <2> QED BY <1>b, <1>i, <1>f, <2>1, <2>2, CatchCases
<1>g. \A f \in Events : /\ work[f] >= work[f] /\ retry[f] >= retry[f] /\ dlq[f] >= dlq[f]
                        /\ messages[f] >= messages[f]
  BY <1>c
<1>h. ASSUME NEW q \in [Events -> Nat] PROVE \A f \in Events : Plus(q, e)[f] >= q[f]
  BY <1>b, <1>i, PlusType
<1>1. CASE RejectInvalid(s)
  <2>1. e \in rejected' /\ rejected \subseteq rejected'
    BY <1>1, <1>i DEF RejectInvalid
  <2>2. Safe(e)'
    BY <2>1 DEF Safe
  <2> QED BY <1>1, <1>b, <1>i, <1>d, <1>g, <2>1, <2>2, CustodyHandler DEF RejectInvalid
<1>2. CASE RecordAttempt(s)
  <2>1. Safe(e)' \/ ~live[s]
    BY <1>2, <1>b, <1>i, <1>e DEF RecordAttempt, Goto, SlotTypeOK
  <2> QED BY <1>2, <1>b, <1>i, <1>d, <1>g, <2>1, CustodyHandler DEF RecordAttempt
<1>3. CASE RecordAttemptFails(s)
  <2>1. Safe(e)' \/ ~live[s]
    BY <1>3, <1>b, <1>i, <1>e DEF RecordAttemptFails, Goto, SlotTypeOK
  <2> QED BY <1>3, <1>b, <1>i, <1>d, <1>g, <2>1, CustodyHandler DEF RecordAttemptFails
<1>4. CASE InsertLedger(s)
  <2>1. Safe(e)' \/ ~live[s]
    BY <1>4, <1>b, <1>i, <1>e DEF InsertLedger, Goto, SlotTypeOK
  <2> QED BY <1>4, <1>b, <1>i, <1>d, <1>g, <2>1, CustodyHandler DEF InsertLedger
<1>5. CASE Commit(s)
  <2>1. Safe(e)' \/ ~live[s]
    BY <1>5, <1>b, <1>i, <1>e DEF Commit, Goto, SlotTypeOK
  <2>2. \A f \in Events : messages'[f] >= messages[f]
    BY <1>5, <1>i, <1>c, <1>h DEF Commit, Persist
  <2> QED BY <1>5, <1>b, <1>i, <1>d, <1>g, <2>1, <2>2, CustodyHandler DEF Commit
<1>6. CASE TransactionFails(s)
  <2>1. (Safe(e)' \/ ~live[s]) /\ \A f \in Events : dlq'[f] >= dlq[f]
    BY <1>6, <1>f DEF TransactionFails
  <2> QED BY <1>6, <1>b, <1>i, <1>d, <1>g, <2>1, CustodyHandler DEF TransactionFails
<1>7. CASE CommitReplyLost(s)
  <2>1. (Safe(e)' \/ ~live[s]) /\ \A f \in Events : dlq'[f] >= dlq[f]
    BY <1>7, <1>f DEF CommitReplyLost
  <2>2. \A f \in Events : messages'[f] >= messages[f]
    BY <1>7, <1>i, <1>c, <1>h DEF CommitReplyLost, Persist
  <2> QED BY <1>7, <1>b, <1>i, <1>d, <1>g, <2>1, <2>2, CustodyHandler DEF CommitReplyLost
<1>8. CASE ClearAttempts(s)
  <2>1. messages[e] = 1 /\ messages' = messages
    BY <1>8, <1>i DEF ClearAttempts, ConsumerInv, Stages, Ledger, At
  <2>2. Safe(e)'
    BY <2>1 DEF Safe
  <2> QED BY <1>8, <1>b, <1>i, <1>d, <1>g, <2>2, CustodyHandler DEF ClearAttempts
<1>9. CASE ClearAttemptsFails(s)
  <2>1. (Safe(e)' \/ ~live[s]) /\ \A f \in Events : dlq'[f] >= dlq[f]
    BY <1>9, <1>f DEF ClearAttemptsFails
  <2> QED BY <1>9, <1>b, <1>i, <1>d, <1>g, <2>1, CustodyHandler DEF ClearAttemptsFails
<1>10. CASE Ack(s)
  BY <1>10, <1>b, <1>i, <1>d, <1>g, CustodyHandler DEF Ack
<1>11. CASE PublishToRetry(s)
  <2>1. retry'[e] > 0 /\ \A f \in Events : retry'[f] >= retry[f]
    BY <1>11, <1>b, <1>i, <1>c, PlusType DEF PublishToRetry, Schedule
  <2>2. Safe(e)'
    BY <1>b, <1>i, <1>c, <2>1 DEF Safe, InCustody
  <2> QED BY <1>11, <1>b, <1>i, <1>d, <1>g, <2>1, <2>2, CustodyHandler DEF PublishToRetry
<1>12. CASE PublishToRetryFails(s)
  <2>1. \A f \in Events : retry'[f] >= retry[f]
    <3>1. CASE Schedule(s)
      BY <1>i, <1>c, <1>h, <3>1 DEF Schedule
    <3>2. CASE UNCHANGED <<retry, scheduled>>
      BY <1>g, <3>2
    <3> QED BY <1>12, <3>1, <3>2 DEF PublishToRetryFails
  <2>2. work' = Nacked(s, work)
    BY <1>12 DEF PublishToRetryFails
  <2>3. (\A f \in Events : work'[f] >= work[f]) /\ (live[s] => work'[e] > 0)
    BY <1>b, <1>i, <1>c, <2>2, NackedSafe
  <2>4. Safe(e)' \/ ~live[s]
    BY <1>b, <1>i, <1>c, <2>3 DEF Safe, InCustody
  <2> QED BY <1>12, <1>b, <1>i, <1>d, <1>g, <2>1, <2>3, <2>4, CustodyHandler DEF PublishToRetryFails
<1>13. CASE HandleTestRabbit(s)
  <2>1. messages'[e] > 0 /\ \A f \in Events : messages'[f] >= messages[f]
    BY <1>13, <1>b, <1>i, <1>c, PlusType DEF HandleTestRabbit
  <2>2. Safe(e)'
    BY <2>1 DEF Safe
  <2> QED BY <1>13, <1>b, <1>i, <1>d, <1>g, <2>1, <2>2, CustodyHandler DEF HandleTestRabbit
<1>14. CASE HandleTestRabbitFails(s)
  <2>1. \A f \in Events : messages'[f] >= messages[f]
    <3>1. CASE messages' = messages
      BY <1>g, <3>1
    <3>2. CASE messages' = Plus(messages, e)
      BY <1>i, <1>c, <1>h, <3>2
    <3> QED BY <1>14, <1>i, <3>1, <3>2 DEF HandleTestRabbitFails
  <2>2. dlq' = Nacked(s, dlq)
    BY <1>14 DEF HandleTestRabbitFails
  <2>3. (\A f \in Events : dlq'[f] >= dlq[f]) /\ (live[s] => dlq'[e] > 0)
    BY <1>b, <1>i, <1>c, <2>2, NackedSafe
  <2>4. Safe(e)' \/ ~live[s]
    BY <1>b, <1>i, <1>c, <2>3 DEF Safe, InCustody
  <2> QED BY <1>14, <1>b, <1>i, <1>d, <1>g, <2>1, <2>3, <2>4, CustodyHandler DEF HandleTestRabbitFails
<1> QED BY <1>1, <1>2, <1>3, <1>4, <1>5, <1>6, <1>7, <1>8, <1>9, <1>10, <1>11, <1>12, <1>13, <1>14
        DEF HandlerStep

\* Every step keeps every event accounted for.
LEMMA CustodyStep == TypeOK /\ TypeOK' /\ ConsumerInv /\ NothingLost /\ [Next]_vars => NothingLost'
<1> SUFFICES ASSUME TypeOK, TypeOK', ConsumerInv, NothingLost, [Next]_vars PROVE NothingLost'
  OBVIOUS
<1> USE DEF queueVars, slotVars, tableVars
<1>a. ASSUME NEW f \in Events
      PROVE  /\ work[f] \in Nat /\ retry[f] \in Nat /\ dlq[f] \in Nat
             /\ work'[f] \in Nat /\ retry'[f] \in Nat /\ dlq'[f] \in Nat
  BY DEF TypeOK, QueueTypeOK
<1>b. \A f \in Events : copies[f] > 0 => Safe(f)
  BY DEF NothingLost, Safe
<1>c. ASSUME \A f \in Events : copies'[f] > 0 => Safe(f)' PROVE NothingLost'
  BY <1>c DEF NothingLost, Safe
<1>1. ASSUME NEW e \in Events, Arrive(e) PROVE NothingLost'
  <2>1. ASSUME NEW f \in Events, copies'[f] > 0 PROVE Safe(f)'
    <3>1. CASE f = e
      BY <1>1, <1>a, <3>1 DEF Arrive, Plus, Safe, InCustody, TypeOK, QueueTypeOK
    <3>2. CASE f # e
      <4>1. copies'[f] = copies[f] /\ work'[f] = work[f]
        BY <1>1, <3>2 DEF Arrive, Plus, TypeOK, QueueTypeOK
      <4> QED BY <1>1, <1>b, <2>1, <4>1 DEF Arrive, Safe, InCustody, At
    <3> QED BY <3>1, <3>2
  <2> QED BY <1>c, <2>1
\* Copies that only move between the queues stay in custody.
<1>2. ASSUME \A f \in Events : work'[f] + retry'[f] + dlq'[f] = work[f] + retry[f] + dlq[f],
             UNCHANGED <<copies, slotVars, messages, logged, rejected>>
      PROVE  NothingLost'
  BY <1>2, <1>b, <1>c DEF Safe, InCustody, At
<1>3. ASSUME NEW e \in Events, RetryTtlExpires(e) PROVE NothingLost'
  <2>1. \A f \in Events : work'[f] + retry'[f] + dlq'[f] = work[f] + retry[f] + dlq[f]
    BY <1>3, <1>a DEF RetryTtlExpires, Plus, Minus, TypeOK, QueueTypeOK
  <2> QED BY <1>2, <1>3, <2>1 DEF RetryTtlExpires
<1>4. ASSUME NEW e \in Events, Requeue(e) PROVE NothingLost'
  <2>1. \A f \in Events : work'[f] + retry'[f] + dlq'[f] = work[f] + retry[f] + dlq[f]
    BY <1>4, <1>a DEF Requeue, Plus, Minus, TypeOK, QueueTypeOK
  <2> QED BY <1>2, <1>4, <2>1 DEF Requeue
<1>5. ASSUME NEW e \in Events, HandleDlqMessage(e) PROVE NothingLost'
  <2>1. ASSUME NEW f \in Events, copies'[f] > 0 PROVE Safe(f)'
    <3>1. CASE f = e
      BY <1>5, <3>1 DEF HandleDlqMessage, Safe
    <3>2. CASE f # e
      <4>1. dlq'[f] = dlq[f]
        BY <1>5, <3>2 DEF HandleDlqMessage, Minus, TypeOK, QueueTypeOK
      <4> QED BY <1>5, <1>b, <2>1, <4>1 DEF HandleDlqMessage, Safe, InCustody, At
    <3> QED BY <3>1, <3>2
  <2> QED BY <1>c, <2>1
<1>6. ASSUME NEW s \in Slots, NEW e \in Events, Deliver(s, e) PROVE NothingLost'
  <2>1. /\ ~live[s] /\ pc'[s] = "received" /\ event'[s] = e /\ live'[s] = TRUE
        /\ \A t \in Slots \ {s} : pc'[t] = pc[t] /\ event'[t] = event[t] /\ live'[t] = live[t]
    BY <1>6 DEF Deliver, Goto, At, TypeOK, SlotTypeOK
  <2>2. ASSUME NEW f \in Events, copies'[f] > 0 PROVE Safe(f)'
    <3>1. CASE f = e
      BY <2>1, <3>1 DEF Safe, InCustody, At
    <3>2. CASE f # e
      <4>1. work'[f] = work[f]
        BY <1>6, <3>2 DEF Deliver, Minus, TypeOK, QueueTypeOK
      <4>2. Safe(f)
        BY <1>6, <1>b, <2>2 DEF Deliver
      <4>3. ASSUME NEW t \in Slots, live[t], event[t] = f, ~At(t, "acking") PROVE Safe(f)'
        BY <2>1, <4>3 DEF Safe, InCustody, At
      <4> QED BY <1>6, <4>1, <4>2, <4>3 DEF Deliver, Safe, InCustody
    <3> QED BY <3>1, <3>2
  <2> QED BY <1>c, <2>2
<1>7. ASSUME NEW s \in Slots, HandlerStep(s) PROVE NothingLost'
  BY <1>7, HandlerCustodyStep
\* The broker requeues what a process held; the other slots are untouched.
<1>8. ASSUME NEW p \in Processes, work' = Requeued(p),
             \A t \in Slots : ProcessOf[t] # p => pc'[t] = pc[t] /\ event'[t] = event[t] /\ live'[t] = live[t],
             UNCHANGED <<copies, retry, dlq, messages, logged, rejected>>
      PROVE  NothingLost'
  <2>1. ASSUME NEW f \in Events, copies'[f] > 0 PROVE Safe(f)'
    <3>1. work'[f] >= work[f]
      BY <1>8, RequeuedType DEF TypeOK, QueueTypeOK
    <3>2. Safe(f)
      BY <1>8, <1>b, <2>1
    <3>3. CASE work[f] + retry[f] + dlq[f] > 0
      BY <1>8, <1>a, <3>1, <3>3 DEF Safe, InCustody
    <3>4. ASSUME NEW t \in Slots, live[t], event[t] = f, ~At(t, "acking") PROVE Safe(f)'
      <4>1. CASE ProcessOf[t] = p
        <5>1. t \in Held(p)
          BY <3>4, <4>1 DEF Held
        <5>2. work'[f] > 0
          BY <1>8, <3>4, <5>1, RequeuedType DEF TypeOK, QueueTypeOK
        <5> QED BY <1>a, <5>2 DEF Safe, InCustody
      <4>2. CASE ProcessOf[t] # p
        BY <1>8, <3>4, <4>2 DEF Safe, InCustody, At
      <4> QED BY <4>1, <4>2
    <3> QED BY <1>8, <3>2, <3>3, <3>4 DEF Safe, InCustody
  <2> QED BY <1>c, <2>1
<1>9. ASSUME NEW p \in Processes, ConnectionLost(p) PROVE NothingLost'
  <2>1. \A t \in Slots : ProcessOf[t] # p => pc'[t] = pc[t] /\ event'[t] = event[t] /\ live'[t] = live[t]
    BY <1>9 DEF ConnectionLost, TypeOK, SlotTypeOK
  <2> QED BY <1>8, <1>9, <2>1 DEF ConnectionLost
<1>10. ASSUME NEW p \in Processes, Crash(p) PROVE NothingLost'
  <2>1. \A t \in Slots : ProcessOf[t] # p => pc'[t] = pc[t] /\ event'[t] = event[t] /\ live'[t] = live[t]
    BY <1>10 DEF Crash, TypeOK, SlotTypeOK
  <2> QED BY <1>8, <1>10, <2>1 DEF Crash
<1>11. ASSUME UNCHANGED vars PROVE NothingLost'
  BY <1>2, <1>11 DEF vars
<1> QED BY <1>1, <1>3, <1>4, <1>5, <1>6, <1>7, <1>9, <1>10, <1>11, NextCases

\* At-least-once for every interleaving: an accepted event is persisted, dead
\* and logged, dropped as invalid, queued, or held by a handler that still
\* has to make it safe.
THEOREM NoEventIsLost == Spec => []NothingLost
<1>1. Init => NothingLost
  BY DEF Init, NothingLost, NoneQueued
<1>2. NothingLost /\ TypeOK /\ TypeOK' /\ ConsumerInv /\ [Next]_vars => NothingLost'
  BY CustodyStep
<1> QED BY <1>1, <1>2, ConsumerTyping, ConsumerInvariant, PTL DEF Spec

------------------------------------------------------------------------------
\* Every step of a handler but a rejected recordAttempt() leaves the slot free
\* or goes on inside the try block.
LEMMA NoneReturnsUnsettled ==
    ASSUME TypeOK, ~RecordFails, \A s \in Slots : ~At(s, "returned"), [Next]_vars
    PROVE  \A s \in Slots : ~At(s, "returned")'
<1> USE DEF TypeOK, SlotTypeOK, At
<1>1. ASSUME NEW s \in Slots, NEW label, label # "returned", Goto(s, label)
      PROVE  \A t \in Slots : pc'[t] # "returned"
  BY <1>1 DEF Goto
<1>2. ASSUME NEW s \in Slots, Release(s) PROVE \A t \in Slots : pc'[t] # "returned"
  BY <1>1, <1>2 DEF Release
<1>3. ASSUME NEW s \in Slots, NEW class, Catch(s, class) PROVE \A t \in Slots : pc'[t] # "returned"
  BY <1>1, <1>2, <1>3 DEF Catch
<1>4. ASSUME NEW s \in Slots, HandlerStep(s) PROVE \A t \in Slots : pc'[t] # "returned"
  <2>1. CASE RejectInvalid(s) \/ Ack(s) \/ PublishToRetryFails(s) \/ HandleTestRabbitFails(s)
    BY <1>2, <2>1 DEF RejectInvalid, Ack, PublishToRetryFails, HandleTestRabbitFails
  <2>2. CASE RecordAttempt(s) \/ Commit(s) \/ ClearAttempts(s) \/ PublishToRetry(s) \/ HandleTestRabbit(s)
    BY <1>1, <2>2 DEF RecordAttempt, Commit, ClearAttempts, PublishToRetry, HandleTestRabbit
  <2>3. CASE InsertLedger(s)
    BY <1>1, <2>3 DEF InsertLedger
  <2>4. CASE TransactionFails(s) \/ CommitReplyLost(s) \/ ClearAttemptsFails(s)
    BY <1>3, <2>4 DEF TransactionFails, CommitReplyLost, ClearAttemptsFails
  <2>5. ~RecordAttemptFails(s)
    BY DEF RecordAttemptFails
  <2> QED BY <1>4, <2>1, <2>2, <2>3, <2>4, <2>5 DEF HandlerStep
<1>5. ASSUME NEW s \in Slots, NEW e \in Events, Deliver(s, e) PROVE \A t \in Slots : pc'[t] # "returned"
  BY <1>1, <1>5 DEF Deliver
<1>6. ASSUME NEW e \in Events, Arrive(e) \/ RetryTtlExpires(e) \/ HandleDlqMessage(e) \/ Requeue(e)
      PROVE  \A t \in Slots : pc'[t] # "returned"
  BY <1>6 DEF Arrive, RetryTtlExpires, HandleDlqMessage, Requeue, slotVars
<1>7. ASSUME NEW p \in Processes, ConnectionLost(p) \/ Crash(p) PROVE \A t \in Slots : pc'[t] # "returned"
  BY <1>7 DEF ConnectionLost, Crash
<1>8. CASE UNCHANGED vars
  BY <1>8 DEF vars, slotVars
<1> QED BY <1>4, <1>5, <1>6, <1>7, <1>8, NextCases

\* recordAttempt(), awaited before the try block, is the only call whose failure
\* strands a delivery: were it never rejected, every handler would end with its
\* delivery settled, whatever else of database, broker and process fails.
THEOREM OnlyRecordAttemptStrands ==
    ASSUME ~RecordFails
    PROVE  Spec => []FailedDeliveriesAreNacked
<1>1. Init => \A s \in Slots : ~At(s, "returned")
  BY DEF Init, At
<1>2. TypeOK /\ (\A s \in Slots : ~At(s, "returned")) /\ [Next]_vars => (\A s \in Slots : ~At(s, "returned"))'
  BY NoneReturnsUnsettled
<1>3. (\A s \in Slots : ~At(s, "returned")) => FailedDeliveriesAreNacked
  BY DEF FailedDeliveriesAreNacked
<1> QED BY <1>1, <1>2, <1>3, ConsumerTyping, PTL DEF Spec

==============================================================================
