------------------------------- MODULE Consumer -------------------------------
(***************************************************************************)
(* The consuming side of the messaging service: MessagingController with   *)
(* RetryAttemptTrackerService, OutboxTransactionService and                *)
(* RetryPublisherService, the messaging.work / messaging.retry /           *)
(* messaging.dlq queues declared by TopologyService, and DlqConsumerService.*)
(*                                                                         *)
(* A slot is one delivery a process may hold (prefetchCount), a copy one   *)
(* AMQP message of a logical event (eventId).  An action is the code       *)
(* between two awaits.                                                     *)
(***************************************************************************)
EXTENDS Integers, FiniteSets

CONSTANTS Events,        \* logical events, by eventId
          Invalid,       \* the ones whose envelope fails validateEvent()
          Legacy,        \* messages of the 'test-rabbit' pattern
          NoEvent,
          Processes,     \* messaging service processes
          Slots,         \* deliveries they can hold at once
          ProcessOf,     \* the process of each slot
          MaxAttempts,   \* RETRY_CONFIG.MAX_ATTEMPTS
          RecordFails,   \* may recordAttempt() be rejected by the database?
          MaxCopies,     \* bound: times the relay publishes one event
          MaxRequeues,   \* bound: dead letters an operator puts back
          MaxFaults      \* bound: failures of database, broker or process

ASSUME ConsumerAssumption ==
    /\ IsFiniteSet(Slots)
    /\ NoEvent \notin Events
    /\ Invalid \subseteq Events
    /\ Legacy \subseteq Events \ Invalid
    /\ ProcessOf \in [Slots -> Processes]
    /\ MaxAttempts \in Nat \ {0}
    /\ MaxCopies \in Nat /\ MaxRequeues \in Nat /\ MaxFaults \in Nat
    /\ RecordFails \in BOOLEAN

VARIABLES copies,        \* copies the relay has published, per event
          work,          \* copies in messaging.work
          retry,         \* copies in messaging.retry
          dlq,           \* copies in messaging.dlq
          logged,        \* events DlqConsumerService has logged
          rejected,      \* events dropped as invalid
          dlqConsuming,  \* processes whose DLQ consumer is connected
          pc,            \* where the handler in each slot is
          event,         \* the event of each slot's delivery
          live,          \* the delivery is still unacked at the broker
          attempt,       \* durableAttemptCount of each handler
          attempts,      \* event_attempts.attempts, 0 when there is no row
          processed,     \* processed_events
          messages,      \* message rows, each with its MessagePersisted outbox row
          scheduled,     \* history: retry copies scheduled at each durable attempt
          requeues,
          faults

queueVars == <<copies, work, retry, dlq, logged, rejected, dlqConsuming>>
slotVars == <<pc, event, live, attempt>>
tableVars == <<attempts, processed, messages>>
vars == <<queueVars, slotVars, tableVars, scheduled, requeues, faults>>

\* MessagingController handles the event as a contract event.
Contract == Events \ (Invalid \cup Legacy)

\* classifyError(): VALIDATION is raised by no code path of the handler.
ErrorClass == {"TRANSIENT", "PERMANENT"}

NoneQueued == [e \in Events |-> 0]

Init ==
    /\ copies = NoneQueued /\ work = NoneQueued /\ retry = NoneQueued /\ dlq = NoneQueued
    /\ logged = {}
    /\ rejected = {}
    /\ dlqConsuming = Processes
    /\ pc = [s \in Slots |-> "free"]
    /\ event = [s \in Slots |-> NoEvent]
    /\ live = [s \in Slots |-> FALSE]
    /\ attempt = [s \in Slots |-> 0]
    /\ attempts = NoneQueued
    /\ processed = {}
    /\ messages = NoneQueued
    /\ scheduled = [e \in Events |-> [n \in 1..MaxAttempts |-> 0]]
    /\ requeues = 0
    /\ faults = 0

------------------------------------------------------------------------------
\* One more copy of e in queue q; one fewer.
Plus(q, e) == [q EXCEPT ![e] = @ + 1]
Minus(q, e) == [q EXCEPT ![e] = @ - 1]

Fault == faults < MaxFaults /\ faults' = faults + 1

At(s, label) == pc[s] = label
Goto(s, label) == pc' = [pc EXCEPT ![s] = label]

\* Mutant: the handler returns with the delivery unacked.
ReleaseUnacked(s) ==
    /\ Goto(s, "free")
    /\ event' = [event EXCEPT ![s] = NoEvent]
    /\ attempt' = [attempt EXCEPT ![s] = 0]
    /\ UNCHANGED live

\* The broker settles the delivery and the handler returns.
Release(s) ==
    /\ Goto(s, "free")
    /\ event' = [event EXCEPT ![s] = NoEvent]
    /\ attempt' = [attempt EXCEPT ![s] = 0]
    /\ live' = [live EXCEPT ![s] = FALSE]

\* channel.nack(): the delivery goes to queue q, unless its channel is gone
\* and the broker has requeued it already (the call then throws).
Nacked(s, q) == IF live[s] THEN Plus(q, event[s]) ELSE q

\* Mutant: one attempt too many.
IsRetryableOffByOne(s, class) == class = "TRANSIENT" /\ attempt[s] <= MaxAttempts

IsRetryable(s, class) == class = "TRANSIENT" /\ attempt[s] < MaxAttempts

\* Mutant: the original is acked before its retry copy is published.
CatchAcksFirst(s, class) ==
    IF IsRetryable(s, class)
    THEN /\ Goto(s, "publishing")
         /\ live' = [live EXCEPT ![s] = FALSE]
         /\ UNCHANGED <<event, attempt, dlq>>
    ELSE Release(s) /\ dlq' = Nacked(s, dlq)

\* The catch block: schedule a retry, or nack to the dead-letter exchange.
Catch(s, class) ==
    IF IsRetryable(s, class)
    THEN Goto(s, "publishing") /\ UNCHANGED <<event, live, attempt, dlq>>
    ELSE Release(s) /\ dlq' = Nacked(s, dlq)

------------------------------------------------------------------------------
\* The relay publishes the event, for the first time or again.
Arrive(e) ==
    /\ copies[e] < MaxCopies
    /\ copies' = Plus(copies, e)
    /\ work' = Plus(work, e)
    /\ UNCHANGED <<retry, dlq, logged, rejected, dlqConsuming, slotVars, tableVars,
                   scheduled, requeues, faults>>

\* The transport hands a message to a free slot.  The queue is the one
\* TopologyService asks for, with its dead-letter exchange; ServiceProcess has
\* what main.ts's own arguments for it lead to.
Deliver(s, e) ==
    /\ At(s, "free")
    /\ work[e] > 0
    /\ work' = Minus(work, e)
    /\ Goto(s, "received")
    /\ event' = [event EXCEPT ![s] = e]
    /\ live' = [live EXCEPT ![s] = TRUE]
    /\ UNCHANGED <<copies, retry, dlq, logged, rejected, dlqConsuming, attempt, tableVars,
                   scheduled, requeues, faults>>

\* validateEvent() fails: the event is acked and dropped.
RejectInvalid(s) ==
    /\ At(s, "received")
    /\ event[s] \in Invalid
    /\ rejected' = rejected \cup {event[s]}
    /\ Release(s)
    /\ UNCHANGED <<copies, work, retry, dlq, logged, dlqConsuming, tableVars,
                   scheduled, requeues, faults>>

\* recordAttempt(): INSERT ... ON CONFLICT DO UPDATE ... RETURNING attempts.
RecordAttempt(s) ==
    /\ At(s, "received")
    /\ event[s] \in Contract
    /\ attempts' = Plus(attempts, event[s])
    /\ attempt' = [attempt EXCEPT ![s] = attempts[event[s]] + 1]
    /\ Goto(s, "recorded")
    /\ UNCHANGED <<queueVars, event, live, processed, messages, scheduled, requeues, faults>>

\* recordAttempt() rejects, with the row written or not.  It is awaited
\* outside the try block: the handler ends, the delivery stays unacked.
RecordAttemptFails(s) ==
    /\ RecordFails
    /\ Fault
    /\ At(s, "received")
    /\ event[s] \in Contract
    /\ attempts' \in {attempts, Plus(attempts, event[s])}
    /\ Goto(s, "returned")
    /\ UNCHANGED <<queueVars, event, live, attempt, processed, messages, scheduled, requeues>>

\* Mutant: processed_events without its UNIQUE index.
InsertLedgerNotUnique(s) ==
    /\ At(s, "recorded")
    /\ Goto(s, "inTransaction")
    /\ UNCHANGED <<queueVars, event, live, attempt, tableVars, scheduled, requeues, faults>>

\* runIdempotentWithOutboxEvents(): INSERT INTO processed_events.  It waits
\* while another transaction has inserted the key, and finds a duplicate when
\* the key is committed.
InsertLedger(s) ==
    /\ At(s, "recorded")
    /\ \A t \in Slots : At(t, "inTransaction") => event[t] # event[s]
    /\ Goto(s, IF event[s] \in processed THEN "clearing" ELSE "inTransaction")
    /\ UNCHANGED <<queueVars, event, live, attempt, tableVars, scheduled, requeues, faults>>

\* The message row, the MessagePersisted outbox row and the ledger row are
\* committed.
Persist(s) ==
    /\ processed' = processed \cup {event[s]}
    /\ messages' = Plus(messages, event[s])

Commit(s) ==
    /\ At(s, "inTransaction")
    /\ Persist(s)
    /\ Goto(s, "clearing")
    /\ UNCHANGED <<queueVars, event, live, attempt, attempts, scheduled, requeues, faults>>

\* Connecting, a statement or the commit fails and everything is rolled back.
TransactionFails(s) ==
    /\ Fault
    /\ pc[s] \in {"recorded", "inTransaction"}
    /\ \E class \in ErrorClass : Catch(s, class)
    /\ UNCHANGED <<copies, work, retry, logged, rejected, dlqConsuming, tableVars, scheduled, requeues>>

\* The commit is done but its reply is lost.
CommitReplyLost(s) ==
    /\ Fault
    /\ At(s, "inTransaction")
    /\ Persist(s)
    /\ \E class \in ErrorClass : Catch(s, class)
    /\ UNCHANGED <<copies, work, retry, logged, rejected, dlqConsuming, attempts, scheduled, requeues>>

\* clearAttempts(): DELETE FROM event_attempts, after success or a duplicate.
ClearAttempts(s) ==
    /\ At(s, "clearing")
    /\ attempts' = [attempts EXCEPT ![event[s]] = 0]
    /\ Goto(s, "acking")
    /\ UNCHANGED <<queueVars, event, live, attempt, processed, messages, scheduled, requeues, faults>>

\* It fails inside the try block: an event already persisted goes the way of
\* a failed one.
ClearAttemptsFails(s) ==
    /\ Fault
    /\ At(s, "clearing")
    /\ attempts' \in {attempts, [attempts EXCEPT ![event[s]] = 0]}
    /\ \E class \in ErrorClass : Catch(s, class)
    /\ UNCHANGED <<copies, work, retry, logged, rejected, dlqConsuming, processed, messages,
                   scheduled, requeues>>

\* channel.ack(), of no effect when the delivery is no longer live.
Ack(s) ==
    /\ At(s, "acking")
    /\ Release(s)
    /\ UNCHANGED <<queueVars, tableVars, scheduled, requeues, faults>>

\* The broker has stored the retry copy.
Schedule(s) ==
    /\ retry' = Plus(retry, event[s])
    /\ scheduled' = [scheduled EXCEPT ![event[s]] = Plus(@, attempt[s])]

\* publishToRetry() resolves: the copy is confirmed.
PublishToRetry(s) ==
    /\ At(s, "publishing")
    /\ Schedule(s)
    /\ Goto(s, "acking")
    /\ UNCHANGED <<copies, work, dlq, logged, rejected, dlqConsuming, event, live, attempt,
                   tableVars, requeues, faults>>

\* Mutant: publishToRetry() rejects and the handler returns without a nack.
PublishToRetryFailsUnnacked(s) ==
    /\ Fault
    /\ At(s, "publishing")
    /\ Goto(s, "returned")
    /\ UNCHANGED <<queueVars, event, live, attempt, tableVars, scheduled, requeues>>

\* publishToRetry() rejects, with the copy stored by the broker or not: the
\* original is requeued.
PublishToRetryFails(s) ==
    /\ Fault
    /\ At(s, "publishing")
    /\ Schedule(s) \/ UNCHANGED <<retry, scheduled>>
    /\ work' = Nacked(s, work)
    /\ Release(s)
    /\ UNCHANGED <<copies, dlq, logged, rejected, dlqConsuming, tableVars, requeues>>

\* handleTestRabbit(): no ledger; the message is committed, then acked.
HandleTestRabbit(s) ==
    /\ At(s, "received")
    /\ event[s] \in Legacy
    /\ messages' = Plus(messages, event[s])
    /\ Goto(s, "acking")
    /\ UNCHANGED <<queueVars, event, live, attempt, attempts, processed, scheduled, requeues, faults>>

\* Mutant: the failed message is acked.
HandleTestRabbitFailsAcks(s) ==
    /\ Fault
    /\ At(s, "received")
    /\ event[s] \in Legacy
    /\ messages' \in {messages, Plus(messages, event[s])}
    /\ Release(s)
    /\ UNCHANGED <<queueVars, attempts, processed, scheduled, requeues>>

\* handleTestRabbit() fails, its transaction committed or not: nack to the DLQ.
HandleTestRabbitFails(s) ==
    /\ Fault
    /\ At(s, "received")
    /\ event[s] \in Legacy
    /\ messages' \in {messages, Plus(messages, event[s])}
    /\ dlq' = Nacked(s, dlq)
    /\ Release(s)
    /\ UNCHANGED <<copies, work, retry, logged, rejected, dlqConsuming, attempts, processed,
                   scheduled, requeues>>

------------------------------------------------------------------------------
\* The TTL of a copy in messaging.retry ends: dead-lettered to messaging.work.
RetryTtlExpires(e) ==
    /\ retry[e] > 0
    /\ retry' = Minus(retry, e)
    /\ work' = Plus(work, e)
    /\ UNCHANGED <<copies, dlq, logged, rejected, dlqConsuming, slotVars, tableVars,
                   scheduled, requeues, faults>>

\* handleDlqMessage(): logs the dead letter and always acks.
HandleDlqMessage(e) ==
    /\ dlqConsuming # {}
    /\ dlq[e] > 0
    /\ dlq' = Minus(dlq, e)
    /\ logged' = logged \cup {e}
    /\ UNCHANGED <<copies, work, retry, rejected, dlqConsuming, slotVars, tableVars,
                   scheduled, requeues, faults>>

\* An operator moves a dead letter back to messaging.work.
Requeue(e) ==
    /\ requeues < MaxRequeues
    /\ dlq[e] > 0
    /\ dlq' = Minus(dlq, e)
    /\ work' = Plus(work, e)
    /\ requeues' = requeues + 1
    /\ UNCHANGED <<copies, retry, logged, rejected, dlqConsuming, slotVars, tableVars,
                   scheduled, faults>>

\* The live deliveries of process p; the broker requeues them when the
\* channel they came on is gone.
Held(p) == {s \in Slots : ProcessOf[s] = p /\ live[s]}
Requeued(p) == [e \in Events |-> work[e] + Cardinality({s \in Held(p) : event[s] = e})]

\* p loses its connections and its consumer reconnects.  Handlers under way
\* go on with deliveries that are no longer theirs; the DLQ consumer does not
\* come back.
ConnectionLost(p) ==
    /\ Fault
    /\ work' = Requeued(p)
    /\ live' = [s \in Slots |-> live[s] /\ ProcessOf[s] # p]
    /\ LET over == {s \in Slots : ProcessOf[s] = p /\ At(s, "returned")}
       IN  /\ pc' = [s \in Slots |-> IF s \in over THEN "free" ELSE pc[s]]
           /\ event' = [s \in Slots |-> IF s \in over THEN NoEvent ELSE event[s]]
    /\ dlqConsuming' = dlqConsuming \ {p}
    /\ UNCHANGED <<copies, retry, dlq, logged, rejected, attempt, tableVars, scheduled, requeues>>

\* p dies, open transactions are rolled back, and it is started again.
Crash(p) ==
    /\ Fault
    /\ work' = Requeued(p)
    /\ LET mine == {s \in Slots : ProcessOf[s] = p}
       IN  /\ pc' = [s \in Slots |-> IF s \in mine THEN "free" ELSE pc[s]]
           /\ event' = [s \in Slots |-> IF s \in mine THEN NoEvent ELSE event[s]]
           /\ live' = [s \in Slots |-> live[s] /\ s \notin mine]
           /\ attempt' = [s \in Slots |-> IF s \in mine THEN 0 ELSE attempt[s]]
    /\ dlqConsuming' = dlqConsuming \cup {p}
    /\ UNCHANGED <<copies, retry, dlq, logged, rejected, tableVars, scheduled, requeues>>

HandlerStep(s) ==
    \/ RejectInvalid(s)
    \/ RecordAttempt(s)
    \/ RecordAttemptFails(s)
    \/ InsertLedger(s)
    \/ Commit(s)
    \/ TransactionFails(s)
    \/ CommitReplyLost(s)
    \/ ClearAttempts(s)
    \/ ClearAttemptsFails(s)
    \/ Ack(s)
    \/ PublishToRetry(s)
    \/ PublishToRetryFails(s)
    \/ HandleTestRabbit(s)
    \/ HandleTestRabbitFails(s)

Next ==
    \/ \E e \in Events : Arrive(e) \/ RetryTtlExpires(e) \/ HandleDlqMessage(e) \/ Requeue(e)
    \/ \E s \in Slots, e \in Events : Deliver(s, e)
    \/ \E s \in Slots : HandlerStep(s)
    \/ \E p \in Processes : ConnectionLost(p) \/ Crash(p)

Spec == Init /\ [][Next]_vars

\* The event loop runs every handler on, the broker delivers and expires.
Fairness ==
    /\ \A s \in Slots : WF_vars(HandlerStep(s))
    /\ \A e \in Events : WF_vars(\E s \in Slots : Deliver(s, e)) /\ WF_vars(RetryTtlExpires(e))

FairSpec == Spec /\ Fairness

------------------------------------------------------------------------------
QueueTypeOK ==
    /\ copies \in [Events -> Nat]
    /\ work \in [Events -> Nat]
    /\ retry \in [Events -> Nat]
    /\ dlq \in [Events -> Nat]
    /\ logged \subseteq Events
    /\ rejected \subseteq Invalid
    /\ dlqConsuming \subseteq Processes

SlotTypeOK ==
    /\ pc \in [Slots -> {"free", "received", "recorded", "inTransaction", "clearing",
                         "publishing", "acking", "returned"}]
    /\ event \in [Slots -> Events \cup {NoEvent}]
    /\ live \in [Slots -> BOOLEAN]
    /\ attempt \in [Slots -> Nat]
    /\ \A s \in Slots : /\ At(s, "free") <=> event[s] = NoEvent
                        /\ At(s, "free") => ~live[s]

TableTypeOK ==
    /\ attempts \in [Events -> Nat]
    /\ processed \subseteq Events
    /\ messages \in [Events -> Nat]
    /\ scheduled \in [Events -> [1..MaxAttempts -> Nat]]
    /\ requeues \in 0..MaxRequeues
    /\ faults \in 0..MaxFaults

\* Types; a free slot holds no delivery, any other slot has an event.
TypeOK == QueueTypeOK /\ SlotTypeOK /\ TableTypeOK

\* However copies of a contract event are duplicated, redelivered, retried or
\* requeued, and whatever fails in between, it is persisted at most once.
PersistedOnce == \A e \in Contract : messages[e] <= 1

\* Some copy of e is in a queue, or held by a handler that has not yet made it
\* safe to ack.
InCustody(e) ==
    \/ work[e] + retry[e] + dlq[e] > 0
    \/ \E s \in Slots : live[s] /\ event[s] = e /\ ~At(s, "acking")

\* At-least-once: an event the broker accepted is persisted, logged as a dead
\* letter, dropped as invalid, or still in custody.  No crash, lost
\* connection or failed publish leaves it nowhere.
NothingLost ==
    \A e \in Events : copies[e] > 0 => \/ messages[e] > 0
                                       \/ e \in logged
                                       \/ e \in rejected
                                       \/ InCustody(e)

\* The comment on Step 5 of handleMessage(): requeues, redeliveries and
\* concurrent copies do not renew the budget of an event that was never
\* persisted.  Each durable attempt below MAX_ATTEMPTS yields at most one
\* retry copy, a later one none.
RetryBudgetIsDurable ==
    \A e \in Contract \ processed :
        /\ \A n \in 1..(MaxAttempts - 1) : scheduled[e][n] <= 1
        /\ scheduled[e][MaxAttempts] = 0

\* What the proofs need of a handler's position, of the ledger and of the
\* attempt numbers in use.
Stages ==
    \A s \in Slots :
        /\ pc[s] \in {"recorded", "inTransaction", "clearing", "publishing"}
              => event[s] \in Contract /\ attempt[s] > 0
        /\ At(s, "publishing") => attempt[s] < MaxAttempts
        /\ At(s, "clearing") => event[s] \in processed
        /\ At(s, "inTransaction") => event[s] \notin processed

OneTransaction ==
    \A s, t \in Slots : At(s, "inTransaction") /\ At(t, "inTransaction") /\ event[s] = event[t] => s = t

Ledger ==
    /\ processed \subseteq Contract
    /\ \A e \in Contract : messages[e] = IF e \in processed THEN 1 ELSE 0

Pending(s) == pc[s] \in {"recorded", "inTransaction", "publishing"} /\ event[s] \notin processed

AttemptNumbers ==
    /\ \A s \in Slots : Pending(s) => /\ attempt[s] <= attempts[event[s]]
                                      /\ attempt[s] < MaxAttempts => scheduled[event[s]][attempt[s]] = 0
    /\ \A s, t \in Slots :
          Pending(s) /\ Pending(t) /\ event[s] = event[t] /\ attempt[s] = attempt[t] => s = t
    /\ \A e \in Contract \ processed, n \in 1..MaxAttempts : n > attempts[e] => scheduled[e][n] = 0

ConsumerInv == Stages /\ OneTransaction /\ Ledger /\ AttemptNumbers /\ RetryBudgetIsDurable

\* Every event that arrives is in the end persisted, dead-lettered or dropped.
Settled(e) == messages[e] > 0 \/ e \in rejected \/ e \in logged \/ dlq[e] > 0

EventuallySettled == \A e \in Events : copies[e] > 0 ~> Settled(e)

\* The fate of each event as the rest of the platform sees it.  "lost" is a
\* fate that Intake does not know.
FateOf(e) ==
    IF copies[e] = 0 THEN "absent"
    ELSE IF messages[e] > 0 THEN "persisted"
    ELSE IF e \in rejected THEN "dropped"
    ELSE IF e \in logged \/ dlq[e] > 0 THEN "dead"
    ELSE IF InCustody(e) THEN "queued"
    ELSE "lost"

Abstract == INSTANCE Intake WITH fate <- [e \in Events |-> FateOf(e)]

\* All of the above is one implementation of Intake: retries, redeliveries,
\* duplicates and faults never show the platform a persisted event that
\* becomes anything else, a dead one that vanishes, or a lost one.
ImplementsIntake == Abstract!Spec

\* The reliability test of a database outage: a message that cannot be
\* persisted must be nacked into the retry path.  So no handler has ended
\* while the broker still counts its delivery as unacked.
FailedDeliveriesAreNacked == \A s \in Slots : At(s, "returned") => ~live[s]

==============================================================================
