----------------------------- MODULE OutboxRelay -----------------------------
(***************************************************************************)
(* The polling relay of a transactional outbox: OutboxRelayService over    *)
(* outbox_events (messaging) and, line for line the same, over             *)
(* gateway_outbox_events (GatewayOutboxRelayService), together with the    *)
(* operator's replay of OutboxAdminService.                                *)
(*                                                                         *)
(* A tick is one run of runRelayTick().  setInterval starts it without     *)
(* waiting for the previous one, so several ticks of one process overlap,  *)
(* and several processes poll the same table.  Every await is a point      *)
(* where another tick, the reaper, an operator or a crash may come in:     *)
(* each step between two awaits is one action here.                        *)
(*                                                                         *)
(* Time.  next_retry_at and locked_at are abstracted to what the queries   *)
(* compare: "due" lists the rows whose next_retry_at has passed, oldest    *)
(* first, and a lock is fresh until its TTL elapses.                       *)
(***************************************************************************)
EXTENDS Integers, Sequences, FiniteSets, SequencesExt, RetryPolicy

CONSTANTS Rows,          \* outbox row ids
          Instances,     \* relay processes
          Ticks,         \* ticks that may run at the same time
          InstanceOf,    \* the process each tick runs in
          BatchSize,     \* OUTBOX_BATCH_SIZE
          MaxAttempts,   \* the max_attempts column
          LockTtlElapses,\* may a lock outlive OUTBOX_LOCK_TTL_MS?
          LoseReplies,   \* may a statement commit and its reply be lost?
          MaxLockVersion,\* bound: claims of one row
          MaxOvertaking, \* assumption: from this claim on, ticks leave a row alone
                         \* that another one still holds
          MaxFaults,     \* bound: crashes, shutdowns and database errors
          MaxReplays,    \* bound: operator replays
          NoClaim        \* a tick with no current row

ClaimedRow == [id : Rows, attempts : Nat, lock_version : Nat]
Token == Rows \X Nat

ASSUME RelayAssumption ==
    /\ IsFiniteSet(Rows)
    /\ InstanceOf \in [Ticks -> Instances]
    /\ BatchSize \in Nat \ {0}
    /\ MaxAttempts \in Nat \ {0}
    /\ LockTtlElapses \in BOOLEAN
    /\ LoseReplies \in BOOLEAN
    /\ NoClaim \notin ClaimedRow

VARIABLES status,        \* outbox_events.status; "absent": not inserted yet
          attempts,      \* outbox_events.attempts
          lock_version,  \* outbox_events.lock_version, the fencing token
          locked_at,     \* "null", "fresh" or "stale" (older than the TTL)
          due,           \* rows with next_retry_at <= now(), oldest first
          pc,            \* where each tick is
          selected,      \* rows a tick's claim statement holds row locks on
          batch,         \* claimed rows a tick has not finished
          cur,           \* the claimed row a tick is publishing
          wire,          \* publishes written to a channel, not yet at the broker
          stored,        \* publishes the broker has taken charge of
          mode,          \* each process: "running", "stopping" or "down"
          faults,        \* faults so far
          replays        \* replays so far

table == <<status, attempts, lock_version, locked_at, due>>
local == <<pc, selected, batch, cur>>
broker == <<wire, stored>>
vars == <<table, local, broker, mode, faults, replays>>

------------------------------------------------------------------------------
Position(s, r) == CHOOSE i \in 1..Len(s) : s[i] = r

Without(s, r) == IF Contains(s, r) THEN RemoveAt(s, Position(s, r)) ELSE s

TokenOf(c) == <<c.id, c.lock_version>>

RowLocked == UNION {selected[t] : t \in Ticks}

\* The compare-and-swap WHERE id = $1 AND lock_version = $2.  It waits for
\* the row lock of a claim statement that is still running.
CasReady(c) == c.id \notin RowLocked

StillOwned(c) == lock_version[c.id] = c.lock_version

Fault == faults < MaxFaults /\ faults' = faults + 1

\* The process of instance i dies: its ticks vanish wherever they were.
Kill(i) ==
    /\ mode' = [mode EXCEPT ![i] = "down"]
    /\ pc' = [t \in Ticks |-> IF InstanceOf[t] = i THEN "idle" ELSE pc[t]]
    /\ selected' = [t \in Ticks |-> IF InstanceOf[t] = i THEN {} ELSE selected[t]]
    /\ batch' = [t \in Ticks |-> IF InstanceOf[t] = i THEN {} ELSE batch[t]]
    /\ cur' = [t \in Ticks |-> IF InstanceOf[t] = i THEN NoClaim ELSE cur[t]]

\* publishOne() returned: the for loop goes to the next row or ends.
FinishRow(t) ==
    LET left == batch[t] \ {cur[t]}
    IN  /\ batch' = [batch EXCEPT ![t] = left]
        /\ cur' = [cur EXCEPT ![t] = NoClaim]
        /\ pc' = [pc EXCEPT ![t] = IF left = {} THEN "idle" ELSE "publish"]
        /\ UNCHANGED selected

------------------------------------------------------------------------------
Init ==
    /\ status = [r \in Rows |-> "absent"]
    /\ attempts = [r \in Rows |-> 0]
    /\ lock_version = [r \in Rows |-> 0]
    /\ locked_at = [r \in Rows |-> "null"]
    /\ due = << >>
    /\ pc = [t \in Ticks |-> "idle"]
    /\ selected = [t \in Ticks |-> {}]
    /\ batch = [t \in Ticks |-> {}]
    /\ cur = [t \in Ticks |-> NoClaim]
    /\ wire = {}
    /\ stored = {}
    /\ mode = [i \in Instances |-> "running"]
    /\ faults = 0
    /\ replays = 0

\* insertOutboxEvents() as its transaction commits: column defaults.
InsertRow(r) ==
    /\ status[r] = "absent"
    /\ status' = [status EXCEPT ![r] = "pending"]
    /\ due' = Append(due, r)
    /\ UNCHANGED <<attempts, lock_version, locked_at, local, broker, mode, faults, replays>>

\* Mutant: nextRetryAt is an invalid date, stored as NULL, so that no claim finds
\* a row with a recorded failure.
RetryTimeIsNull(r) ==
    /\ status[r] = "pending"
    /\ attempts[r] = 0
    /\ ~Contains(due, r)
    /\ due' = Append(due, r)
    /\ UNCHANGED <<status, attempts, lock_version, locked_at, local, broker, mode, faults, replays>>

\* The back-off of a failed attempt is over: next_retry_at <= now().
RetryTimePasses(r) ==
    /\ status[r] = "pending"
    /\ ~Contains(due, r)
    /\ due' = Append(due, r)
    /\ UNCHANGED <<status, attempts, lock_version, locked_at, local, broker, mode, faults, replays>>

\* OUTBOX_LOCK_TTL_MS passes since locked_at.
LockTtlPasses(r) ==
    /\ LockTtlElapses
    /\ locked_at[r] = "fresh"
    /\ locked_at' = [locked_at EXCEPT ![r] = "stale"]
    /\ UNCHANGED <<status, attempts, lock_version, due, local, broker, mode, faults, replays>>

------------------------------------------------------------------------------
\* Some tick claimed the row and has not finished with it.
Held(r) == \E t \in Ticks : \E c \in batch[t] : c.id = r

\* claimBatch(): WHERE status = 'pending' AND next_retry_at <= now(), minus
\* the rows SKIP LOCKED passes over.  locked_at is not looked at: a row that a
\* tick holds is claimed again, without end in the code, up to MaxOvertaking
\* here.
Claimable == {r \in Rows \ RowLocked :
                 /\ status[r] = "pending"
                 /\ Contains(due, r)
                 /\ lock_version[r] < MaxLockVersion
                 /\ lock_version[r] < MaxOvertaking \/ ~Held(r)}

\* ORDER BY next_retry_at ASC LIMIT batch.
OldestFirst(S) ==
    /\ S \subseteq Claimable
    /\ Cardinality(S) <= BatchSize
    /\ \A r \in Claimable \ S :
          /\ Cardinality(S) = BatchSize
          /\ \A q \in S : Position(due, q) < Position(due, r)

\* The timer fires: the claim statement selects its rows and locks them.
ClaimSelect(t) ==
    /\ mode[InstanceOf[t]] = "running"
    /\ pc[t] = "idle"
    /\ \E S \in SUBSET Claimable :
          /\ OldestFirst(S)
          /\ selected' = [selected EXCEPT ![t] = S]
    /\ pc' = [pc EXCEPT ![t] = "claiming"]
    /\ UNCHANGED <<table, batch, cur, broker, mode, faults, replays>>

\* The UPDATE of the selected rows: a new fencing token for each.
BumpSelected(t) ==
    /\ lock_version' = [r \in Rows |-> IF r \in selected[t] THEN lock_version[r] + 1
                                                             ELSE lock_version[r]]
    /\ locked_at' = [r \in Rows |-> IF r \in selected[t] THEN "fresh" ELSE locked_at[r]]
    /\ UNCHANGED <<status, attempts, due>>

\* Mutant: the claim forgets lock_version = lock_version + 1.
ClaimReturnsNoBump(t) ==
    /\ pc[t] = "claiming"
    /\ locked_at' = [r \in Rows |-> IF r \in selected[t] THEN "fresh" ELSE locked_at[r]]
    /\ batch' = [batch EXCEPT ![t] =
          {[id |-> r, attempts |-> attempts[r], lock_version |-> lock_version[r]] :
              r \in selected[t]}]
    /\ selected' = [selected EXCEPT ![t] = {}]
    /\ pc' = [pc EXCEPT ![t] = IF selected[t] = {} THEN "idle" ELSE "publish"]
    /\ UNCHANGED <<status, attempts, lock_version, due, cur, broker, mode, faults, replays>>

\* Mutant: runRelayTick() forgets the early return on an empty batch.
ClaimReturnsNoEmptyCheck(t) ==
    /\ pc[t] = "claiming"
    /\ BumpSelected(t)
    /\ batch' = [batch EXCEPT ![t] =
          {[id |-> r, attempts |-> attempts[r], lock_version |-> lock_version[r] + 1] :
              r \in selected[t]}]
    /\ selected' = [selected EXCEPT ![t] = {}]
    /\ pc' = [pc EXCEPT ![t] = "publish"]
    /\ UNCHANGED <<cur, broker, mode, faults, replays>>

\* The claim commits and RETURNING hands the rows to the tick.
ClaimReturns(t) ==
    /\ pc[t] = "claiming"
    /\ BumpSelected(t)
    /\ batch' = [batch EXCEPT ![t] =
          {[id |-> r, attempts |-> attempts[r], lock_version |-> lock_version[r] + 1] :
              r \in selected[t]}]
    /\ selected' = [selected EXCEPT ![t] = {}]
    /\ pc' = [pc EXCEPT ![t] = IF selected[t] = {} THEN "idle" ELSE "publish"]
    /\ UNCHANGED <<cur, broker, mode, faults, replays>>

\* The claim statement errors and is rolled back: logged, the tick ends.
ClaimFails(t) ==
    /\ pc[t] = "claiming"
    /\ Fault
    /\ selected' = [selected EXCEPT ![t] = {}]
    /\ pc' = [pc EXCEPT ![t] = "idle"]
    /\ UNCHANGED <<table, batch, cur, broker, mode, replays>>

\* The claim commits but the tick sees a connection error instead of rows.
ClaimReplyLost(t) ==
    /\ LoseReplies
    /\ pc[t] = "claiming"
    /\ Fault
    /\ BumpSelected(t)
    /\ selected' = [selected EXCEPT ![t] = {}]
    /\ pc' = [pc EXCEPT ![t] = "idle"]
    /\ UNCHANGED <<batch, cur, broker, mode, replays>>

------------------------------------------------------------------------------
\* publishOne(): the next row of the batch (RETURNING promises no order), a
\* channel, and ch.publish().  next is "confirming" when publish() returned
\* true; "markFailed" when it returned false for back-pressure, although the
\* message is in the write buffer all the same.
Publish(t, next) ==
    /\ pc[t] = "publish"
    /\ \E c \in batch[t] :
          /\ cur' = [cur EXCEPT ![t] = c]
          /\ wire' = wire \cup {TokenOf(c)}
    /\ pc' = [pc EXCEPT ![t] = next]
    /\ UNCHANGED <<table, selected, batch, stored, mode, faults, replays>>

\* publishOne(): getChannel() rejects or publish() throws.
PublishThrows(t) ==
    /\ pc[t] = "publish"
    /\ \E c \in batch[t] : cur' = [cur EXCEPT ![t] = c]
    /\ pc' = [pc EXCEPT ![t] = "markFailed"]
    /\ UNCHANGED <<table, selected, batch, broker, mode, faults, replays>>

\* RabbitMQ takes a publish: it is durable in every queue the exchange routes it
\* to.  Publishes carry no mandatory flag, so there may be none (see Platform).
BrokerStores(k) ==
    /\ k \in wire
    /\ wire' = wire \ {k}
    /\ stored' = stored \cup {k}
    /\ UNCHANGED <<table, local, mode, faults, replays>>

\* RabbitMQ nacks a publish, or the connection dies with it.
BrokerLoses(k) ==
    /\ k \in wire
    /\ wire' = wire \ {k}
    /\ UNCHANGED <<table, local, stored, mode, faults, replays>>

\* Mutant: markSent() follows a true from publish() at once.
ConfirmNotAwaited(t) ==
    /\ pc[t] = "confirming"
    /\ pc' = [pc EXCEPT ![t] = "markSent"]
    /\ UNCHANGED <<table, selected, batch, cur, broker, mode, faults, replays>>

\* waitForConfirms() resolves: the broker has taken every publish of the channel.
ConfirmResolves(t) ==
    /\ pc[t] = "confirming"
    /\ TokenOf(cur[t]) \in stored
    /\ pc' = [pc EXCEPT ![t] = "markSent"]
    /\ UNCHANGED <<table, selected, batch, cur, broker, mode, faults, replays>>

\* waitForConfirms() rejects: it waits for the whole channel, so this publish
\* was nacked, or another one was, or the connection died, before or after the
\* broker took this message.
ConfirmRejects(t) ==
    /\ pc[t] = "confirming"
    /\ pc' = [pc EXCEPT ![t] = "markFailed"]
    /\ UNCHANGED <<table, selected, batch, cur, broker, mode, faults, replays>>

------------------------------------------------------------------------------
\* The UPDATE of markSent().
ApplySent(c) ==
    IF StillOwned(c)
    THEN /\ status' = [status EXCEPT ![c.id] = "sent"]
         /\ locked_at' = [locked_at EXCEPT ![c.id] = "null"]
         /\ UNCHANGED <<attempts, lock_version, due>>
    ELSE UNCHANGED table

\* markSent(): sent, or fenced off and only logged.
MarkSent(t) ==
    /\ pc[t] = "markSent"
    /\ CasReady(cur[t])
    /\ ApplySent(cur[t])
    /\ FinishRow(t)
    /\ UNCHANGED <<broker, mode, faults, replays>>

\* The statement of markSent() errors: publishOne()'s catch takes over.
MarkSentFails(t) ==
    /\ pc[t] = "markSent"
    /\ Fault
    /\ pc' = [pc EXCEPT ![t] = "markFailed"]
    /\ UNCHANGED <<table, selected, batch, cur, broker, mode, replays>>

\* markSent() commits, its reply is lost, and the catch takes over.
MarkSentReplyLost(t) ==
    /\ LoseReplies
    /\ pc[t] = "markSent"
    /\ CasReady(cur[t])
    /\ Fault
    /\ ApplySent(cur[t])
    /\ pc' = [pc EXCEPT ![t] = "markFailed"]
    /\ UNCHANGED <<selected, batch, cur, broker, mode, replays>>

\* Mutant: markFailedAttempt() without AND lock_version = $6.
ApplyFailedAttemptNoCas(c) ==
    LET outcome == computeFailureOutcome(c.attempts, MaxAttempts)
    IN  /\ status' = [status EXCEPT ![c.id] =
                IF outcome.action = "dead-letter" THEN "failed" ELSE "pending"]
        /\ attempts' = [attempts EXCEPT ![c.id] = outcome.newAttempts]
        /\ locked_at' = [locked_at EXCEPT ![c.id] = "null"]
        /\ due' = Without(due, c.id)
        /\ UNCHANGED lock_version

\* The UPDATE of markFailedAttempt(): the outcome is computed from the
\* attempts read at claim time.  A retry is due only after its back-off.
ApplyFailedAttempt(c) ==
    LET outcome == computeFailureOutcome(c.attempts, MaxAttempts)
    IN  IF StillOwned(c)
        THEN /\ status' = [status EXCEPT ![c.id] =
                    IF outcome.action = "dead-letter" THEN "failed" ELSE "pending"]
             /\ attempts' = [attempts EXCEPT ![c.id] = outcome.newAttempts]
             /\ locked_at' = [locked_at EXCEPT ![c.id] = "null"]
             /\ due' = Without(due, c.id)
             /\ UNCHANGED lock_version
        ELSE UNCHANGED table

MarkFailedAttempt(t) ==
    /\ pc[t] = "markFailed"
    /\ CasReady(cur[t])
    /\ ApplyFailedAttempt(cur[t])
    /\ FinishRow(t)
    /\ UNCHANGED <<broker, mode, faults, replays>>

\* The statement of markFailedAttempt() errors.  Nothing catches it: the
\* rejection leaves publishOne() and the void runRelayTick(), and an unhandled
\* rejection ends the process, with every other tick in it.
MarkFailedAttemptFails(t) ==
    /\ pc[t] = "markFailed"
    /\ Fault
    /\ Kill(InstanceOf[t])
    /\ UNCHANGED <<table, broker, replays>>

\* As above, the statement having committed.
MarkFailedAttemptReplyLost(t) ==
    /\ LoseReplies
    /\ pc[t] = "markFailed"
    /\ CasReady(cur[t])
    /\ Fault
    /\ ApplyFailedAttempt(cur[t])
    /\ Kill(InstanceOf[t])
    /\ UNCHANGED <<broker, replays>>

------------------------------------------------------------------------------
\* reapStaleLocks(): an error is logged and changes nothing.
ReapStaleLocks(i) ==
    /\ mode[i] = "running"
    /\ \E r \in Rows \ RowLocked : status[r] = "pending" /\ locked_at[r] = "stale"
    /\ locked_at' = [r \in Rows |->
          IF r \notin RowLocked /\ status[r] = "pending" /\ locked_at[r] = "stale"
          THEN "null" ELSE locked_at[r]]
    /\ UNCHANGED <<status, attempts, lock_version, due, local, broker, mode, faults, replays>>

\* Mutant: the replay without its status = 'failed' guard.
ReplayNoGuard(R, order) ==
    /\ \A r \in R : status[r] # "absent"
    /\ status' = [r \in Rows |-> IF r \in R THEN "pending" ELSE status[r]]
    /\ attempts' = [r \in Rows |-> IF r \in R THEN 0 ELSE attempts[r]]
    /\ locked_at' = [r \in Rows |-> IF r \in R THEN "null" ELSE locked_at[r]]
    /\ due' = due \o order
    /\ replays < MaxReplays
    /\ replays' = replays + 1
    /\ UNCHANGED <<lock_version, local, broker, mode, faults>>

\* The UPDATE of a replay, over failed rows only; the fencing token stays.
\* The rows become due together; ties of next_retry_at come in any order.
Replay(R, order) ==
    /\ \A r \in R : status[r] = "failed"
    /\ status' = [r \in Rows |-> IF r \in R THEN "pending" ELSE status[r]]
    /\ attempts' = [r \in Rows |-> IF r \in R THEN 0 ELSE attempts[r]]
    /\ locked_at' = [r \in Rows |-> IF r \in R THEN "null" ELSE locked_at[r]]
    /\ due' = due \o order
    /\ replays < MaxReplays
    /\ replays' = replays + 1
    /\ UNCHANGED <<lock_version, local, broker, mode, faults>>

\* OutboxAdminService.replayById(); NotFoundException unless failed.
ReplayById(r) == Replay({r}, <<r>>)

\* OutboxAdminService.replayAllFailed(): all failed rows, or all of one type.
ReplayAllFailed ==
    \E R \in SUBSET {r \in Rows : status[r] = "failed"} :
        \E order \in SetToSeqs(R) : R # {} /\ Replay(R, order)

\* onModuleDestroy(): the timers stop, the channel closes, ticks in flight
\* are not awaited.
ModuleDestroy(i) ==
    /\ mode[i] = "running"
    /\ Fault
    /\ mode' = [mode EXCEPT ![i] = "stopping"]
    /\ UNCHANGED <<table, local, broker, replays>>

\* A stopping process exits, or any process crashes.
Exit(i) ==
    /\ \/ mode[i] = "stopping" /\ UNCHANGED faults
       \/ mode[i] = "running" /\ Fault
    /\ Kill(i)
    /\ UNCHANGED <<table, broker, replays>>

\* The process starts again: onModuleInit() sets the timers.
ModuleInit(i) ==
    /\ mode[i] = "down"
    /\ mode' = [mode EXCEPT ![i] = "running"]
    /\ UNCHANGED <<table, local, broker, faults, replays>>

------------------------------------------------------------------------------
TickStep(t) ==
    \/ ClaimSelect(t)
    \/ ClaimReturns(t)
    \/ \E next \in {"confirming", "markFailed"} : Publish(t, next)
    \/ PublishThrows(t)
    \/ ConfirmResolves(t)
    \/ ConfirmRejects(t)
    \/ MarkSent(t)
    \/ MarkFailedAttempt(t)

DatabaseError(t) ==
    \/ ClaimFails(t)
    \/ ClaimReplyLost(t)
    \/ MarkSentFails(t)
    \/ MarkSentReplyLost(t)
    \/ MarkFailedAttemptFails(t)
    \/ MarkFailedAttemptReplyLost(t)

Next ==
    \/ \E r \in Rows : InsertRow(r) \/ RetryTimePasses(r) \/ LockTtlPasses(r)
    \/ \E t \in Ticks : TickStep(t) \/ DatabaseError(t)
    \/ \E k \in wire : BrokerStores(k) \/ BrokerLoses(k)
    \/ \E r \in Rows : ReplayById(r)
    \/ ReplayAllFailed
    \/ \E i \in Instances : ReapStaleLocks(i) \/ ModuleDestroy(i) \/ Exit(i) \/ ModuleInit(i)

Spec == Init /\ [][Next]_vars

------------------------------------------------------------------------------
\* Fairness: timers keep firing, statements and AMQP calls settle (a dead
\* connection is detected by heartbeats), back-offs end, processes restart.
\* Nothing is assumed about how a publish turns out.
Fairness ==
    /\ \A t \in Ticks : WF_vars(TickStep(t))
    /\ \A r \in Rows : WF_vars(RetryTimePasses(r))
    /\ \A i \in Instances :
          /\ WF_vars(mode[i] = "stopping" /\ Exit(i))
          /\ WF_vars(ModuleInit(i))

FairSpec == Spec /\ Fairness

------------------------------------------------------------------------------
TableTypeOK ==
    /\ status \in [Rows -> {"absent", "pending", "sent", "failed"}]
    /\ attempts \in [Rows -> Nat]
    /\ lock_version \in [Rows -> Nat]
    /\ locked_at \in [Rows -> {"null", "fresh", "stale"}]
    /\ due \in Seq(Rows)

LocalTypeOK ==
    /\ pc \in [Ticks -> {"idle", "claiming", "publish", "confirming", "markSent", "markFailed"}]
    /\ selected \in [Ticks -> SUBSET Rows]
    /\ batch \in [Ticks -> SUBSET ClaimedRow]
    /\ cur \in [Ticks -> ClaimedRow \cup {NoClaim}]
    /\ \A t \in Ticks :
          /\ pc[t] \in {"idle", "claiming"} => batch[t] = {}
          /\ pc[t] = "publish" => batch[t] # {}
          /\ pc[t] \in {"confirming", "markSent", "markFailed"} => cur[t] \in batch[t]

RestTypeOK ==
    /\ wire \subseteq Token
    /\ stored \subseteq Token
    /\ mode \in [Instances -> {"running", "stopping", "down"}]
    /\ faults \in Nat
    /\ replays \in Nat

\* Every variable has its type, and the for loop of runRelayTick() always has
\* the row it is working on.
TypeOK == TableTypeOK /\ LocalTypeOK /\ RestTypeOK

\* publishOne(), Requirement 1: a row is marked sent only once the broker has
\* confirmed the very publish its last claimant made, whatever crashes, nacks,
\* lost replies and competing claims happened on the way.
SentOnlyAfterConfirm ==
    \A r \in Rows : status[r] = "sent" => <<r, lock_version[r]>> \in stored

\* Requirement 2: of all the ticks that ever claimed a row, overlapping ones
\* included, at most one holds the fencing token that markSent() and
\* markFailedAttempt() accept.
OneOwner ==
    \A t, u \in Ticks : \A c \in batch[t], d \in batch[u] :
        c.id = d.id /\ StillOwned(c) /\ StillOwned(d) => t = u

\* computeFailureOutcome() works on the attempts read at claim time: a
\* claimant whose write would still be accepted has not read a stale count.
OwnerReadCurrentAttempts ==
    \A t \in Ticks : \A c \in batch[t] : StillOwned(c) => c.attempts = attempts[c.id]

\* The retry budget is exact: a row is failed when and only when max_attempts
\* failures have been recorded since it was inserted or last replayed.
RetryBudget ==
    \A r \in Rows : /\ status[r] = "failed" <=> attempts[r] = MaxAttempts
                    /\ attempts[r] <= MaxAttempts

\* A row changes its recorded attempts only one failure at a time; only an
\* operator's replay of a failed row starts again from zero.
NoLostFailure ==
    [][\A r \in Rows : \/ attempts'[r] \in {attempts[r], attempts[r] + 1}
                       \/ status[r] = "failed" /\ status'[r] = "pending" /\ attempts'[r] = 0]_vars

\* A sent row stays sent: no slow claimant, reaper or replay takes it back.
SentIsFinal ==
    [][\A r \in Rows : status[r] = "sent" => status'[r] = "sent"]_vars

\* Every committed row is eventually sent, or failed for an operator to see,
\* through crashes, broker outages, database errors and claims that fence off
\* the tick at work on it, provided such claims end (MaxOvertaking): ticks that
\* outrun each other for ever settle nothing, in the code as well.
EventuallySettled ==
    \A r \in Rows : status[r] = "pending" ~> status[r] \in {"sent", "failed"}

\* All of the above is one implementation of an outbox: whatever ticks, tokens
\* and processes do, a caller sees rows go from pending to sent after a
\* delivery, or to failed, and back only by a replay.
Abstract == INSTANCE Outbox WITH delivered <- {k[1] : k \in stored}, MayForget <- LoseReplies

ImplementsOutbox == Abstract!Spec

\* The README on a RabbitMQ outage: rows stay pending until the broker is back.
OutageLeavesRowsPending == \A r \in Rows : status[r] # "failed"

\* The class comment of OutboxRelayService: each instance "acquires a disjoint
\* batch" and "no row is published twice".
DisjointBatches ==
    \A t, u \in Ticks : \A c \in batch[t], d \in batch[u] : c.id = d.id => t = u

==============================================================================
