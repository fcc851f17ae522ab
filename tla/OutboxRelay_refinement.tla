------------------------ MODULE OutboxRelay_refinement ------------------------
(***************************************************************************)
(* OutboxRelay implements Outbox, for any number of rows, processes and    *)
(* overlapping ticks.                                                      *)
(***************************************************************************)
EXTENDS OutboxRelay_proofs

\* The rows that ticks hold and that are on the wire have been inserted.
RowsExist ==
    /\ \A k \in wire : status[k[1]] # "absent"
    /\ \A t \in Ticks : \A c \in batch[t] : status[c.id] # "absent"

Delivered == {k[1] : k \in stored}

\* The claimed rows are rows, and a tick that publishes has one in its batch.
LEMMA ClaimFacts ==
    ASSUME TypeOK
    PROVE  \A t \in Ticks :
              /\ \A c \in batch[t] : c \in ClaimedRow /\ c.id \in Rows /\ TokenOf(c)[1] = c.id
              /\ pc[t] \in {"confirming", "markSent", "markFailed"} => cur[t] \in batch[t]
BY DEF TypeOK, LocalTypeOK, ClaimedRow, TokenOf

\* markSent(), seen from outside: the row is marked after a delivery, or
\* nothing happens.
LEMMA MarkSentMaps ==
    ASSUME TypeOK, RelayInv, NEW t \in Ticks, pc[t] = "markSent", ApplySent(cur[t]),
           stored' = stored
    PROVE  [Abstract!Next]_(Abstract!vars)
<1> DEFINE c == cur[t]
<1>1. c \in batch[t] /\ c \in ClaimedRow /\ c.id \in Rows /\ TokenOf(c)[1] = c.id
  BY ClaimFacts
<1>2. CASE StillOwned(c)
  <2>1. status' = [status EXCEPT ![c.id] = "sent"]
    BY <1>2 DEF ApplySent
  <2>2. c.id \in Delivered
    BY <1>1 DEF RelayInv, ConfirmedBeforeMark, Delivered
  <2>3. status[c.id] \in {"pending", "sent"}
    BY <1>1, <1>2 DEF RelayInv, OwnerFacts
  <2>4. CASE status[c.id] = "pending"
    <3>1. Abstract!MarkSent(c.id)
      BY <2>1, <2>2, <2>4 DEF Abstract!MarkSent, Delivered
    <3> QED BY <1>1, <3>1 DEF Abstract!Next, Abstract!RowStep
  <2>5. CASE status[c.id] = "sent"
    <3>1. status' = status
      BY <1>1, <2>1, <2>5 DEF TypeOK, TableTypeOK
    <3> QED BY <3>1 DEF Abstract!vars
  <2> QED BY <2>3, <2>4, <2>5
<1>3. CASE ~StillOwned(c)
  BY <1>3 DEF ApplySent, table, Abstract!vars
<1> QED BY <1>2, <1>3

\* markFailedAttempt(), seen from outside: the row is given up, or what
\* markSent() had committed is taken back, or nothing happens.
LEMMA MarkFailedMaps ==
    ASSUME TypeOK, RelayInv, NEW t \in Ticks, pc[t] = "markFailed", ApplyFailedAttempt(cur[t]),
           stored' = stored
    PROVE  [Abstract!Next]_(Abstract!vars)
<1> DEFINE c == cur[t]
           s == IF computeFailureOutcome(c.attempts, MaxAttempts).action = "dead-letter"
                THEN "failed" ELSE "pending"
<1>1. c \in batch[t] /\ c \in ClaimedRow /\ c.id \in Rows
  BY ClaimFacts
<1>2. CASE StillOwned(c)
  <2>1. status' = [status EXCEPT ![c.id] = s]
    BY <1>2 DEF ApplyFailedAttempt
  <2>2. s \in {"pending", "failed"}
    OBVIOUS
  <2> HIDE DEF s
  <2>3. status[c.id] = "pending" \/ (LoseReplies /\ status[c.id] = "sent")
    BY <1>1, <1>2 DEF RelayInv, OwnerFacts
  <2>4. CASE status[c.id] = "pending" /\ s = "pending"
    <3>1. status' = status
      BY <1>1, <2>1, <2>4 DEF TypeOK, TableTypeOK
    <3> QED BY <3>1 DEF Abstract!vars
  <2>5. CASE status[c.id] = "pending" /\ s = "failed"
    <3>1. Abstract!GiveUp(c.id)
      BY <2>1, <2>5 DEF Abstract!GiveUp
    <3> QED BY <1>1, <3>1 DEF Abstract!Next, Abstract!RowStep
  <2>6. CASE LoseReplies /\ status[c.id] = "sent"
    <3>1. Abstract!TakeBack(c.id)
      BY <2>1, <2>2, <2>6 DEF Abstract!TakeBack
    <3> QED BY <1>1, <3>1 DEF Abstract!Next, Abstract!RowStep
  <2> QED BY <2>2, <2>3, <2>4, <2>5, <2>6
<1>3. CASE ~StillOwned(c)
  BY <1>3 DEF ApplyFailedAttempt, table, Abstract!vars
<1> QED BY <1>2, <1>3

\* Every step of the relay is a step of the outbox, or changes nothing its
\* callers see.
LEMMA StepMaps == TypeOK /\ RelayInv /\ RowsExist /\ [Next]_vars => [Abstract!Next]_(Abstract!vars)
<1> SUFFICES ASSUME TypeOK, RelayInv, RowsExist, [Next]_vars
             PROVE  [Abstract!Next]_(Abstract!vars)
  OBVIOUS
<1> DEFINE Goal == [Abstract!Next]_(Abstract!vars)
<1>0. ASSUME status' = status, stored' = stored PROVE Goal
  BY <1>0 DEF Abstract!vars
<1>1. ASSUME NEW r \in Rows, InsertRow(r) PROVE Goal
  <2>1. Abstract!Insert(r)
    BY <1>1 DEF InsertRow, Abstract!Insert, broker
  <2> QED BY <2>1 DEF Abstract!Next, Abstract!RowStep
<1>2. ASSUME NEW k \in wire, BrokerStores(k) PROVE Goal
  <2>1. k[1] \in Rows /\ status[k[1]] # "absent"
    BY DEF TypeOK, RestTypeOK, Token, RowsExist
  <2>2. Delivered' = Delivered \cup {k[1]} /\ status' = status
    BY <1>2 DEF BrokerStores, table, Delivered
  <2>3. Abstract!Deliver(k[1])
    BY <2>1, <2>2 DEF Abstract!Deliver, Delivered
  <2> QED BY <2>1, <2>3 DEF Abstract!Next, Abstract!RowStep
<1>3. ASSUME NEW t \in Ticks, MarkSent(t) \/ MarkSentReplyLost(t) PROVE Goal
  BY <1>3, MarkSentMaps DEF MarkSent, MarkSentReplyLost, broker
<1>4. ASSUME NEW t \in Ticks, MarkFailedAttempt(t) \/ MarkFailedAttemptReplyLost(t) PROVE Goal
  BY <1>4, MarkFailedMaps DEF MarkFailedAttempt, MarkFailedAttemptReplyLost, broker
<1>5. ASSUME NEW R \in SUBSET Rows, NEW order, R # {}, Replay(R, order) PROVE Goal
  <2>1. Abstract!Replay(R)
    BY <1>5 DEF Replay, Abstract!Replay, broker
  <2> QED BY <2>1 DEF Abstract!Next
<1> HIDE DEF Goal
<1>6. ASSUME (\E q \in Rows : ReplayById(q)) \/ ReplayAllFailed PROVE Goal
  BY <1>5, <1>6 DEF ReplayById, ReplayAllFailed
<1>7. ASSUME NEW t \in Ticks,
             \/ ClaimSelect(t) \/ ClaimReturns(t) \/ PublishThrows(t) \/ ConfirmResolves(t)
             \/ ConfirmRejects(t) \/ ClaimFails(t) \/ ClaimReplyLost(t) \/ MarkSentFails(t)
             \/ MarkFailedAttemptFails(t) \/ \E next \in {"confirming", "markFailed"} : Publish(t, next)
      PROVE status' = status /\ stored' = stored
  BY <1>7 DEF ClaimSelect, ClaimReturns, PublishThrows, ConfirmResolves, ConfirmRejects, ClaimFails,
     ClaimReplyLost, MarkSentFails, MarkFailedAttemptFails, Publish, BumpSelected, table, broker
<1>8. ASSUME \/ \E q \in Rows : RetryTimePasses(q) \/ LockTtlPasses(q)
             \/ \E k \in wire : BrokerLoses(k)
             \/ \E i \in Instances : ReapStaleLocks(i) \/ ModuleDestroy(i) \/ Exit(i) \/ ModuleInit(i)
             \/ UNCHANGED vars
      PROVE status' = status /\ stored' = stored
  BY <1>8 DEF RetryTimePasses, LockTtlPasses, BrokerLoses, ReapStaleLocks,
     ModuleDestroy, Exit, ModuleInit, vars, table, broker
<1>9. Goal
  BY <1>0, <1>1, <1>2, <1>3, <1>4, <1>6, <1>7, <1>8 DEF Next, TickStep, DatabaseError
<1> QED BY <1>9 DEF Goal

------------------------------------------------------------------------------
\* A row that was inserted is never absent again.
LEMMA InsertedStays ==
    ASSUME TypeOK, RelayInv, RowsExist, [Next]_vars, NEW r \in Rows, status[r] # "absent"
    PROVE  status'[r] # "absent"
<1>1. [Abstract!Next]_(Abstract!vars)
  BY StepMaps
<1>2. status \in [Rows -> {"absent", "pending", "sent", "failed"}]
  BY DEF TypeOK, TableTypeOK
<1>3. ASSUME NEW q \in Rows, Abstract!RowStep(q) PROVE status'[r] # "absent"
  BY <1>2, <1>3 DEF Abstract!RowStep, Abstract!Insert, Abstract!Deliver, Abstract!MarkSent,
     Abstract!GiveUp, Abstract!TakeBack
<1>4. ASSUME NEW R \in SUBSET Rows, Abstract!Replay(R) PROVE status'[r] # "absent"
  BY <1>4 DEF Abstract!Replay
<1> QED BY <1>1, <1>3, <1>4 DEF Abstract!Next, Abstract!vars

\* Ticks claim pending rows only, and publish what they claimed.
LEMMA RowsExistStep == TypeOK /\ TypeOK' /\ RelayInv /\ RowsExist /\ [Next]_vars => RowsExist'
<1> SUFFICES ASSUME TypeOK, TypeOK', RelayInv, RowsExist, [Next]_vars PROVE RowsExist'
  OBVIOUS
<1>1. \A r \in Rows : status[r] # "absent" => status'[r] # "absent"
  BY InsertedStays
<1>2. \A k \in wire : k[1] \in Rows
  BY DEF TypeOK, RestTypeOK, Token
<1>3. ASSUME \A k \in wire' : k \in wire \/ \E t \in Ticks : \E c \in batch[t] : k = TokenOf(c),
             \A t \in Ticks : \A c \in batch'[t] :
                 \/ c \in batch[t]
                 \/ c.id \in Rows /\ status[c.id] = "pending"
      PROVE  RowsExist'
  BY <1>1, <1>2, <1>3, ClaimFacts DEF RowsExist
<1>4. ASSUME NEW t \in Ticks, ClaimReturns(t) PROVE RowsExist'
  <2>1. \A u \in Ticks : \A c \in batch'[u] :
            c \in batch[u] \/ (c.id \in Rows /\ status[c.id] = "pending")
    BY <1>4 DEF ClaimReturns, TypeOK, LocalTypeOK, RelayInv, SelectedPending
  <2> QED BY <1>3, <1>4, <2>1 DEF ClaimReturns, broker
<1>5. ASSUME NEW t \in Ticks, NEW next \in {"confirming", "markFailed"}, Publish(t, next)
      PROVE  RowsExist'
  BY <1>3, <1>5 DEF Publish
<1>6. ASSUME wire' \subseteq wire, \A t \in Ticks : batch'[t] \subseteq batch[t] PROVE RowsExist'
  BY <1>3, <1>6
<1>7. ASSUME NEW t \in Ticks, FinishRow(t) \/ (\E i \in Instances : Kill(i)), wire' = wire
      PROVE  RowsExist'
  <2>1. \A u \in Ticks : batch'[u] \subseteq batch[u]
    BY <1>7 DEF FinishRow, Kill, TypeOK, LocalTypeOK
  <2> QED BY <1>6, <1>7, <2>1
<1>8. ASSUME NEW t \in Ticks, MarkSent(t) \/ MarkFailedAttempt(t) PROVE RowsExist'
  BY <1>7, <1>8 DEF MarkSent, MarkFailedAttempt, broker
<1>9. ASSUME NEW t \in Ticks, MarkFailedAttemptFails(t) \/ MarkFailedAttemptReplyLost(t)
      PROVE RowsExist'
  BY <1>7, <1>9, RelayAssumption DEF MarkFailedAttemptFails, MarkFailedAttemptReplyLost, broker
<1>10. ASSUME NEW i \in Instances, Exit(i) PROVE RowsExist'
  <2>1. \A u \in Ticks : batch'[u] \subseteq batch[u]
    BY <1>10 DEF Exit, Kill, TypeOK, LocalTypeOK
  <2> QED BY <1>6, <1>10, <2>1 DEF Exit, broker
<1>11. ASSUME NEW t \in Ticks,
              \/ ClaimSelect(t) \/ PublishThrows(t) \/ ConfirmResolves(t) \/ ConfirmRejects(t)
              \/ ClaimFails(t) \/ ClaimReplyLost(t) \/ MarkSentFails(t) \/ MarkSentReplyLost(t)
       PROVE batch' = batch /\ wire' = wire
  BY <1>11 DEF ClaimSelect, PublishThrows, ConfirmResolves, ConfirmRejects, ClaimFails,
     ClaimReplyLost, MarkSentFails, MarkSentReplyLost, broker
<1>12. ASSUME \/ \E q \in Rows : InsertRow(q) \/ RetryTimePasses(q) \/ LockTtlPasses(q)
              \/ \E k \in wire : BrokerStores(k) \/ BrokerLoses(k)
              \/ \E q \in Rows : ReplayById(q)
              \/ ReplayAllFailed
              \/ \E i \in Instances : ReapStaleLocks(i) \/ ModuleDestroy(i) \/ ModuleInit(i)
              \/ UNCHANGED vars
       PROVE batch' = batch /\ wire' \subseteq wire
  BY <1>12 DEF InsertRow, RetryTimePasses, LockTtlPasses, BrokerStores, BrokerLoses, ReplayById,
     ReplayAllFailed, Replay, ReapStaleLocks, ModuleDestroy, ModuleInit, vars, local, broker
<1> QED
  BY <1>4, <1>5, <1>6, <1>8, <1>9, <1>10, <1>11, <1>12 DEF Next, TickStep, DatabaseError

\* Polling, claiming, fencing, confirming, reaping and replaying add up to the
\* outbox its callers rely on.
THEOREM RelayImplementsOutbox == Spec => ImplementsOutbox
<1>1. Init => RowsExist
  BY DEF Init, RowsExist
<1>2. Spec => []RowsExist
  BY <1>1, RowsExistStep, RelayTyping, RelayInvariant, PTL DEF Spec
<1>3. Init => Abstract!Init
  BY DEF Init, Abstract!Init
<1> QED BY <1>2, <1>3, StepMaps, RelayTyping, RelayInvariant, PTL DEF Spec, ImplementsOutbox, Abstract!Spec

==============================================================================
