-------------------------- MODULE OutboxRelay_proofs --------------------------
(***************************************************************************)
(* Proofs about the relay for any number of rows, processes and            *)
(* overlapping ticks.                                                      *)
(***************************************************************************)
EXTENDS OutboxRelay, FiniteSetTheorems, TLAPS

\* Removing a row from the due list leaves a list of rows.
LEMMA WithoutType ==
    ASSUME NEW s \in Seq(Rows), NEW r
    PROVE  Without(s, r) \in Seq(Rows)
<1>1. CASE Contains(s, r)
  <2>1. \E i \in 1..Len(s) : s[i] = r
    BY <1>1 DEF Contains
  <2>2. Position(s, r) \in 1..Len(s)
    BY <2>1 DEF Position
  <2>3. RemoveAt(s, Position(s, r)) \in Seq(Rows)
    BY <2>2 DEF RemoveAt
  <2> QED BY <1>1, <2>3 DEF Without
<1>2. CASE ~Contains(s, r)
  BY <1>2 DEF Without
<1> QED BY <1>1, <1>2

\* An enumeration of a set of rows is a list of rows.
LEMMA SetToSeqsType ==
    ASSUME NEW R \in SUBSET Rows, NEW order \in SetToSeqs(R)
    PROVE  order \in Seq(Rows)
<1>1. IsFiniteSet(R)
  BY RelayAssumption, FS_Subset
<1>2. Cardinality(R) \in Nat
  BY <1>1, FS_CardinalityType
<1>3. order \in [1..Cardinality(R) -> R]
  BY DEF SetToSeqs
<1> QED BY <1>2, <1>3

\* What computeFailureOutcome() decides.
LEMMA OutcomeFacts ==
    ASSUME NEW a \in Nat
    PROVE  LET o == computeFailureOutcome(a, MaxAttempts)
           IN  /\ o.newAttempts = a + 1
               /\ o.action = "dead-letter" <=> a + 1 >= MaxAttempts
BY RelayAssumption DEF computeFailureOutcome

------------------------------------------------------------------------------
\* The two writes keep the table's types.
LEMMA ApplySentType ==
    ASSUME TableTypeOK, NEW c \in ClaimedRow, ApplySent(c)
    PROVE  TableTypeOK'
BY DEF TableTypeOK, ApplySent, table, ClaimedRow

\* So does the UPDATE of markFailedAttempt(), whatever the outcome.
LEMMA ApplyFailedAttemptType ==
    ASSUME TableTypeOK, NEW c \in ClaimedRow, ApplyFailedAttempt(c)
    PROVE  TableTypeOK'
<1> DEFINE o == computeFailureOutcome(c.attempts, MaxAttempts)
<1>1. c.id \in Rows /\ c.attempts \in Nat
  BY DEF ClaimedRow
<1>2. o.newAttempts \in Nat
  BY <1>1, OutcomeFacts
<1>3. Without(due, c.id) \in Seq(Rows)
  BY WithoutType DEF TableTypeOK
<1> HIDE DEF o
<1>4. CASE StillOwned(c)
  <2>1. /\ status' = [status EXCEPT ![c.id] =
               IF o.action = "dead-letter" THEN "failed" ELSE "pending"]
        /\ attempts' = [attempts EXCEPT ![c.id] = o.newAttempts]
        /\ locked_at' = [locked_at EXCEPT ![c.id] = "null"]
        /\ due' = Without(due, c.id)
        /\ UNCHANGED lock_version
    BY <1>4 DEF ApplyFailedAttempt, o
  <2> QED BY <1>1, <1>2, <1>3, <2>1 DEF TableTypeOK
<1>5. CASE ~StillOwned(c)
  BY <1>5 DEF ApplyFailedAttempt, TableTypeOK, table
<1> QED BY <1>4, <1>5

\* A process that dies takes its ticks along: the others are untouched.
LEMMA KillType ==
    ASSUME LocalTypeOK, mode \in [Instances -> {"running", "stopping", "down"}],
           NEW i \in Instances, Kill(i)
    PROVE  LocalTypeOK' /\ mode' \in [Instances -> {"running", "stopping", "down"}]
BY DEF LocalTypeOK, Kill

\* The for loop of runRelayTick() goes on with a row of the batch, or ends.
LEMMA FinishRowType ==
    ASSUME LocalTypeOK, NEW t \in Ticks, FinishRow(t)
    PROVE  LocalTypeOK'
BY DEF LocalTypeOK, FinishRow

\* Every step keeps the types.
LEMMA TypeStep == TypeOK /\ [Next]_vars => TypeOK'
<1> SUFFICES ASSUME TypeOK, [Next]_vars PROVE TypeOK'
  OBVIOUS
<1> USE DEF TypeOK
<1>1. ASSUME NEW r \in Rows, InsertRow(r) PROVE TypeOK'
  BY <1>1 DEF InsertRow, TableTypeOK, LocalTypeOK, RestTypeOK, local, broker
<1>2. ASSUME NEW r \in Rows, RetryTimePasses(r) PROVE TypeOK'
  BY <1>2 DEF RetryTimePasses, TableTypeOK, LocalTypeOK, RestTypeOK, local, broker
<1>3. ASSUME NEW r \in Rows, LockTtlPasses(r) PROVE TypeOK'
  BY <1>3 DEF LockTtlPasses, TableTypeOK, LocalTypeOK, RestTypeOK, local, broker
<1>4. ASSUME NEW t \in Ticks, ClaimSelect(t) PROVE TypeOK'
  <2>1. selected' \in [Ticks -> SUBSET Rows]
    BY <1>4 DEF ClaimSelect, Claimable, LocalTypeOK
  <2> QED BY <1>4, <2>1 DEF ClaimSelect, TableTypeOK, LocalTypeOK, RestTypeOK, table, broker
<1>5. ASSUME NEW t \in Ticks, ClaimReturns(t) PROVE TypeOK'
  <2> DEFINE new == {[id |-> r, attempts |-> attempts[r], lock_version |-> lock_version[r] + 1] :
                         r \in selected[t]}
  <2>1. TableTypeOK'
    BY <1>5 DEF ClaimReturns, BumpSelected, TableTypeOK
  <2>2. new \in SUBSET ClaimedRow /\ (selected[t] = {} <=> new = {})
    <3>1. \A r \in selected[t] : r \in Rows /\ attempts[r] \in Nat /\ lock_version[r] + 1 \in Nat
      BY DEF TableTypeOK, LocalTypeOK
    <3>2. \A r \in selected[t] :
             [id |-> r, attempts |-> attempts[r], lock_version |-> lock_version[r] + 1] \in ClaimedRow
      BY <3>1 DEF ClaimedRow
    <3>3. new \in SUBSET ClaimedRow
      BY <3>2
    <3>4. ASSUME NEW r \in selected[t] PROVE new # {}
      BY Zenon
    <3>5. ASSUME selected[t] = {} PROVE new = {}
      BY <3>5
    <3> QED BY <3>3, <3>4, <3>5
  <2>3. /\ batch' = [batch EXCEPT ![t] = new]
        /\ selected' = [selected EXCEPT ![t] = {}]
        /\ pc' = [pc EXCEPT ![t] = IF selected[t] = {} THEN "idle" ELSE "publish"]
        /\ cur' = cur
    BY <1>5 DEF ClaimReturns
  <2> HIDE DEF new
  <2>4. LocalTypeOK'
    <3>1. /\ pc' \in [Ticks -> {"idle", "claiming", "publish", "confirming", "markSent", "markFailed"}]
          /\ selected' \in [Ticks -> SUBSET Rows]
          /\ batch' \in [Ticks -> SUBSET ClaimedRow]
          /\ cur' \in [Ticks -> ClaimedRow \cup {NoClaim}]
      BY <2>2, <2>3 DEF LocalTypeOK
    <3>2. ASSUME NEW u \in Ticks
          PROVE  /\ pc'[u] \in {"idle", "claiming"} => batch'[u] = {}
                 /\ pc'[u] = "publish" => batch'[u] # {}
                 /\ pc'[u] \in {"confirming", "markSent", "markFailed"} => cur'[u] \in batch'[u]
      <4>1. CASE u = t
        BY <2>2, <2>3, <4>1 DEF LocalTypeOK
      <4>2. CASE u # t
        BY <2>3, <4>2 DEF LocalTypeOK
      <4> QED BY <4>1, <4>2
    <3> QED BY <3>1, <3>2 DEF LocalTypeOK
  <2>5. RestTypeOK'
    BY <1>5 DEF ClaimReturns, RestTypeOK, broker
  <2> QED BY <2>1, <2>4, <2>5
<1>6. ASSUME NEW t \in Ticks, ClaimFails(t) PROVE TypeOK'
  BY <1>6 DEF ClaimFails, Fault, TableTypeOK, LocalTypeOK, RestTypeOK, table, broker
<1>7. ASSUME NEW t \in Ticks, ClaimReplyLost(t) PROVE TypeOK'
  <2>1. TableTypeOK'
    BY <1>7 DEF ClaimReplyLost, BumpSelected, TableTypeOK
  <2> QED BY <1>7, <2>1 DEF ClaimReplyLost, Fault, LocalTypeOK, RestTypeOK, broker
<1>8. ASSUME NEW t \in Ticks, NEW next \in {"confirming", "markFailed"}, Publish(t, next)
      PROVE TypeOK'
  <2> PICK c \in batch[t] : cur' = [cur EXCEPT ![t] = c] /\ wire' = wire \cup {TokenOf(c)}
    BY <1>8 DEF Publish
  <2>1. c \in ClaimedRow /\ TokenOf(c) \in Token
    BY DEF LocalTypeOK, ClaimedRow, TokenOf, Token
  <2> QED BY <1>8, <2>1 DEF Publish, TableTypeOK, LocalTypeOK, RestTypeOK, table
<1>9. ASSUME NEW t \in Ticks, PublishThrows(t) PROVE TypeOK'
  BY <1>9 DEF PublishThrows, TableTypeOK, LocalTypeOK, RestTypeOK, table, broker
<1>10. ASSUME NEW k \in wire, BrokerStores(k) \/ BrokerLoses(k) PROVE TypeOK'
  BY <1>10 DEF BrokerStores, BrokerLoses, TableTypeOK, LocalTypeOK, RestTypeOK, table, local
<1>11. ASSUME NEW t \in Ticks, ConfirmResolves(t) \/ ConfirmRejects(t) PROVE TypeOK'
  BY <1>11 DEF ConfirmResolves, ConfirmRejects, TableTypeOK, LocalTypeOK, RestTypeOK, table, broker
<1>12. ASSUME NEW t \in Ticks, MarkSent(t) PROVE TypeOK'
  <2>1. cur[t] \in ClaimedRow
    BY <1>12 DEF MarkSent, LocalTypeOK
  <2>2. TableTypeOK' /\ LocalTypeOK'
    BY <1>12, <2>1, ApplySentType, FinishRowType DEF MarkSent
  <2> QED BY <1>12, <2>2 DEF MarkSent, RestTypeOK, broker
<1>13. ASSUME NEW t \in Ticks, MarkSentFails(t) PROVE TypeOK'
  BY <1>13 DEF MarkSentFails, Fault, TableTypeOK, LocalTypeOK, RestTypeOK, table, broker
<1>14. ASSUME NEW t \in Ticks, MarkSentReplyLost(t) PROVE TypeOK'
  <2>1. cur[t] \in ClaimedRow
    BY <1>14 DEF MarkSentReplyLost, LocalTypeOK
  <2>2. TableTypeOK'
    BY <1>14, <2>1, ApplySentType DEF MarkSentReplyLost
  <2> QED BY <1>14, <2>2 DEF MarkSentReplyLost, Fault, LocalTypeOK, RestTypeOK, broker
<1>15. ASSUME NEW t \in Ticks, MarkFailedAttempt(t) PROVE TypeOK'
  <2>1. cur[t] \in ClaimedRow
    BY <1>15 DEF MarkFailedAttempt, LocalTypeOK
  <2>2. TableTypeOK' /\ LocalTypeOK'
    BY <1>15, <2>1, ApplyFailedAttemptType, FinishRowType DEF MarkFailedAttempt
  <2> QED BY <1>15, <2>2 DEF MarkFailedAttempt, RestTypeOK, broker
<1>16. ASSUME NEW t \in Ticks, MarkFailedAttemptFails(t) PROVE TypeOK'
  <2>1. InstanceOf[t] \in Instances
    BY RelayAssumption
  <2> QED BY <1>16, <2>1, KillType DEF MarkFailedAttemptFails, Fault, TableTypeOK, RestTypeOK, table, broker
<1>17. ASSUME NEW t \in Ticks, MarkFailedAttemptReplyLost(t) PROVE TypeOK'
  <2>1. InstanceOf[t] \in Instances
    BY RelayAssumption
  <2>2. cur[t] \in ClaimedRow
    BY <1>17 DEF MarkFailedAttemptReplyLost, LocalTypeOK
  <2>3. TableTypeOK'
    BY <1>17, <2>2, ApplyFailedAttemptType DEF MarkFailedAttemptReplyLost
  <2> QED BY <1>17, <2>1, <2>3, KillType DEF MarkFailedAttemptReplyLost, Fault, RestTypeOK, broker
<1>18. ASSUME NEW R \in SUBSET Rows, NEW order \in Seq(Rows), Replay(R, order) PROVE TypeOK'
  BY <1>18 DEF Replay, TableTypeOK, LocalTypeOK, RestTypeOK, local, broker
<1>19. ASSUME NEW r \in Rows, ReplayById(r) PROVE TypeOK'
  <2>1. {r} \in SUBSET Rows /\ <<r>> \in Seq(Rows)
    OBVIOUS
  <2> QED BY <1>18, <1>19, <2>1 DEF ReplayById
<1>20. ASSUME ReplayAllFailed PROVE TypeOK'
  BY <1>18, <1>20, SetToSeqsType DEF ReplayAllFailed
<1>21. ASSUME NEW i \in Instances, ReapStaleLocks(i) PROVE TypeOK'
  BY <1>21 DEF ReapStaleLocks, TableTypeOK, LocalTypeOK, RestTypeOK, local, broker
<1>22. ASSUME NEW i \in Instances, ModuleDestroy(i) \/ ModuleInit(i) PROVE TypeOK'
  <2>1. RestTypeOK'
    BY <1>22 DEF ModuleDestroy, ModuleInit, Fault, RestTypeOK, broker
  <2> QED BY <1>22, <2>1 DEF ModuleDestroy, ModuleInit, TableTypeOK, LocalTypeOK, table, local
<1>23. ASSUME NEW i \in Instances, Exit(i) PROVE TypeOK'
  BY <1>23, KillType DEF Exit, Fault, TableTypeOK, RestTypeOK, table, broker
<1>24. CASE UNCHANGED vars
  BY <1>24 DEF vars, table, local, broker, TableTypeOK, LocalTypeOK, RestTypeOK
<1> QED
  BY <1>1, <1>2, <1>3, <1>4, <1>5, <1>6, <1>7, <1>8, <1>9, <1>10, <1>11, <1>12, <1>13, <1>14,
     <1>15, <1>16, <1>17, <1>19, <1>20, <1>21, <1>22, <1>23, <1>24
     DEF Next, TickStep, DatabaseError

\* Type correctness of the relay, and the loop invariant of runRelayTick().
THEOREM RelayTyping == Spec => []TypeOK
<1>1. Init => TypeOK
  BY DEF Init, TypeOK, TableTypeOK, LocalTypeOK, RestTypeOK
<1> QED BY <1>1, TypeStep, PTL DEF Spec

------------------------------------------------------------------------------
(***************************************************************************)
(* The inductive invariant.  None of the safety properties is inductive:   *)
(* each rests on what the fencing token of a claim says about the row.     *)
(***************************************************************************)

\* A token was issued by a claim of the row, so it is at most the current one.
TokensIssued ==
    \A t \in Ticks : \A c \in batch[t] : c.lock_version <= lock_version[c.id]

\* No two claims of a row, in whatever ticks, carry the same token.
TokensUnique ==
    \A t, u \in Ticks : \A c \in batch[t], d \in batch[u] :
        c.id = d.id /\ c.lock_version = d.lock_version => t = u /\ c = d

\* The row of a claim with the current token is as the claim left it.  Only
\* the lost reply of its own markSent() can have made it sent.
OwnerFacts ==
    \A t \in Ticks : \A c \in batch[t] : StillOwned(c) =>
        /\ c.attempts = attempts[c.id]
        /\ status[c.id] = "pending" \/ (LoseReplies /\ status[c.id] = "sent")

\* A row a claim statement has locked stays pending until it commits.
SelectedPending ==
    \A t \in Ticks : \A r \in selected[t] : status[r] = "pending"

\* A tick in markSent() has the broker's confirmation of its own publish.
ConfirmedBeforeMark ==
    \A t \in Ticks : pc[t] = "markSent" => TokenOf(cur[t]) \in stored

RelayInv ==
    /\ TokensIssued
    /\ TokensUnique
    /\ OwnerFacts
    /\ SelectedPending
    /\ ConfirmedBeforeMark
    /\ SentOnlyAfterConfirm
    /\ RetryBudget

\* A step that writes no row, claims nothing and only lets go of claims keeps
\* the invariant if it enters markSent() with a confirmation.
LEMMA FrameStep ==
    ASSUME TypeOK, RelayInv,
           status' = status, attempts' = attempts, lock_version' = lock_version,
           \A t \in Ticks : batch'[t] \subseteq batch[t],
           \A t \in Ticks : selected'[t] \subseteq selected[t],
           stored \subseteq stored',
           \A t \in Ticks : pc'[t] = "markSent" => TokenOf(cur'[t]) \in stored'
    PROVE  RelayInv'
<1>1. TokensIssued'
  BY DEF RelayInv, TokensIssued
<1>2. TokensUnique'
  BY DEF RelayInv, TokensUnique
<1>3. OwnerFacts'
  BY DEF RelayInv, OwnerFacts, StillOwned
<1>4. SelectedPending'
  BY DEF RelayInv, SelectedPending
<1>5. ConfirmedBeforeMark'
  BY DEF ConfirmedBeforeMark
<1>6. SentOnlyAfterConfirm' /\ RetryBudget'
  BY DEF RelayInv, SentOnlyAfterConfirm, RetryBudget
<1> QED BY <1>1, <1>2, <1>3, <1>4, <1>5, <1>6 DEF RelayInv

\* The UPDATE of a claim outdates every token of the rows it takes; held by
\* nobody, or by the claimant alone, the new one is unique.
LEMMA ClaimStep ==
    ASSUME TypeOK, RelayInv, NEW t \in Ticks, BumpSelected(t),
           NEW new \in SUBSET ClaimedRow,
           \A c \in new : /\ c.id \in selected[t]
                          /\ c.attempts = attempts[c.id]
                          /\ c.lock_version = lock_version[c.id] + 1,
           batch' = [batch EXCEPT ![t] = new],
           selected' = [selected EXCEPT ![t] = {}],
           stored' = stored, cur' = cur,
           \A u \in Ticks : pc'[u] = "markSent" => pc[u] = "markSent"
    PROVE  RelayInv'
<1> USE DEF RelayInv
<1>0. /\ status' = status /\ attempts' = attempts
      /\ \A r \in Rows : lock_version[r] \in Nat
      /\ \A r \in Rows : lock_version'[r] = IF r \in selected[t] THEN lock_version[r] + 1
                                                                 ELSE lock_version[r]
      /\ \A u \in Ticks : batch'[u] = IF u = t THEN new ELSE batch[u]
      /\ \A u \in Ticks : \A c \in batch[u] : c \in ClaimedRow
      /\ \A u \in Ticks : selected[u] \subseteq Rows
  BY DEF BumpSelected, TypeOK, TableTypeOK, LocalTypeOK
<1>a. \A u \in Ticks : \A c \in batch'[u] :
         /\ c.id \in Rows /\ c.lock_version \in Nat
         /\ u = t => c \in new
         /\ u # t => c \in batch[u]
  BY <1>0 DEF ClaimedRow
<1>1. TokensIssued'
  BY <1>0, <1>a DEF TokensIssued
<1>2. TokensUnique'
  <2> SUFFICES ASSUME NEW u \in Ticks, NEW v \in Ticks, NEW c \in batch'[u], NEW d \in batch'[v],
                      c.id = d.id, c.lock_version = d.lock_version
               PROVE  u = v /\ c = d
    BY DEF TokensUnique
  <2>1. CASE u = t /\ v = t
    <3>1. c \in new /\ d \in new
      BY <1>a, <2>1
    <3>2. c.attempts = d.attempts
      BY <3>1
    <3>3. c \in ClaimedRow /\ d \in ClaimedRow
      BY <3>1
    <3> QED BY <2>1, <3>2, <3>3 DEF ClaimedRow
  <2>2. CASE u = t /\ v # t
    BY <1>0, <1>a, <2>2 DEF TokensIssued
  <2>3. CASE u # t /\ v = t
    BY <1>0, <1>a, <2>3 DEF TokensIssued
  <2>4. CASE u # t /\ v # t
    BY <1>a, <2>4 DEF TokensUnique
  <2> QED BY <2>1, <2>2, <2>3, <2>4
<1>3. OwnerFacts'
  <2> SUFFICES ASSUME NEW u \in Ticks, NEW c \in batch'[u], lock_version'[c.id] = c.lock_version
               PROVE  /\ c.attempts = attempts[c.id]
                      /\ status[c.id] = "pending" \/ (LoseReplies /\ status[c.id] = "sent")
    BY <1>0 DEF OwnerFacts, StillOwned
  <2>1. CASE u = t
    <3>1. c \in new
      BY <1>a, <2>1
    <3>2. c.id \in selected[t] /\ c.attempts = attempts[c.id]
      BY <3>1
    <3>3. status[c.id] = "pending"
      BY <3>2 DEF SelectedPending
    <3> QED BY <3>2, <3>3
  <2>2. CASE u # t
    <3>1. c \in batch[u] /\ c.lock_version <= lock_version[c.id]
      BY <1>a, <2>2 DEF TokensIssued
    <3>2. lock_version[c.id] = c.lock_version
      BY <1>0, <1>a, <3>1
    <3> QED BY <3>1, <3>2 DEF OwnerFacts, StillOwned
  <2> QED BY <2>1, <2>2
<1>4. SelectedPending'
  BY <1>0 DEF SelectedPending, TypeOK, LocalTypeOK
<1>5. ConfirmedBeforeMark'
  BY DEF ConfirmedBeforeMark
<1>6. SentOnlyAfterConfirm'
  BY <1>0 DEF SentOnlyAfterConfirm, SelectedPending
<1>7. RetryBudget'
  BY <1>0 DEF RetryBudget
<1> QED BY <1>1, <1>2, <1>3, <1>4, <1>5, <1>6, <1>7

\* The compare-and-swap of the owner writes the row (status st, attempts att)
\* and gives its claim up, or loses the reply of markSent().
LEMMA OwnerWriteStep ==
    ASSUME TypeOK, RelayInv, NEW t \in Ticks, NEW c \in batch[t], StillOwned(c), CasReady(c),
           NEW st, NEW att \in Nat,
           \A r \in Rows : status'[r] = IF r = c.id THEN st ELSE status[r],
           \A r \in Rows : attempts'[r] = IF r = c.id THEN att ELSE attempts[r],
           lock_version' = lock_version,
           \A u \in Ticks : batch'[u] \subseteq batch[u],
           \/ c \notin batch'[t]
           \/ LoseReplies /\ st = "sent" /\ att = attempts[c.id],
           \A u \in Ticks : selected'[u] \subseteq selected[u],
           stored' = stored,
           \A u \in Ticks : pc'[u] = "markSent" => pc[u] = "markSent" /\ cur'[u] = cur[u],
           st = "sent" => TokenOf(c) \in stored,
           (st = "failed" <=> att = MaxAttempts) /\ att <= MaxAttempts
    PROVE  RelayInv'
<1> USE DEF RelayInv
<1>0. /\ c.id \in Rows
      /\ \A u \in Ticks : \A d \in batch[u] : d.id \in Rows
      /\ \A u \in Ticks : selected[u] \subseteq Rows /\ c.id \notin selected[u]
  BY DEF TypeOK, LocalTypeOK, ClaimedRow, CasReady, RowLocked
<1>1. TokensIssued'
  BY DEF TokensIssued
<1>2. TokensUnique'
  BY DEF TokensUnique
<1>3. OwnerFacts'
  <2> SUFFICES ASSUME NEW u \in Ticks, NEW d \in batch'[u], lock_version[d.id] = d.lock_version
               PROVE  /\ d.attempts = attempts'[d.id]
                      /\ status'[d.id] = "pending" \/ (LoseReplies /\ status'[d.id] = "sent")
    BY DEF OwnerFacts, StillOwned
  <2>1. d \in batch[u] /\ d.id \in Rows
    BY <1>0
  <2>2. CASE d.id = c.id
    <3>1. u = t /\ d = c
      BY <2>1, <2>2 DEF TokensUnique, StillOwned
    <3>2. LoseReplies /\ st = "sent" /\ att = attempts[c.id]
      BY <3>1
    <3>3. c.attempts = attempts[c.id]
      BY DEF OwnerFacts
    <3> QED BY <1>0, <3>1, <3>2, <3>3
  <2>3. CASE d.id # c.id
    BY <2>1, <2>3 DEF OwnerFacts, StillOwned
  <2> QED BY <2>2, <2>3
<1>4. SelectedPending'
  BY <1>0 DEF SelectedPending
<1>5. ConfirmedBeforeMark'
  BY DEF ConfirmedBeforeMark
<1>6. SentOnlyAfterConfirm'
  BY <1>0 DEF SentOnlyAfterConfirm, StillOwned, TokenOf
<1>7. RetryBudget'
  BY <1>0 DEF RetryBudget
<1> QED BY <1>1, <1>2, <1>3, <1>4, <1>5, <1>6, <1>7

\* FinishRow() and Kill() give up claims and enter no markSent().
LEMMA FinishRowLetsGo ==
    ASSUME TypeOK, NEW t \in Ticks, FinishRow(t), pc[t] \in {"markSent", "markFailed"}
    PROVE  /\ \A u \in Ticks : batch'[u] \subseteq batch[u] /\ selected'[u] \subseteq selected[u]
           /\ cur[t] \in batch[t] /\ cur[t] \notin batch'[t]
           /\ \A u \in Ticks : pc'[u] = "markSent" => pc[u] = "markSent" /\ cur'[u] = cur[u]
BY DEF FinishRow, TypeOK, LocalTypeOK

\* The same of a process that dies.
LEMMA KillLetsGo ==
    ASSUME TypeOK, NEW i \in Instances, Kill(i)
    PROVE  /\ \A u \in Ticks : batch'[u] \subseteq batch[u] /\ selected'[u] \subseteq selected[u]
           /\ \A u \in Ticks : InstanceOf[u] = i => batch'[u] = {}
           /\ \A u \in Ticks : pc'[u] = "markSent" => pc[u] = "markSent" /\ cur'[u] = cur[u]
BY DEF Kill, TypeOK, LocalTypeOK

\* A replay touches failed rows, which nobody owns.
LEMMA ReplayStep ==
    ASSUME TypeOK, RelayInv, NEW R \in SUBSET Rows, NEW order, Replay(R, order)
    PROVE  RelayInv'
<1> USE DEF RelayInv
<1>0. /\ \A r \in R : status[r] = "failed"
      /\ \A r \in Rows : status'[r] = IF r \in R THEN "pending" ELSE status[r]
      /\ \A r \in Rows : attempts'[r] = IF r \in R THEN 0 ELSE attempts[r]
      /\ UNCHANGED <<lock_version, batch, selected, pc, cur, stored>>
      /\ \A u \in Ticks : \A d \in batch[u] : d.id \in Rows
      /\ \A u \in Ticks : selected[u] \subseteq Rows
  BY DEF Replay, TypeOK, LocalTypeOK, ClaimedRow, local, broker
<1>1. TokensIssued'
  BY <1>0 DEF TokensIssued
<1>2. TokensUnique'
  BY <1>0 DEF TokensUnique
<1>3. OwnerFacts'
  <2> SUFFICES ASSUME NEW u \in Ticks, NEW d \in batch[u], StillOwned(d)
               PROVE  /\ d.attempts = attempts'[d.id]
                      /\ status'[d.id] = "pending" \/ (LoseReplies /\ status'[d.id] = "sent")
    BY <1>0 DEF OwnerFacts, StillOwned
  <2>1. status[d.id] # "failed"
    BY DEF OwnerFacts
  <2>2. d.id \in Rows /\ d.id \notin R
    BY <1>0, <2>1
  <2> QED BY <1>0, <2>2 DEF OwnerFacts
<1>4. SelectedPending'
  BY <1>0 DEF SelectedPending
<1>5. ConfirmedBeforeMark'
  BY <1>0 DEF ConfirmedBeforeMark
<1>6. SentOnlyAfterConfirm'
  BY <1>0 DEF SentOnlyAfterConfirm
<1>7. RetryBudget'
  BY <1>0, RelayAssumption DEF RetryBudget
<1> QED BY <1>1, <1>2, <1>3, <1>4, <1>5, <1>6, <1>7

\* markSent() and markFailedAttempt() as the owner's write, or as nothing.
LEMMA ApplySentWrites ==
    ASSUME TypeOK, NEW c \in ClaimedRow, ApplySent(c)
    PROVE  /\ lock_version' = lock_version
           /\ ~StillOwned(c) => status' = status /\ attempts' = attempts
           /\ StillOwned(c) =>
                 /\ \A r \in Rows : status'[r] = IF r = c.id THEN "sent" ELSE status[r]
                 /\ \A r \in Rows : attempts'[r] = attempts[r]
BY DEF ApplySent, TypeOK, TableTypeOK, table

\* markFailedAttempt() writes the outcome computed from the claimed attempts.
LEMMA ApplyFailedAttemptWrites ==
    ASSUME TypeOK, NEW c \in ClaimedRow, ApplyFailedAttempt(c)
    PROVE  /\ lock_version' = lock_version
           /\ ~StillOwned(c) => status' = status /\ attempts' = attempts
           /\ StillOwned(c) =>
                 /\ \A r \in Rows : status'[r] =
                       IF r = c.id THEN IF c.attempts + 1 >= MaxAttempts THEN "failed" ELSE "pending"
                                   ELSE status[r]
                 /\ \A r \in Rows : attempts'[r] = IF r = c.id THEN c.attempts + 1 ELSE attempts[r]
<1> DEFINE o == computeFailureOutcome(c.attempts, MaxAttempts)
<1>1. o.newAttempts = c.attempts + 1 /\ (o.action = "dead-letter" <=> c.attempts + 1 >= MaxAttempts)
  BY OutcomeFacts DEF ClaimedRow
<1>2. CASE StillOwned(c)
  <2>1. /\ status' = [status EXCEPT ![c.id] =
               IF o.action = "dead-letter" THEN "failed" ELSE "pending"]
        /\ attempts' = [attempts EXCEPT ![c.id] = o.newAttempts]
        /\ lock_version' = lock_version
    BY <1>2 DEF ApplyFailedAttempt
  <2> HIDE DEF o
  <2> QED BY <1>1, <1>2, <2>1 DEF TypeOK, TableTypeOK
<1>3. CASE ~StillOwned(c)
  BY <1>3 DEF ApplyFailedAttempt, table
<1> QED BY <1>2, <1>3

\* The outcome of the owner's failure respects the budget.
LEMMA OwnerFailureBudget ==
    ASSUME TypeOK, RelayInv, NEW t \in Ticks, NEW c \in batch[t], StillOwned(c)
    PROVE  /\ c.attempts = attempts[c.id]
           /\ c.attempts + 1 \in Nat
           /\ c.attempts + 1 <= MaxAttempts
           /\ c.attempts + 1 >= MaxAttempts <=> c.attempts + 1 = MaxAttempts
<1>1. c.id \in Rows /\ attempts[c.id] \in Nat /\ MaxAttempts \in Nat
  BY RelayAssumption DEF TypeOK, TableTypeOK, LocalTypeOK, ClaimedRow
<1>2. c.attempts = attempts[c.id] /\ status[c.id] # "failed"
  BY DEF RelayInv, OwnerFacts
<1>3. attempts[c.id] # MaxAttempts /\ attempts[c.id] <= MaxAttempts
  BY <1>1, <1>2 DEF RelayInv, RetryBudget
<1> QED BY <1>1, <1>2, <1>3

\* Every step keeps the invariant.
LEMMA InvStep == TypeOK /\ RelayInv /\ [Next]_vars => RelayInv'
<1> SUFFICES ASSUME TypeOK, RelayInv, [Next]_vars PROVE RelayInv'
  OBVIOUS
<1>0. \A t \in Ticks : pc[t] = "markSent" => TokenOf(cur[t]) \in stored
  BY DEF RelayInv, ConfirmedBeforeMark
<1>t. \A t \in Ticks : /\ \A c \in batch[t] : c \in ClaimedRow
                       /\ pc[t] \in {"confirming", "markSent", "markFailed"} => cur[t] \in batch[t]
  BY DEF TypeOK, LocalTypeOK
<1>1. ASSUME NEW r \in Rows, InsertRow(r) PROVE RelayInv'
  <2>0. /\ status[r] = "absent"
        /\ \A q \in Rows : status'[q] = IF q = r THEN "pending" ELSE status[q]
        /\ UNCHANGED <<attempts, lock_version, batch, selected, pc, cur, stored>>
        /\ \A u \in Ticks : \A d \in batch[u] : d.id \in Rows
        /\ \A u \in Ticks : selected[u] \subseteq Rows
    BY <1>1 DEF InsertRow, TypeOK, TableTypeOK, LocalTypeOK, ClaimedRow, local, broker
  <2>1. TokensIssued' /\ TokensUnique'
    BY <2>0 DEF RelayInv, TokensIssued, TokensUnique
  <2>2. OwnerFacts'
    BY <2>0 DEF RelayInv, OwnerFacts, StillOwned
  <2>3. SelectedPending' /\ ConfirmedBeforeMark'
    BY <2>0 DEF RelayInv, SelectedPending, ConfirmedBeforeMark
  <2>4. SentOnlyAfterConfirm' /\ RetryBudget'
    BY <2>0 DEF RelayInv, SentOnlyAfterConfirm, RetryBudget
  <2> QED BY <2>1, <2>2, <2>3, <2>4 DEF RelayInv
<1>2. ASSUME NEW r \in Rows, RetryTimePasses(r) \/ LockTtlPasses(r) PROVE RelayInv'
  BY <1>0, <1>2, FrameStep DEF RetryTimePasses, LockTtlPasses, local, broker
<1>3. ASSUME NEW t \in Ticks, ClaimSelect(t) PROVE RelayInv'
  <2>1. PICK S \in SUBSET Claimable : selected' = [selected EXCEPT ![t] = S]
    BY <1>3 DEF ClaimSelect
  <2>2. SelectedPending'
    BY <1>3, <2>1 DEF ClaimSelect, Claimable, table, RelayInv, SelectedPending, TypeOK, LocalTypeOK
  <2>3. ConfirmedBeforeMark'
    BY <1>0, <1>3 DEF ClaimSelect, broker, ConfirmedBeforeMark, TypeOK, LocalTypeOK
  <2>4. TokensIssued' /\ TokensUnique' /\ OwnerFacts'
    BY <1>3 DEF ClaimSelect, table, RelayInv, TokensIssued, TokensUnique, OwnerFacts, StillOwned
  <2>5. SentOnlyAfterConfirm' /\ RetryBudget'
    BY <1>3 DEF ClaimSelect, table, broker, RelayInv, SentOnlyAfterConfirm, RetryBudget
  <2> QED BY <2>2, <2>3, <2>4, <2>5 DEF RelayInv
<1>4. ASSUME NEW t \in Ticks, ClaimReturns(t) PROVE RelayInv'
  <2> DEFINE new == {[id |-> r, attempts |-> attempts[r], lock_version |-> lock_version[r] + 1] :
                         r \in selected[t]}
  <2>1. \A r \in selected[t] : r \in Rows /\ attempts[r] \in Nat /\ lock_version[r] + 1 \in Nat
    BY DEF TypeOK, TableTypeOK, LocalTypeOK
  <2>2. new \in SUBSET ClaimedRow
    BY <2>1 DEF ClaimedRow
  <2>3. \A c \in new : /\ c.id \in selected[t]
                       /\ c.attempts = attempts[c.id]
                       /\ c.lock_version = lock_version[c.id] + 1
    OBVIOUS
  <2>4. /\ batch' = [batch EXCEPT ![t] = new]
        /\ BumpSelected(t)
        /\ selected' = [selected EXCEPT ![t] = {}]
        /\ stored' = stored
        /\ cur' = cur
        /\ pc' = [pc EXCEPT ![t] = IF selected[t] = {} THEN "idle" ELSE "publish"]
    BY <1>4 DEF ClaimReturns, broker
  <2>5. \A u \in Ticks : pc'[u] = "markSent" => pc[u] = "markSent"
    BY <2>4 DEF TypeOK, LocalTypeOK
  <2> HIDE DEF new
  <2> QED BY <2>2, <2>3, <2>4, <2>5, ClaimStep
<1>5. ASSUME NEW t \in Ticks, ClaimReplyLost(t) PROVE RelayInv'
  <2>1. batch' = [batch EXCEPT ![t] = {}]
    BY <1>5 DEF ClaimReplyLost, TypeOK, LocalTypeOK
  <2>2. /\ BumpSelected(t)
        /\ selected' = [selected EXCEPT ![t] = {}]
        /\ stored' = stored
        /\ cur' = cur
        /\ \A u \in Ticks : pc'[u] = "markSent" => pc[u] = "markSent"
    BY <1>5 DEF ClaimReplyLost, broker, TypeOK, LocalTypeOK
  <2> DEFINE none == {}
  <2>3. /\ none \in SUBSET ClaimedRow
        /\ \A c \in none : /\ c.id \in selected[t]
                           /\ c.attempts = attempts[c.id]
                           /\ c.lock_version = lock_version[c.id] + 1
        /\ batch' = [batch EXCEPT ![t] = none]
    BY <2>1
  <2> HIDE DEF none
  <2> QED BY <2>2, <2>3, ClaimStep
<1>6. ASSUME NEW t \in Ticks, ClaimFails(t) \/ MarkSentFails(t) \/ ConfirmRejects(t) PROVE RelayInv'
  <2>1. /\ UNCHANGED <<status, attempts, lock_version, batch, stored, cur>>
        /\ \A u \in Ticks : selected'[u] \subseteq selected[u]
        /\ \A u \in Ticks : pc'[u] = "markSent" => pc[u] = "markSent"
    BY <1>6 DEF ClaimFails, MarkSentFails, ConfirmRejects, table, broker, TypeOK, LocalTypeOK
  <2> QED BY <1>0, <2>1, FrameStep
<1>7. ASSUME NEW t \in Ticks, ConfirmResolves(t) PROVE RelayInv'
  <2>1. /\ UNCHANGED <<status, attempts, lock_version, batch, selected, stored, cur>>
        /\ \A u \in Ticks : pc'[u] = "markSent" => u = t \/ pc[u] = "markSent"
        /\ TokenOf(cur[t]) \in stored
    BY <1>7 DEF ConfirmResolves, table, broker, TypeOK, LocalTypeOK
  <2> QED BY <1>0, <2>1, FrameStep
<1>8. ASSUME NEW t \in Ticks, NEW next \in {"confirming", "markFailed"}, Publish(t, next)
      PROVE RelayInv'
  <2>1. /\ UNCHANGED <<status, attempts, lock_version, batch, selected, stored>>
        /\ \A u \in Ticks : pc'[u] = "markSent" => pc[u] = "markSent" /\ cur'[u] = cur[u]
    BY <1>8 DEF Publish, table, TypeOK, LocalTypeOK
  <2> QED BY <1>0, <2>1, FrameStep
<1>9. ASSUME NEW t \in Ticks, PublishThrows(t) PROVE RelayInv'
  <2>1. /\ UNCHANGED <<status, attempts, lock_version, batch, selected, stored>>
        /\ \A u \in Ticks : pc'[u] = "markSent" => pc[u] = "markSent" /\ cur'[u] = cur[u]
    BY <1>9 DEF PublishThrows, table, broker, TypeOK, LocalTypeOK
  <2> QED BY <1>0, <2>1, FrameStep
<1>10. ASSUME NEW k \in wire, BrokerStores(k) \/ BrokerLoses(k) PROVE RelayInv'
  <2>1. /\ UNCHANGED <<status, attempts, lock_version, batch, selected, pc, cur>>
        /\ stored \subseteq stored'
    BY <1>10 DEF BrokerStores, BrokerLoses, table, local
  <2> QED BY <1>0, <2>1, FrameStep
<1>11. ASSUME NEW t \in Ticks, MarkSent(t) PROVE RelayInv'
  <2> DEFINE c == cur[t]
  <2>1. c \in batch[t] /\ c \in ClaimedRow /\ TokenOf(c) \in stored /\ CasReady(c) /\ ApplySent(c)
    BY <1>0, <1>t, <1>11 DEF MarkSent
  <2>2. stored' = stored /\ FinishRow(t) /\ pc[t] \in {"markSent", "markFailed"}
    BY <1>11 DEF MarkSent, broker
  <2> HIDE DEF c
  <2>3. /\ \A u \in Ticks : batch'[u] \subseteq batch[u] /\ selected'[u] \subseteq selected[u]
        /\ c \notin batch'[t]
        /\ \A u \in Ticks : pc'[u] = "markSent" => pc[u] = "markSent" /\ cur'[u] = cur[u]
    BY <2>2, FinishRowLetsGo DEF c
  <2>4. CASE ~StillOwned(c)
    BY <1>0, <2>1, <2>2, <2>3, <2>4, ApplySentWrites, FrameStep
  <2>5. CASE StillOwned(c)
    <3>1. /\ c.id \in Rows
          /\ attempts[c.id] \in Nat
          /\ "sent" = "failed" <=> attempts[c.id] = MaxAttempts
          /\ attempts[c.id] <= MaxAttempts
      BY <2>1, <2>5 DEF RelayInv, OwnerFacts, RetryBudget, ClaimedRow, TypeOK, TableTypeOK
    <3>2. /\ \A r \in Rows : status'[r] = IF r = c.id THEN "sent" ELSE status[r]
          /\ \A r \in Rows : attempts'[r] = IF r = c.id THEN attempts[c.id] ELSE attempts[r]
          /\ lock_version' = lock_version
      BY <2>1, <2>5, ApplySentWrites
    <3> DEFINE st == "sent"
               att == attempts[c.id]
    <3>3. /\ att \in Nat
          /\ \A r \in Rows : status'[r] = IF r = c.id THEN st ELSE status[r]
          /\ \A r \in Rows : attempts'[r] = IF r = c.id THEN att ELSE attempts[r]
          /\ st = "sent" => TokenOf(c) \in stored
          /\ (st = "failed" <=> att = MaxAttempts) /\ att <= MaxAttempts
      BY <2>1, <3>1, <3>2
    <3> HIDE DEF st, att
    <3> QED BY <2>1, <2>2, <2>3, <2>5, <3>2, <3>3, OwnerWriteStep
  <2> QED BY <2>4, <2>5
<1>12. ASSUME NEW t \in Ticks, MarkSentReplyLost(t) PROVE RelayInv'
  <2> DEFINE c == cur[t]
  <2>1. c \in batch[t] /\ c \in ClaimedRow /\ TokenOf(c) \in stored /\ CasReady(c) /\ ApplySent(c)
    BY <1>0, <1>t, <1>12 DEF MarkSentReplyLost
  <2>2. /\ LoseReplies
        /\ UNCHANGED <<stored, batch, selected, cur>>
        /\ \A u \in Ticks : pc'[u] = "markSent" => pc[u] = "markSent" /\ cur'[u] = cur[u]
    BY <1>12 DEF MarkSentReplyLost, broker, TypeOK, LocalTypeOK
  <2> HIDE DEF c
  <2>4. CASE ~StillOwned(c)
    BY <1>0, <2>1, <2>2, <2>4, ApplySentWrites, FrameStep
  <2>5. CASE StillOwned(c)
    <3>1. /\ c.id \in Rows
          /\ attempts[c.id] \in Nat
          /\ "sent" = "failed" <=> attempts[c.id] = MaxAttempts
          /\ attempts[c.id] <= MaxAttempts
      BY <2>1, <2>5 DEF RelayInv, OwnerFacts, RetryBudget, ClaimedRow, TypeOK, TableTypeOK
    <3>2. /\ \A r \in Rows : status'[r] = IF r = c.id THEN "sent" ELSE status[r]
          /\ \A r \in Rows : attempts'[r] = IF r = c.id THEN attempts[c.id] ELSE attempts[r]
          /\ lock_version' = lock_version
      BY <2>1, <2>5, ApplySentWrites
    <3> QED BY <2>1, <2>2, <2>5, <3>1, <3>2, OwnerWriteStep
  <2> QED BY <2>4, <2>5
<1>13. ASSUME NEW t \in Ticks, NEW c \in batch[t], pc[t] = "markFailed", c = cur[t],
              CasReady(c), ApplyFailedAttempt(c), stored' = stored,
              \A u \in Ticks : batch'[u] \subseteq batch[u] /\ selected'[u] \subseteq selected[u],
              c \notin batch'[t],
              \A u \in Ticks : pc'[u] = "markSent" => pc[u] = "markSent" /\ cur'[u] = cur[u]
       PROVE  RelayInv'
  <2>1. c \in ClaimedRow
    BY <1>t
  <2>4. CASE ~StillOwned(c)
    BY <1>0, <1>13, <2>1, <2>4, ApplyFailedAttemptWrites, FrameStep
  <2>5. CASE StillOwned(c)
    <3> DEFINE att == c.attempts + 1
               st == IF att >= MaxAttempts THEN "failed" ELSE "pending"
    <3>1. att \in Nat /\ (st = "failed" <=> att = MaxAttempts) /\ att <= MaxAttempts /\ st # "sent"
      BY <2>5, OwnerFailureBudget
    <3>2. /\ \A r \in Rows : status'[r] = IF r = c.id THEN st ELSE status[r]
          /\ \A r \in Rows : attempts'[r] = IF r = c.id THEN att ELSE attempts[r]
          /\ lock_version' = lock_version
      BY <1>13, <2>1, <2>5, ApplyFailedAttemptWrites
    <3> HIDE DEF att, st
    <3> QED BY <1>13, <2>5, <3>1, <3>2, OwnerWriteStep
  <2> QED BY <2>4, <2>5
<1>14. ASSUME NEW t \in Ticks, MarkFailedAttempt(t) PROVE RelayInv'
  BY <1>t, <1>13, <1>14, FinishRowLetsGo DEF MarkFailedAttempt, broker
<1>15. ASSUME NEW t \in Ticks, MarkFailedAttemptReplyLost(t) PROVE RelayInv'
  <2>1. InstanceOf[t] \in Instances
    BY RelayAssumption
  <2> QED BY <1>t, <1>13, <1>15, <2>1, KillLetsGo DEF MarkFailedAttemptReplyLost, broker
<1>16. ASSUME NEW i \in Instances, Kill(i), UNCHANGED <<table, broker>> PROVE RelayInv'
  BY <1>0, <1>16, KillLetsGo, FrameStep DEF table, broker
<1>17. ASSUME NEW t \in Ticks, MarkFailedAttemptFails(t) PROVE RelayInv'
  BY <1>16, <1>17, RelayAssumption DEF MarkFailedAttemptFails
<1>18. ASSUME NEW i \in Instances, Exit(i) PROVE RelayInv'
  BY <1>16, <1>18 DEF Exit
<1>19. ASSUME NEW i \in Instances, ReapStaleLocks(i) \/ ModuleDestroy(i) \/ ModuleInit(i)
       PROVE RelayInv'
  BY <1>0, <1>19, FrameStep DEF ReapStaleLocks, ModuleDestroy, ModuleInit, table, local, broker
<1>20. ASSUME NEW r \in Rows, ReplayById(r) PROVE RelayInv'
  BY <1>20, ReplayStep DEF ReplayById
<1>21. ASSUME ReplayAllFailed PROVE RelayInv'
  BY <1>21, ReplayStep DEF ReplayAllFailed
<1>22. CASE UNCHANGED vars
  BY <1>0, <1>22, FrameStep DEF vars, table, local, broker
<1> QED
  BY <1>1, <1>2, <1>3, <1>4, <1>5, <1>6, <1>7, <1>8, <1>9, <1>10, <1>11, <1>12, <1>14, <1>15,
     <1>17, <1>18, <1>19, <1>20, <1>21, <1>22
     DEF Next, TickStep, DatabaseError

------------------------------------------------------------------------------
\* The inductive invariant holds in every reachable state.
THEOREM RelayInvariant == Spec => []RelayInv
<1>1. Init => RelayInv
  BY RelayAssumption DEF Init, RelayInv, TokensIssued, TokensUnique, OwnerFacts, SelectedPending,
     ConfirmedBeforeMark, SentOnlyAfterConfirm, RetryBudget
<1> QED BY <1>1, InvStep, RelayTyping, PTL DEF Spec

\* publishOne() and markSent(): a sent row was confirmed by the broker.
THEOREM SentIsConfirmed == Spec => []SentOnlyAfterConfirm
<1>1. RelayInv => SentOnlyAfterConfirm
  BY DEF RelayInv
<1> QED BY <1>1, RelayInvariant, PTL

\* claimBatch(): the fencing token singles out one claimant.
THEOREM FencingTokenHasOneOwner == Spec => []OneOwner
<1>1. RelayInv => OneOwner
  BY DEF RelayInv, TokensUnique, OneOwner, StillOwned
<1> QED BY <1>1, RelayInvariant, PTL

\* markFailedAttempt(): the attempts an accepted write starts from are current.
THEOREM OwnerIsUpToDate == Spec => []OwnerReadCurrentAttempts
<1>1. RelayInv => OwnerReadCurrentAttempts
  BY DEF RelayInv, OwnerFacts, OwnerReadCurrentAttempts
<1> QED BY <1>1, RelayInvariant, PTL

\* computeFailureOutcome(): a row fails exactly when its budget is used up.
THEOREM BudgetIsExact == Spec => []RetryBudget
<1>1. RelayInv => RetryBudget
  BY DEF RelayInv
<1> QED BY <1>1, RelayInvariant, PTL

\* What one step can do to the status and the attempts of a row.
LEMMA RowStep ==
    ASSUME TypeOK, RelayInv, [Next]_vars, NEW r \in Rows
    PROVE  \/ status'[r] = status[r] /\ attempts'[r] = attempts[r]
           \/ status[r] = "absent" /\ attempts'[r] = attempts[r]
           \/ status'[r] = "sent" /\ attempts'[r] = attempts[r]
           \/ /\ attempts'[r] = attempts[r] + 1
              /\ status[r] = "pending" \/ (LoseReplies /\ status[r] = "sent")
           \/ status[r] = "failed" /\ status'[r] = "pending" /\ attempts'[r] = 0
<1> DEFINE Goal == \/ status'[r] = status[r] /\ attempts'[r] = attempts[r]
                   \/ status[r] = "absent" /\ attempts'[r] = attempts[r]
                   \/ status'[r] = "sent" /\ attempts'[r] = attempts[r]
                   \/ /\ attempts'[r] = attempts[r] + 1
                      /\ status[r] = "pending" \/ (LoseReplies /\ status[r] = "sent")
                   \/ status[r] = "failed" /\ status'[r] = "pending" /\ attempts'[r] = 0
<1>t. \A t \in Ticks : /\ \A c \in batch[t] : c \in ClaimedRow
                       /\ pc[t] \in {"confirming", "markSent", "markFailed"} => cur[t] \in batch[t]
  BY DEF TypeOK, LocalTypeOK
<1>1. CASE UNCHANGED <<status, attempts>>
  BY <1>1
<1>2. ASSUME NEW q \in Rows, InsertRow(q) PROVE Goal
  BY <1>2 DEF InsertRow, TypeOK, TableTypeOK
<1>3. ASSUME NEW t \in Ticks, NEW c \in batch[t], ApplySent(c) PROVE Goal
  <2>1. c \in ClaimedRow
    BY <1>t
  <2>2. CASE StillOwned(c)
    BY <1>3, <2>1, <2>2, ApplySentWrites
  <2>3. CASE ~StillOwned(c)
    BY <1>3, <2>1, <2>3, ApplySentWrites
  <2> QED BY <2>2, <2>3
<1>4. ASSUME NEW t \in Ticks, NEW c \in batch[t], ApplyFailedAttempt(c) PROVE Goal
  <2>1. c \in ClaimedRow
    BY <1>t
  <2>2. CASE StillOwned(c)
    <3>1. /\ c.attempts = attempts[c.id]
          /\ status[c.id] = "pending" \/ (LoseReplies /\ status[c.id] = "sent")
      BY <2>2 DEF RelayInv, OwnerFacts
    <3> QED BY <1>4, <2>1, <2>2, <3>1, ApplyFailedAttemptWrites
  <2>3. CASE ~StillOwned(c)
    BY <1>4, <2>1, <2>3, ApplyFailedAttemptWrites
  <2> QED BY <2>2, <2>3
<1>5. ASSUME NEW R \in SUBSET Rows, NEW order, Replay(R, order) PROVE Goal
  BY <1>5 DEF Replay, TypeOK, TableTypeOK
<1> HIDE DEF Goal
<1>6. ASSUME NEW t \in Ticks, MarkSent(t) \/ MarkSentReplyLost(t) PROVE Goal
  BY <1>t, <1>3, <1>6 DEF MarkSent, MarkSentReplyLost
<1>7. ASSUME NEW t \in Ticks, MarkFailedAttempt(t) \/ MarkFailedAttemptReplyLost(t) PROVE Goal
  BY <1>t, <1>4, <1>7 DEF MarkFailedAttempt, MarkFailedAttemptReplyLost
<1>8. ASSUME (\E q \in Rows : ReplayById(q)) \/ ReplayAllFailed PROVE Goal
  BY <1>5, <1>8 DEF ReplayById, ReplayAllFailed
<1>9. ASSUME NEW t \in Ticks,
             \/ ClaimSelect(t) \/ ClaimReturns(t) \/ PublishThrows(t) \/ ConfirmResolves(t)
             \/ ConfirmRejects(t) \/ ClaimFails(t) \/ ClaimReplyLost(t) \/ MarkSentFails(t)
             \/ MarkFailedAttemptFails(t) \/ \E next \in {"confirming", "markFailed"} : Publish(t, next)
      PROVE UNCHANGED <<status, attempts>>
  BY <1>9 DEF ClaimSelect, ClaimReturns, PublishThrows, ConfirmResolves, ConfirmRejects, ClaimFails,
     ClaimReplyLost, MarkSentFails, MarkFailedAttemptFails, Publish, BumpSelected, table
<1>10. ASSUME \/ \E q \in Rows : RetryTimePasses(q) \/ LockTtlPasses(q)
              \/ \E k \in wire : BrokerStores(k) \/ BrokerLoses(k)
              \/ \E i \in Instances : ReapStaleLocks(i) \/ ModuleDestroy(i) \/ Exit(i) \/ ModuleInit(i)
              \/ UNCHANGED vars
       PROVE UNCHANGED <<status, attempts>>
  BY <1>10 DEF RetryTimePasses, LockTtlPasses, BrokerStores, BrokerLoses, ReapStaleLocks,
     ModuleDestroy, Exit, ModuleInit, vars, table
<1>11. Goal
  BY <1>1, <1>2, <1>6, <1>7, <1>8, <1>9, <1>10 DEF Next, TickStep, DatabaseError, Goal
<1> QED BY <1>11 DEF Goal

\* No competing claimant, crash or lost reply makes a failure count twice or
\* be forgotten.
THEOREM FailuresAreCountedOnce == Spec => NoLostFailure
<1>1. TypeOK /\ RelayInv /\ [Next]_vars =>
         [\A r \in Rows : \/ attempts'[r] \in {attempts[r], attempts[r] + 1}
                          \/ status[r] = "failed" /\ status'[r] = "pending" /\ attempts'[r] = 0]_vars
  <2> SUFFICES ASSUME TypeOK, RelayInv, [Next]_vars, NEW r \in Rows
               PROVE  \/ attempts'[r] \in {attempts[r], attempts[r] + 1}
                      \/ status[r] = "failed" /\ status'[r] = "pending" /\ attempts'[r] = 0
    OBVIOUS
  <2> QED BY RowStep
<1> QED BY <1>1, RelayInvariant, RelayTyping, PTL DEF Spec, NoLostFailure

\* When no reply of a committed statement is lost, sent is final.
THEOREM SentStaysSent == ASSUME ~LoseReplies PROVE Spec => SentIsFinal
<1>1. TypeOK /\ RelayInv /\ [Next]_vars =>
         [\A r \in Rows : status[r] = "sent" => status'[r] = "sent"]_vars
  <2> SUFFICES ASSUME TypeOK, RelayInv, [Next]_vars, NEW r \in Rows, status[r] = "sent"
               PROVE  status'[r] = "sent"
    OBVIOUS
  <2> QED BY RowStep
<1> QED BY <1>1, RelayInvariant, RelayTyping, PTL DEF Spec, SentIsFinal

==============================================================================
