-------------------------------- MODULE Outbox --------------------------------
(***************************************************************************)
(* What a transactional outbox promises, without ticks, claims, tokens or  *)
(* processes: gateway_outbox_events with GatewayOutboxRelayService and     *)
(* GatewayOutboxAdminService as their callers see them.  OutboxRelay       *)
(* implements it; Platform is built from two copies of it.                 *)
(***************************************************************************)
CONSTANTS Rows,       \* outbox row ids
          MayForget   \* may a committed markSent() be taken for a failed one?

VARIABLES status,     \* the status column; "absent": no such row yet
          delivered   \* rows the broker has confirmed at least once

vars == <<status, delivered>>

Init ==
    /\ status = [r \in Rows |-> "absent"]
    /\ delivered = {}

\* runWithOutboxEvent() commits.
Insert(r) ==
    /\ status[r] = "absent"
    /\ status' = [status EXCEPT ![r] = "pending"]
    /\ UNCHANGED delivered

\* publishOne(): the broker takes the row's message.  A row may be delivered
\* again at any later time, by a slow claimant or after a replay.
Deliver(r) ==
    /\ status[r] # "absent"
    /\ delivered' = delivered \cup {r}
    /\ UNCHANGED status

\* markSent(), only of what the broker has confirmed.
MarkSent(r) ==
    /\ status[r] = "pending"
    /\ r \in delivered
    /\ status' = [status EXCEPT ![r] = "sent"]
    /\ UNCHANGED delivered

\* markFailedAttempt() with the budget used up.
GiveUp(r) ==
    /\ status[r] = "pending"
    /\ status' = [status EXCEPT ![r] = "failed"]
    /\ UNCHANGED delivered

\* publishOne()'s catch: the reply of markSent() was lost, and
\* markFailedAttempt() overwrites what it had committed.
TakeBack(r) ==
    /\ MayForget
    /\ status[r] = "sent"
    /\ \E s \in {"pending", "failed"} : status' = [status EXCEPT ![r] = s]
    /\ UNCHANGED delivered

\* replayById() and replayAllFailed(): an operator's second chance for failed
\* rows, and for no others.
Replay(R) ==
    /\ R # {}
    /\ \A r \in R : status[r] = "failed"
    /\ status' = [r \in Rows |-> IF r \in R THEN "pending" ELSE status[r]]
    /\ UNCHANGED delivered

RowStep(r) == Insert(r) \/ Deliver(r) \/ MarkSent(r) \/ GiveUp(r) \/ TakeBack(r)

Next ==
    \/ \E r \in Rows : RowStep(r)
    \/ \E R \in SUBSET Rows : Replay(R)

Spec == Init /\ [][Next]_vars

==============================================================================
