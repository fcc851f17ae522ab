---------------------------- MODULE MCOutboxRelay ----------------------------
(***************************************************************************)
(* Small instances of OutboxRelay for TLC.                                 *)
(***************************************************************************)
EXTENDS OutboxRelay, TLC

CONSTANTS i1, i2, t1, t2

\* Two processes, one tick each.
TwoProcesses == t1 :> i1 @@ t2 :> i2

\* One process whose ticks overlap.
OneProcess == t1 :> i1 @@ t2 :> i1

\* One process whose ticks never overlap.
OneTick == t1 :> i1

Symmetry == Permutations(Rows)

==============================================================================
