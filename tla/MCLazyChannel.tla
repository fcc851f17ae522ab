---------------------------- MODULE MCLazyChannel ----------------------------
(***************************************************************************)
(* Small instances of LazyChannel for TLC: three concurrent publishes, no  *)
(* symmetry because every run checks a liveness property.                  *)
(***************************************************************************)
EXTENDS LazyChannel

CONSTANTS c1, c2, c3

MCCallers == {c1, c2, c3}

==============================================================================
