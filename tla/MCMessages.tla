------------------------------ MODULE MCMessages ------------------------------
(***************************************************************************)
(* A small instance of Messages for TLC.                                   *)
(***************************************************************************)
EXTENDS Messages, TLC

CONSTANTS c1, c2, c3

MCCalls == {c1, c2, c3}
MCRequested == {0, 3}
MCSymmetry == Permutations(MCCalls)

==============================================================================
