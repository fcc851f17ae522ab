--------------------------- MODULE MCServiceProcess ---------------------------
(***************************************************************************)
(* A small instance of ServiceProcess for TLC, without symmetry because    *)
(* the run checks liveness properties.                                     *)
(***************************************************************************)
EXTENDS ServiceProcess

CONSTANTS c1, c2

MCCallers == {c1, c2}

==============================================================================
