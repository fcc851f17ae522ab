------------------------------ MODULE MCConsumer ------------------------------
(***************************************************************************)
(* Small instances of Consumer for TLC.                                    *)
(***************************************************************************)
EXTENDS Consumer, TLC

CONSTANTS e1, bad, old,  \* a contract event, an invalid one, a test-rabbit one
          p1, p2,        \* processes
          s1, s2, s3     \* s1 and s3 belong to p1, s2 to p2

TwoSlots == {s1, s2}
TwoProcesses == s1 :> p1 @@ s2 :> p2

OneProcess == s1 :> p1 @@ s3 :> p1

==============================================================================
