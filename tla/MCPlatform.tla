------------------------------ MODULE MCPlatform ------------------------------
(***************************************************************************)
(* A small instance of Platform for TLC.                                   *)
(***************************************************************************)
EXTENDS Platform

AllTexts == {"System test message", "System test message (v2)", "hello"}

\* Envelopes that say hello, with any field malformed.
HelloEnvelopes ==
    {raw \in RawEnvelope : /\ raw.schemaVersion # "~1"
                           /\ raw.payload.text \in {"hello", "malformed"}
                           /\ raw.payload.extras \in {"absent", "malformed"}}

==============================================================================
