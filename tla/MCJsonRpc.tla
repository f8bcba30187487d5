----------------------------- MODULE MCJsonRpc -----------------------------
(* Instances of JsonRpc for TLC.                                           *)
EXTENDS JsonRpc

CONSTANTS a, b, c

OneTick == [r \in Req |-> 1]
\* a has no timeout.
SomeUntimed   == [r \in Req |-> IF r = a THEN 0 ELSE 1]
\* b's deadline comes before that of a, registered earlier or not.
TwoDeadlines  == [r \in Req |-> IF r = a THEN 3 ELSE 1]
=============================================================================
