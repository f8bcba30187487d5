------------------------------ MODULE RpcCalls ------------------------------
(***************************************************************************)
(* What JsonRpcClient promises to the code that calls it, without threads, *)
(* locks, clocks or a wire: a request is issued once, ends at most once,   *)
(* and ends with an answer only if the peer was asked and answered it.     *)
(***************************************************************************)
CONSTANT Req                \* the requests a client issues

VARIABLES call,             \* what the caller of a request observes
          asked,            \* requests that reached the peer
          answered          \* requests the peer has answered

vars == <<call, asked, answered>>

Answers  == {"result", "error"}
Failures == {"timeout", "closed", "threw"}

Init == /\ call = [r \in Req |-> "idle"]
        /\ asked = {}
        /\ answered = {}

Issue(r) == /\ call[r] = "idle"
            /\ call' = [call EXCEPT ![r] = "open"]
            /\ UNCHANGED <<asked, answered>>

\* Only a request that is still open goes on the wire.
Ask(r) == /\ call[r] = "open"
          /\ asked' = asked \cup {r}
          /\ UNCHANGED <<call, answered>>

Answer(r) == /\ r \in asked
             /\ answered' = answered \cup {r}
             /\ UNCHANGED <<call, asked>>

End(r, o) == /\ call[r] = "open"
             /\ o \in Answers => r \in answered
             /\ call' = [call EXCEPT ![r] = o]
             /\ UNCHANGED <<asked, answered>>

Next == \E r \in Req : \/ Issue(r) \/ Ask(r) \/ Answer(r)
                       \/ \E o \in Answers \cup Failures : End(r, o)

Spec == Init /\ [][Next]_vars
=============================================================================
