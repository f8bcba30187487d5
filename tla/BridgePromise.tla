---------------------------- MODULE BridgePromise ----------------------------
(***************************************************************************)
(* What CopilotRequestHandlerBridge promises to the server, without        *)
(* threads, flags or a connection: an exchange is answered only when the   *)
(* server has asked for it, message by message in the order of a response, *)
(* and not at all once it is withdrawn, which is possible only before its  *)
(* answer has begun and then still up to the bridge: a cancel that comes   *)
(* too late for it withdraws nothing.                                      *)
(***************************************************************************)
EXTENDS Sequences

CONSTANT Exchanges

VARIABLES asked,      \* exchanges that the server has asked for in full
          response,   \* the messages it has been sent of each answer
          withdrawn   \* exchanges that will not be answered any more

vars == <<asked, response, withdrawn>>

\* What may follow the messages r of a response.  An error may come at any time, also
\* behind an end whose own answer was lost, but only once and as the last.
May(r, m) ==
    CASE m = "start"            -> r = <<>>
      [] m \in {"chunk", "end"} -> r # <<>> /\ r[Len(r)] \in {"start", "chunk"}
      [] m = "error"            -> r # <<>> => r[Len(r)] # "error"

Init ==
    /\ asked = {} /\ withdrawn = {}
    /\ response = [e \in Exchanges |-> <<>>]

Ask(e) ==
    /\ asked' = asked \cup {e}
    /\ UNCHANGED <<response, withdrawn>>

Say(e, m) ==
    /\ e \in asked \ withdrawn
    /\ May(response[e], m)
    /\ response' = [response EXCEPT ![e] = Append(@, m)]
    /\ UNCHANGED <<asked, withdrawn>>

\* By the server, or by the application for everything that is under way.
Withdraw(E) ==
    /\ \A e \in E : response[e] = <<>>
    /\ withdrawn' = withdrawn \cup E
    /\ UNCHANGED <<asked, response>>

Next ==
    \/ \E e \in Exchanges :
          Ask(e) \/ \E m \in {"start", "chunk", "end", "error"} : Say(e, m)
    \/ \E E \in SUBSET Exchanges : Withdraw(E)

Spec == Init /\ [][Next]_vars
=============================================================================
