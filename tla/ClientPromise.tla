---------------------------- MODULE ClientPromise ----------------------------
(***************************************************************************)
(* What start(), stop() and force_stop() of a Client promise to threads    *)
(* that call them at the same time, without processes, transports or       *)
(* locks: a call of start() either finds the client connected or makes a   *)
(* connection of its own, undisturbed, and what state() says is what the   *)
(* last of them left.                                                      *)
(***************************************************************************)
CONSTANTS Starts, None

VARIABLES state,     \* what state() returns
          outcome,   \* what each call of start() has come to
          serving    \* the connection that serves a client that says Connected

vars == <<state, outcome, serving>>

Init ==
    /\ state = "Disconnected" /\ serving = None
    /\ outcome = [c \in Starts |-> "idle"]

Undisturbed == \A c \in Starts : outcome[c] # "making"

FindsConnected(c) ==
    /\ outcome[c] = "idle" /\ state = "Connected"
    /\ outcome' = [outcome EXCEPT ![c] = "returned"]
    /\ UNCHANGED <<state, serving>>

Begin(c) ==
    /\ outcome[c] = "idle" /\ state # "Connected" /\ Undisturbed
    /\ outcome' = [outcome EXCEPT ![c] = "making"]
    /\ state' = "Connecting"
    /\ UNCHANGED serving

Succeed(c) ==
    /\ outcome[c] = "making"
    /\ outcome' = [outcome EXCEPT ![c] = "returned"]
    /\ state' = "Connected" /\ serving' = c

Fail(c) ==
    /\ outcome[c] = "making"
    /\ outcome' = [outcome EXCEPT ![c] = "threw"]
    /\ state' = "Error"
    /\ UNCHANGED serving

\* stop() or force_stop().
Disconnect ==
    /\ Undisturbed
    /\ state' = "Disconnected" /\ serving' = None
    /\ UNCHANGED outcome

Next ==
    \/ \E c \in Starts : FindsConnected(c) \/ Begin(c) \/ Succeed(c) \/ Fail(c)
    \/ Disconnect

Spec == Init /\ [][Next]_vars
=============================================================================
