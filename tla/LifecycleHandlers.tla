------------------------- MODULE LifecycleHandlers -------------------------
(***************************************************************************)
(* Client::on_lifecycle (src/client.cpp): lifecycle_handlers_ is a vector, *)
(* and a subscription finds its handler again by the address that it had   *)
(* in the vector when it was added.  The address is the buffer of the      *)
(* vector, which is replaced by one twice as large when it is full, and    *)
(* the place in it.  An old buffer is taken not to come back.              *)
(*                                                                         *)
(* Adding, removing and the calling of all handlers with an event are each *)
(* done under lifecycle_mutex_, and so one step.                           *)
(***************************************************************************)
EXTENDS Naturals, Sequences, SequencesExt

CONSTANT Subscriptions

VARIABLES handlers,  \* lifecycle_handlers_: whose handler is at each place
          buffer,    \* which buffer the vector is in
          capacity,  \* of that buffer
          address,   \* ptr of each subscription
          held,      \* the subscriptions that exist
          used,      \* those that have existed
          called     \* the handlers that the last event was given to

vars == <<handlers, buffer, capacity, address, held, used, called>>

Init ==
    /\ handlers = <<>> /\ buffer = 0 /\ capacity = 0
    /\ address = [s \in Subscriptions |-> <<0, 0>>]
    /\ held = {} /\ used = {} /\ called = {}

\* push_back, and the address of back().
OnLifecycle(s) ==
    /\ s \notin used
    /\ handlers' = Append(handlers, s)
    /\ IF Len(handlers) < capacity THEN UNCHANGED <<buffer, capacity>>
       ELSE buffer' = buffer + 1 /\ capacity' = IF capacity = 0 THEN 1 ELSE 2 * capacity
    /\ address' = [address EXCEPT ![s] = <<buffer', Len(handlers')>>]
    /\ held' = held \cup {s} /\ used' = used \cup {s}
    /\ UNCHANGED called

\* remove_if and erase: what is at the address goes, if there is anything.
Unsubscribes(s) ==
    /\ s \in held
    /\ held' = held \ {s}
    /\ handlers' = IF address[s][1] = buffer /\ address[s][2] <= Len(handlers)
                   THEN RemoveAt(handlers, address[s][2]) ELSE handlers
    /\ UNCHANGED <<buffer, capacity, address, used, called>>

\* The read thread calls them all with a session.lifecycle event.
Dispatches ==
    /\ called' = ToSet(handlers)
    /\ UNCHANGED <<handlers, buffer, capacity, address, held, used>>

Next == Dispatches \/ \E s \in Subscriptions : OnLifecycle(s) \/ Unsubscribes(s)

Spec == Init /\ [][Next]_vars

\* "Automatically unsubscribes when destroyed": a lifecycle event is given to the handlers
\* whose subscription exists, to all of them and to no other.
EventsGoToSubscribers == [][called' # called => called' = held]_vars
=============================================================================
