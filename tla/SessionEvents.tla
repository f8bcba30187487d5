--------------------------- MODULE SessionEvents ---------------------------
(***************************************************************************)
(* The event handlers of a session (Session::on, dispatch_event and the    *)
(* Subscription of src/session.cpp and session.hpp) and the call that is   *)
(* built on them, send_and_wait: it subscribes, sends, and waits on a      *)
(* condition variable of its own stack frame for the session to be idle.   *)
(*                                                                         *)
(* The read thread of the connection reads the answers to requests and the *)
(* events of the session in the order in which the server sends them.  The *)
(* server, which is not part of the repository, does one turn for every    *)
(* message, one after the other: an assistant message or none, then idle   *)
(* or an error.                                                            *)
(*                                                                         *)
(* A definition named ...Bug is a faulty variant of the one that follows   *)
(* it and no part of Next.                                                 *)
(***************************************************************************)
EXTENDS Naturals, Sequences, SequencesExt

CONSTANTS Waits,   \* calls of send_and_wait
          Plain,   \* messages sent with send() alone
          Nothing

Turns == Waits \cup Plain

ASSUME EventsAssumption == Waits \cap Plain = {} /\ Nothing \notin Turns

VARIABLES
    turns,      \* the messages the server has not finished, in order
    spoke,      \* the turns that have had their assistant message
    over,       \* the turns whose last event has been read
    responded,  \* the sends the server has answered
    handlers,   \* event_handlers_: the waits that are subscribed
    event,      \* the event that the read thread has in hand
    copied,     \* handlers_copy: those it has still to call with it
    call,       \* where each send_and_wait is
    done,       \* its locals: done,
    last,       \* last_assistant_message,
    failed,     \* error_message
    result,     \* what it returned
    disturbed,  \* the waits that heard of another turn than theirs
    crashed     \* a handler was called whose frame was gone

serverVars == <<turns, spoke, over, responded>>
readVars   == <<event, copied>>
frameVars  == <<done, last, failed>>
vars == <<serverVars, handlers, readVars, call, frameVars, result, disturbed, crashed>>

WaitPc == {"idle", "on", "sending", "waiting", "woken", "unwinding", "returned"}
NoEvent == [kind |-> "none", of |-> Nothing]
Events  == {NoEvent} \cup [kind : {"message", "idle", "error"}, of : Turns]

Init ==
    /\ turns = <<>> /\ spoke = {} /\ over = {} /\ responded = {}
    /\ handlers = <<>>
    /\ event = NoEvent /\ copied = <<>>
    /\ call = [w \in Waits |-> "idle"]
    /\ done = [w \in Waits |-> FALSE]
    /\ last = [w \in Waits |-> Nothing]
    /\ failed = [w \in Waits |-> FALSE]
    /\ result = [w \in Waits |-> "none"]
    /\ disturbed = {} /\ crashed = FALSE

-----------------------------------------------------------------------------
(* send_and_wait, on the thread of its future.                             *)

Goto(w, pc) == call' = [call EXCEPT ![w] = pc]

\* The message is sent first, and the handler subscribed when it is answered.
SubscribesBug(w) ==
    \/ /\ call[w] = "idle"
       /\ Goto(w, "on")
       /\ UNCHANGED handlers
       /\ UNCHANGED <<serverVars, readVars, frameVars, result, disturbed, crashed>>
    \/ /\ call[w] = "waiting" /\ ~\E k \in 1..Len(handlers) : handlers[k] = w
       /\ handlers' = Append(handlers, w)
       /\ UNCHANGED <<serverVars, readVars, call, frameVars, result, disturbed, crashed>>

\* on(): the handler and its id go to the end of event_handlers_.
Subscribes(w) ==
    /\ call[w] = "idle"
    /\ handlers' = Append(handlers, w)
    /\ Goto(w, "on")
    /\ UNCHANGED <<serverVars, readVars, frameVars, result, disturbed, crashed>>

\* send(options).get(): the server has the message ...
Sends(w) ==
    /\ call[w] = "on"
    /\ turns' = Append(turns, w)
    /\ Goto(w, "sending")
    /\ UNCHANGED <<spoke, over, responded, handlers, readVars, frameVars, result, disturbed,
                   crashed>>

\* ... or it could not be sent, was refused, or was not answered in 30 s, and the
\* exception unwinds the frame.
SendFails(w) ==
    /\ call[w] \in {"on", "sending"}
    /\ result' = [result EXCEPT ![w] = "send failed"]
    /\ Goto(w, "unwinding")
    /\ UNCHANGED <<serverVars, handlers, readVars, frameVars, disturbed, crashed>>

\* The answer is read between two events.
SendReturns(w) ==
    /\ call[w] = "sending" /\ w \in responded /\ event = NoEvent
    /\ Goto(w, "waiting")
    /\ UNCHANGED <<serverVars, handlers, readVars, frameVars, result, disturbed, crashed>>

\* wait_for returns when done is set, and looks at it once more when the limit has
\* passed.
Wakes(w) ==
    /\ call[w] = "waiting" /\ done[w]
    /\ Goto(w, "woken")
    /\ UNCHANGED <<serverVars, handlers, readVars, frameVars, result, disturbed, crashed>>

TimesOut(w) ==
    /\ call[w] = "waiting" /\ ~done[w]
    /\ result' = [result EXCEPT ![w] = "timeout"]
    /\ Goto(w, "unwinding")
    /\ UNCHANGED <<serverVars, handlers, readVars, frameVars, disturbed, crashed>>

\* mtx is released; the error and the message are read without it.
Results(w) ==
    /\ call[w] = "woken"
    /\ result' = [result EXCEPT ![w] = IF failed[w] THEN "error" ELSE "message"]
    /\ Goto(w, "unwinding")
    /\ UNCHANGED <<serverVars, handlers, readVars, frameVars, disturbed, crashed>>

\* The handler leaves an empty place.
EmptiesBug(w) ==
    /\ call[w] = "unwinding"
    /\ handlers' = [k \in 1..Len(handlers) |->
                       IF handlers[k] = w THEN Nothing ELSE handlers[k]]
    /\ Goto(w, "returned")
    /\ UNCHANGED <<serverVars, readVars, frameVars, result, disturbed, crashed>>

\* The subscription is destroyed, and erases the handler with its id; then go the locals
\* that the handler refers to.
Unsubscribes(w) ==
    /\ call[w] = "unwinding"
    /\ \E k \in 1..Len(handlers) : handlers[k] = w /\ handlers' = RemoveAt(handlers, k)
    /\ Goto(w, "returned")
    /\ UNCHANGED <<serverVars, readVars, frameVars, result, disturbed, crashed>>

WaitStep(w) ==
    \/ Subscribes(w) \/ Sends(w) \/ SendFails(w) \/ SendReturns(w) \/ Wakes(w) \/ TimesOut(w)
    \/ Results(w) \/ Unsubscribes(w)

-----------------------------------------------------------------------------
(* The server, and a send() that nobody waits for.                         *)

PlainSends(p) ==
    /\ p \notin over /\ event.of # p /\ ~\E k \in 1..Len(turns) : turns[k] = p
    /\ turns' = Append(turns, p)
    /\ UNCHANGED <<spoke, over, responded, handlers, readVars, call, frameVars, result,
                   disturbed, crashed>>

Responds(w) ==
    /\ w \notin responded /\ call[w] = "sending"
    /\ responded' = responded \cup {w}
    /\ UNCHANGED <<turns, spoke, over, handlers, readVars, call, frameVars, result, disturbed,
                   crashed>>

-----------------------------------------------------------------------------
(* The read thread.                                                        *)

\* dispatch_event with the next event of the server: the handlers are copied under
\* handlers_mutex_.
Reads(kind) ==
    /\ event = NoEvent /\ turns # <<>>
    /\ event' = [kind |-> kind, of |-> Head(turns)]
    /\ copied' = handlers
    /\ IF kind = "message"
       THEN Head(turns) \notin spoke /\ spoke' = spoke \cup {Head(turns)} /\ UNCHANGED turns
       ELSE UNCHANGED spoke /\ turns' = Tail(turns)
    /\ UNCHANGED <<over, responded, handlers, call, frameVars, result, disturbed, crashed>>

\* An assistant message ends the wait, too.
CallsBug ==
    /\ copied # <<>> /\ copied' = Tail(copied)
    /\ LET w == Head(copied)
       IN  IF call[w] = "returned"
           THEN crashed' = TRUE /\ UNCHANGED <<frameVars, disturbed>>
           ELSE /\ last' = IF event.kind # "message" THEN last
                           ELSE [last EXCEPT ![w] = event.of]
                /\ done' = [done EXCEPT ![w] = TRUE]
                /\ failed' = [failed EXCEPT ![w] = @ \/ event.kind = "error"]
                /\ disturbed' = IF event.of = w THEN disturbed ELSE disturbed \cup {w}
                /\ UNCHANGED crashed
    /\ UNCHANGED <<serverVars, handlers, event, call, result>>

\* One after the other, each under the mtx of its wait.  The frame of a wait that has
\* returned is gone, and with it the mutex and the variables that its handler refers to.
Calls ==
    /\ copied # <<>> /\ copied' = Tail(copied)
    /\ LET w == Head(copied)
       IN  IF call[w] = "returned"
           THEN crashed' = TRUE /\ UNCHANGED <<frameVars, disturbed>>
           ELSE /\ IF event.kind = "message"
                   THEN last' = [last EXCEPT ![w] = event.of] /\ UNCHANGED <<done, failed>>
                   ELSE /\ done' = [done EXCEPT ![w] = TRUE]
                        /\ failed' = [failed EXCEPT ![w] = @ \/ event.kind = "error"]
                        /\ UNCHANGED last
                /\ disturbed' = IF event.of = w THEN disturbed ELSE disturbed \cup {w}
                /\ UNCHANGED crashed
    /\ UNCHANGED <<serverVars, handlers, event, call, result>>

Dispatched ==
    /\ event # NoEvent /\ copied = <<>>
    /\ event' = NoEvent
    /\ over' = IF event.kind = "message" THEN over ELSE over \cup {event.of}
    /\ UNCHANGED <<turns, spoke, responded, handlers, copied, call, frameVars, result,
                   disturbed, crashed>>

-----------------------------------------------------------------------------

Steps ==
    \/ \E w \in Waits : WaitStep(w) \/ Responds(w)
    \/ \E p \in Plain : PlainSends(p)
    \/ \E kind \in {"message", "idle", "error"} : Reads(kind)
    \/ Calls \/ Dispatched

Next == ~crashed /\ Steps

Spec == Init /\ [][Next]_vars

-----------------------------------------------------------------------------
(* Properties.                                                             *)

TypeOK ==
    /\ turns \in Seq(Turns)
    /\ spoke \subseteq Turns /\ over \subseteq Turns /\ responded \subseteq Waits
    /\ handlers \in Seq(Waits) /\ copied \in Seq(Waits)
    /\ event \in Events
    /\ call \in [Waits -> WaitPc]
    /\ done \in [Waits -> BOOLEAN] /\ failed \in [Waits -> BOOLEAN]
    /\ last \in [Waits -> Turns \cup {Nothing}]
    /\ result \in [Waits -> {"none", "message", "error", "timeout", "send failed"}]
    /\ disturbed \subseteq Waits /\ crashed \in BOOLEAN

\* The end of its own turn is never missed: when the idle or the error event of a
\* message has been dispatched, the send_and_wait that sent it has it, however early the
\* event came.
OwnEndIsHeard ==
    \A w \in Waits : w \in over /\ call[w] \in {"on", "sending", "waiting"} => done[w]

\* send_and_wait of a session on which nothing else is going on gives what its own turn
\* gave: its assistant message, or none when there was none.
UndisturbedGetsItsAnswer ==
    \A w \in Waits \ disturbed :
        result[w] = "message" => /\ w \notin {turns[k] : k \in 1..Len(turns)}
                                 /\ last[w] = IF w \in spoke THEN w ELSE Nothing

\* "Automatically unsubscribes when destroyed": no handler is called with an event once
\* its subscription is gone.  It does not hold: an event whose handlers were copied before
\* send_and_wait returned is still brought to its handler, which finds no frame.
NoCallAfterUnsubscribe == ~crashed
=============================================================================
