--------------------------- MODULE RequestBridge ---------------------------
(***************************************************************************)
(* CopilotRequestHandlerBridge (src/request_handler.cpp): the server asks  *)
(* the application to make its model requests.  An exchange is opened by   *)
(* httpRequestStart, fed by httpRequestChunk and answered with             *)
(* httpResponseStart and httpResponseChunk, which are requests to the      *)
(* server and are waited for.  handle() runs on the read thread of the     *)
(* JSON-RPC client, complete_http() on a detached thread of the exchange,  *)
(* and stop() cancels and drops the bridge from a third one.               *)
(*                                                                         *)
(* The chunks of a request's body are left out: the read thread collects   *)
(* them, and nobody else looks at them before the last one.  One           *)
(* connection is modelled, and what JsonRpc does with a request: its write *)
(* throws, or it is answered while the read thread reads, or fails by an   *)
(* error, by its limit of 30 s, or when the client has lost the server or  *)
(* has stopped.  The server may be lost at any time.                       *)
(*                                                                         *)
(* A definition named ...Bug is a faulty variant of the one that follows   *)
(* it and no part of Next.                                                 *)
(***************************************************************************)
EXTENDS Naturals, Sequences

CONSTANTS Http,       \* exchanges of the transport "http"
          WebSocket,  \* exchanges of the transport "websocket"
          MaxParts,   \* how many chunks a response of the handler has at most
          NoOne

Exchanges == Http \cup WebSocket

ASSUME BridgeAssumption ==
    /\ Http \cap WebSocket = {} /\ NoOne \notin Exchanges
    /\ MaxParts \in Nat

VARIABLES
    server,     \* what the server has sent of each exchange
    reader,     \* what the read thread is doing,
    at,         \* and with which exchange
    pending,    \* pending_
    cancelled,  \* the exchanges whose context is cancelled
    thread,     \* where complete_http is
    parts,      \* the number of chunks of the handler's response
    sent,       \* the messages of the response that have been sent and answered
    got,        \* the messages of the response that the server has
    unsaid,     \* the exchanges whose error could not be written
    accepted,   \* websockets whose status 101 the server has answered
    held,       \* request_handler_bridge_ is set
    alive,      \* the bridge exists
    rpc,        \* rpc_ is set
    running,    \* the JSON-RPC client: "up", running_ cleared by the read thread
                \* ("lost") or by its stop(), joined
    stop,       \* where stop() is
    doomed,     \* the exchanges that its cancel_all has taken
    lost,       \* the server's end of the connection is gone
    silenced,   \* exchanges cancelled before complete_http last looked at the flag
    crashed     \* a null rpc_ or a bridge that is no more was used

readVars   == <<reader, at>>
answerVars == <<parts, sent, got, unsaid>>
stopVars   == <<rpc, running, stop, doomed, lost>>
bridgeVars == <<held, alive>>
vars == <<server, readVars, pending, cancelled, thread, answerVars, accepted, bridgeVars,
          stopVars, silenced, crashed>>

ThreadPc == {"none", "begun", "handler", "returned", "threw", "sending", "waiting",
             "fail", "failing", "erase", "over"}
StopPc   == {"idle", "taken", "cancel", "reset", "close", "join", "done"}

Init ==
    /\ server = [e \in Exchanges |-> "idle"]
    /\ reader = "reading" /\ at = NoOne
    /\ pending = {} /\ cancelled = {} /\ accepted = {}
    /\ thread = [e \in Exchanges |-> "none"]
    /\ parts = [e \in Exchanges |-> 0]
    /\ sent = [e \in Exchanges |-> 0]
    /\ got = [e \in Exchanges |-> <<>>]
    /\ held = TRUE /\ alive = TRUE
    /\ rpc = TRUE /\ running = "up" /\ stop = "idle"
    /\ doomed = {} /\ unsaid = {} /\ silenced = {}
    /\ lost = FALSE /\ crashed = FALSE

-----------------------------------------------------------------------------

\* A response is its start and its chunks, of which the last one says "end"; one
\* without chunks gets an empty one.
Whole(n) ==
    [k \in 1..(IF n = 0 THEN 2 ELSE n + 1) |->
        CASE k = 1 -> "start" [] k > 1 /\ k >= n + 1 -> "end" [] OTHER -> "chunk"]

\* A complete_http that runs holds the bridge.
Active(e) == thread[e] \notin {"none", "over"}

\* complete_http has still to look at the flag: before the handler, after it, or in the
\* catch block while nothing is sent.  One that is past the look after the handler is
\* not told, though its first message is still to go, and answers in full.
Unanswered(e) ==
    got[e] = <<>> /\ thread[e] \in {"none", "begun", "handler", "returned", "threw"}

\* context.cancelled is set for the exchanges of E.
Cancel(E) ==
    /\ cancelled' = cancelled \cup E
    /\ silenced' = silenced \cup {e \in E : Unanswered(e)}

\* The detached threads do not own the bridge.
ReleaseBug(left) ==
    IF ~alive \/ held'
    THEN /\ UNCHANGED <<alive, cancelled, silenced>>
         /\ pending' = left
    ELSE /\ alive' = FALSE
         /\ Cancel(left)
         /\ pending' = {}

\* The bridge goes with its last owner, and ~CopilotRequestHandlerBridge cancels what
\* is still pending.
Release(left) ==
    IF ~alive \/ held' \/ \E e \in Exchanges : thread'[e] \notin {"none", "over"}
    THEN /\ UNCHANGED <<alive, cancelled, silenced>>
         /\ pending' = left
    ELSE /\ alive' = FALSE
         /\ Cancel(left)
         /\ pending' = {}

\* A request is answered when the read thread is free to read the answer.
Listens == reader = "reading"

\* An error, the limit of 30 s, or the sweep at the end of JsonRpcClient::stop: when the
\* read thread has lost the server, nobody is left for what is sent after its sweep.
RequestFails == running \in {"up", "stopped"}

-----------------------------------------------------------------------------
(* handle(), on the read thread.                                           *)

Goto(pc, e) == reader' = pc /\ at' = e

\* The exchange stays in hand.
GoesRoundBug == Goto(IF running = "up" THEN "reading" ELSE "ended", at)

\* handle() has returned or thrown: the next message, unless running_ is cleared.
GoesRound == Goto(IF running = "up" THEN "reading" ELSE "ended", NoOne)

InHandle == reader \in {"start", "end", "cancel", "mark", "erase", "spawn"}

\* What the server sends next of an exchange; it may cancel one while it is answered.
Follows(e, m) ==
    CASE m = "start"  -> server[e] = "idle"
      [] m = "end"    -> server[e] = "start"
      [] m = "cancel" -> server[e] \in {"start", "end"}

\* request_handler_bridge_ is tested and used without a lock.
Receives(e, m) ==
    /\ Listens /\ running # "stopped"
    /\ Follows(e, m)
    /\ server' = [server EXCEPT ![e] = m]
    /\ IF held THEN Goto(m, e) ELSE UNCHANGED readVars
    /\ UNCHANGED <<pending, cancelled, thread, answerVars, accepted, bridgeVars, stopVars,
                   silenced, crashed>>

\* The bridge was dropped by stop() under the read thread.
UsesDeadBridge ==
    /\ InHandle /\ ~alive
    /\ crashed' = TRUE
    /\ UNCHANGED <<server, readVars, pending, cancelled, thread, answerVars, accepted,
                   bridgeVars, stopVars, silenced>>

Registers ==
    /\ reader = "start" /\ alive /\ at \in Http
    /\ pending' = pending \cup {at}
    /\ GoesRound
    /\ UNCHANGED <<server, cancelled, thread, answerVars, accepted, bridgeVars, stopVars,
                   silenced, crashed>>

\* The handler does not take the websocket, and handle() throws.
RefusesWebSocket ==
    /\ reader = "start" /\ alive /\ at \in WebSocket
    /\ GoesRound
    /\ UNCHANGED <<server, pending, cancelled, thread, answerVars, accepted, bridgeVars,
                   stopVars, silenced, crashed>>

\* It does, and the status 101 is sent before the exchange is registered; the read
\* thread itself waits for the answer, unless the write throws and handle() with it.
OpensWebSocket ==
    /\ reader = "start" /\ alive /\ at \in WebSocket
    /\ IF rpc
       THEN /\ crashed' = FALSE
            /\ \/ /\ got' = IF lost THEN got ELSE [got EXCEPT ![at] = <<"start">>]
                  /\ Goto("opening", at)
               \/ got' = got /\ GoesRound
       ELSE crashed' = TRUE /\ UNCHANGED <<got, readVars>>
    /\ UNCHANGED <<server, pending, cancelled, thread, parts, sent, unsaid, accepted,
                   bridgeVars, stopVars, silenced>>

\* The server answers; nobody reads the answer.
ServerAccepts ==
    /\ reader = "opening" /\ running = "up" /\ at \notin accepted
    /\ got[at] # <<>> /\ ~lost
    /\ accepted' = accepted \cup {at}
    /\ UNCHANGED <<server, readVars, pending, cancelled, thread, answerVars, bridgeVars,
                   stopVars, silenced, crashed>>

\* The wait ends with the 30 s of the request, which the timeout thread counts while the
\* client runs, and handle() throws.
OpeningExpires ==
    /\ reader = "opening" /\ running = "up"
    /\ GoesRound
    /\ UNCHANGED <<server, pending, cancelled, thread, answerVars, accepted, bridgeVars,
                   stopVars, silenced, crashed>>

\* A chunk of an exchange that is not pending is ignored.
LooksUp ==
    /\ reader \in {"end", "cancel"} /\ alive
    /\ IF at \notin pending THEN GoesRound
       ELSE Goto(IF reader = "end" THEN "spawn" ELSE "mark", at)
    /\ UNCHANGED <<server, pending, cancelled, thread, answerVars, accepted, bridgeVars,
                   stopVars, silenced, crashed>>

Marks ==
    /\ reader = "mark" /\ alive
    /\ Cancel({at})
    /\ Goto("erase", at)
    /\ UNCHANGED <<server, pending, thread, answerVars, accepted, bridgeVars, stopVars,
                   crashed>>

\* The cancelled exchange is left to complete_http.
ErasesBug ==
    /\ reader = "erase" /\ alive
    /\ GoesRound
    /\ UNCHANGED <<server, pending, cancelled, thread, answerVars, accepted, bridgeVars,
                   stopVars, silenced, crashed>>

Erases ==
    /\ reader = "erase" /\ alive
    /\ pending' = pending \ {at}
    /\ GoesRound
    /\ UNCHANGED <<server, cancelled, thread, answerVars, accepted, bridgeVars, stopVars,
                   silenced, crashed>>

\* The last chunk of an http request starts the detached thread.
Spawns ==
    /\ reader = "spawn" /\ alive
    /\ thread' = [thread EXCEPT ![at] = "begun"]
    /\ GoesRound
    /\ UNCHANGED <<server, pending, cancelled, answerVars, accepted, bridgeVars, stopVars,
                   silenced, crashed>>

ReaderEnds ==
    /\ Listens /\ running = "stopping"
    /\ Goto("ended", NoOne)
    /\ UNCHANGED <<server, pending, cancelled, thread, answerVars, accepted, bridgeVars,
                   stopVars, silenced, crashed>>

\* The read thread finds the connection closed: it clears running_, fails the requests
\* that are under way and ends.
ReaderLoses ==
    /\ Listens /\ lost /\ running = "up"
    /\ Goto("ended", NoOne) /\ running' = "lost"
    /\ thread' = [e \in Exchanges |->
                     CASE thread[e] = "waiting" -> "threw"
                       [] thread[e] = "failing" -> "erase"
                       [] OTHER -> thread[e]]
    /\ UNCHANGED <<server, pending, cancelled, answerVars, accepted, bridgeVars, rpc, stop,
                   doomed, lost, silenced, crashed>>

ReaderStep ==
    \/ UsesDeadBridge \/ Registers \/ RefusesWebSocket \/ OpensWebSocket \/ OpeningExpires
    \/ LooksUp \/ Marks \/ Erases \/ Spawns \/ ReaderEnds \/ ReaderLoses

\* The server goes, or the network to it.
PeerLost ==
    /\ ~lost /\ lost' = TRUE
    /\ UNCHANGED <<server, readVars, pending, cancelled, thread, answerVars, accepted,
                   bridgeVars, rpc, running, stop, doomed, silenced, crashed>>

-----------------------------------------------------------------------------
(* complete_http.                                                          *)

ThreadGoto(e, pc) == thread' = [thread EXCEPT ![e] = pc]

\* The early returns leave pending_ to whoever cancelled.
Returns(e) == ThreadGoto(e, "over") /\ UNCHANGED held /\ Release(pending)

Continues(e, pc) ==
    ThreadGoto(e, pc) /\ UNCHANGED <<bridgeVars, pending, cancelled, silenced>>

Begins(e) ==
    /\ thread[e] = "begun"
    /\ IF e \in cancelled THEN Returns(e) ELSE Continues(e, "handler")
    /\ UNCHANGED <<server, readVars, answerVars, accepted, stopVars, crashed>>

HandlerReturns(e) ==
    /\ thread[e] = "handler"
    /\ \E n \in 0..MaxParts : parts' = [parts EXCEPT ![e] = n]
    /\ Continues(e, "returned")
    /\ UNCHANGED <<server, readVars, sent, got, unsaid, accepted, stopVars, crashed>>

HandlerThrows(e) ==
    /\ thread[e] = "handler"
    /\ Continues(e, "threw")
    /\ UNCHANGED <<server, readVars, answerVars, accepted, stopVars, crashed>>

\* The second look at the flag is missing.
TestsBug(e) ==
    /\ thread[e] = "returned"
    /\ Continues(e, "sending")
    /\ UNCHANGED <<server, readVars, answerVars, accepted, stopVars, crashed>>

Tests(e) ==
    /\ thread[e] = "returned"
    /\ IF e \in cancelled THEN Returns(e) ELSE Continues(e, "sending")
    /\ UNCHANGED <<server, readVars, answerVars, accepted, stopVars, crashed>>

\* send_rpc_: the client's rpc_->invoke(...).get().  What is written over a lost
\* connection goes nowhere; the write throws when the transport finds out, and at any time
\* for a message that is not valid UTF-8.
SendRpc(e, message, waits, throws) ==
    /\ IF rpc
       THEN /\ crashed' = FALSE
            /\ \/ /\ got' = IF lost THEN got ELSE [got EXCEPT ![e] = Append(@, message)]
                  /\ Continues(e, waits)
               \/ got' = got /\ Continues(e, throws)
       ELSE /\ crashed' = TRUE /\ got' = got /\ Continues(e, thread[e])
    /\ UNCHANGED <<server, readVars, parts, sent, accepted, stopVars>>

Sends(e) ==
    /\ thread[e] = "sending"
    /\ SendRpc(e, Whole(parts[e])[sent[e] + 1], "waiting", "threw")
    /\ UNCHANGED unsaid

\* The server answers what it has.
Answered(e) ==
    /\ thread[e] = "waiting" /\ Listens
    /\ Len(got[e]) = sent[e] + 1
    /\ sent' = [sent EXCEPT ![e] = @ + 1]
    /\ Continues(e, IF sent[e] + 1 = Len(Whole(parts[e])) THEN "erase" ELSE "sending")
    /\ UNCHANGED <<server, readVars, parts, got, unsaid, accepted, stopVars, crashed>>

\* A message that failed is sent again.
SendFailsBug(e) ==
    /\ thread[e] = "waiting" /\ RequestFails
    /\ Continues(e, "sending")
    /\ UNCHANGED <<server, readVars, answerVars, accepted, stopVars, crashed>>

SendFails(e) ==
    /\ thread[e] = "waiting" /\ RequestFails
    /\ Continues(e, "threw")
    /\ UNCHANGED <<server, readVars, answerVars, accepted, stopVars, crashed>>

\* The exception is swallowed.
CatchesBug(e) ==
    /\ thread[e] = "threw"
    /\ Continues(e, "erase")
    /\ UNCHANGED <<server, readVars, answerVars, accepted, stopVars, crashed>>

Catches(e) ==
    /\ thread[e] = "threw"
    /\ Continues(e, IF e \in cancelled THEN "erase" ELSE "fail")
    /\ UNCHANGED <<server, readVars, answerVars, accepted, stopVars, crashed>>

\* fail(): a chunk with an error, whose own failure is ignored.
Fails(e) ==
    /\ thread[e] = "fail"
    /\ SendRpc(e, "error", "failing", "erase")
    /\ unsaid' = IF thread'[e] = "erase" THEN unsaid \cup {e} ELSE unsaid

HasError(e) == got[e] # <<>> /\ got[e][Len(got[e])] = "error"

FailEnds(e) ==
    /\ thread[e] = "failing"
    /\ (Listens /\ HasError(e)) \/ RequestFails
    /\ Continues(e, "erase")
    /\ UNCHANGED <<server, readVars, answerVars, accepted, stopVars, crashed>>

ErasesOwn(e) ==
    /\ thread[e] = "erase"
    /\ ThreadGoto(e, "over") /\ UNCHANGED held
    /\ Release(pending \ {e})
    /\ UNCHANGED <<server, readVars, answerVars, accepted, stopVars, crashed>>

ThreadStep(e) ==
    \/ Begins(e) \/ HandlerReturns(e) \/ HandlerThrows(e) \/ Tests(e) \/ Sends(e)
    \/ Answered(e) \/ SendFails(e) \/ Catches(e) \/ Fails(e) \/ FailEnds(e) \/ ErasesOwn(e)

-----------------------------------------------------------------------------
(* stop(), from where it takes rpc_.                                       *)

StopTakes ==
    /\ stop = "idle" /\ stop' = "taken"
    /\ rpc' = FALSE
    /\ UNCHANGED <<server, readVars, pending, cancelled, thread, answerVars, accepted,
                   bridgeVars, running, doomed, lost, silenced, crashed>>

\* cancel_all swaps the map under its mutex ...
StopSwaps ==
    /\ stop = "taken" /\ stop' = "cancel"
    /\ doomed' = pending /\ pending' = {}
    /\ UNCHANGED <<server, readVars, cancelled, thread, answerVars, accepted, bridgeVars,
                   rpc, running, lost, silenced, crashed>>

\* ... and sets the flags after that.
StopCancels ==
    /\ stop = "cancel" /\ stop' = "reset"
    /\ Cancel(doomed)
    /\ UNCHANGED <<server, readVars, pending, thread, answerVars, accepted, bridgeVars,
                   rpc, running, doomed, lost, crashed>>

StopResets ==
    /\ stop = "reset" /\ stop' = "close"
    /\ held' = FALSE /\ UNCHANGED thread
    /\ Release(pending)
    /\ UNCHANGED <<server, readVars, answerVars, accepted, rpc, running, doomed, lost,
                   crashed>>

StopCloses ==
    /\ stop = "close" /\ stop' = "join"
    /\ running' = "stopping"
    /\ UNCHANGED <<server, readVars, pending, cancelled, thread, answerVars, accepted,
                   bridgeVars, rpc, doomed, lost, silenced, crashed>>

StopJoins ==
    /\ stop = "join" /\ reader = "ended"
    /\ stop' = "done" /\ running' = "stopped"
    /\ UNCHANGED <<server, readVars, pending, cancelled, thread, answerVars, accepted,
                   bridgeVars, rpc, doomed, lost, silenced, crashed>>

StopStep == StopSwaps \/ StopCancels \/ StopResets \/ StopCloses \/ StopJoins

-----------------------------------------------------------------------------

Steps ==
    \/ \E e \in Exchanges, m \in {"start", "end", "cancel"} : Receives(e, m)
    \/ ReaderStep \/ ServerAccepts \/ PeerLost
    \/ \E e \in Exchanges : ThreadStep(e)
    \/ StopTakes \/ StopStep

Next == ~crashed /\ Steps

Spec == Init /\ [][Next]_vars

\* Every thread runs; the handler returns or throws; the limit of a request passes.
\* Nothing makes the server send, answer or go, or the application stop.
Fairness ==
    /\ WF_vars(~crashed /\ ReaderStep)
    /\ \A e \in Exchanges : WF_vars(~crashed /\ ThreadStep(e))
    /\ WF_vars(~crashed /\ StopStep)

FairSpec == Spec /\ Fairness

-----------------------------------------------------------------------------
(* Properties.                                                             *)

Messages == {"start", "chunk", "end", "error"}

TypeOK ==
    /\ server \in [Exchanges -> {"idle", "start", "end", "cancel"}]
    /\ reader \in {"reading", "start", "end", "cancel", "opening", "mark", "erase", "spawn",
                   "ended"}
    /\ at \in IF reader \in {"reading", "ended"} THEN {NoOne} ELSE Exchanges
    /\ pending \subseteq Exchanges /\ cancelled \subseteq Exchanges
    /\ accepted \subseteq Exchanges /\ doomed \subseteq Exchanges
    /\ silenced \subseteq Exchanges /\ unsaid \subseteq Exchanges
    /\ thread \in [Exchanges -> ThreadPc]
    /\ parts \in [Exchanges -> 0..MaxParts]
    /\ sent \in [Exchanges -> Nat]
    /\ got \in [Exchanges -> Seq(Messages)]
    /\ held \in BOOLEAN /\ alive \in BOOLEAN /\ rpc \in BOOLEAN /\ lost \in BOOLEAN
    /\ crashed \in BOOLEAN
    /\ running \in {"up", "lost", "stopping", "stopped"}
    /\ stop \in StopPc

\* What the server has of a response is the beginning of it, in order and without a gap,
\* to which at most one error is added, as the last message: whatever fails or is
\* cancelled on the way, the end of an exchange is not followed by a message of it, save
\* the error of a thread that did not learn that its end had arrived.
ResponsesAreInOrder ==
    \A e \in Http : \E k \in 0..Len(Whole(parts[e])) :
        got[e] \in {SubSeq(Whole(parts[e]), 1, k),
                    SubSeq(Whole(parts[e]), 1, k) \o <<"error">>}

\* An exchange that the server or stop() cancelled while complete_http had still to look
\* at the flag is not answered at all, neither by a response nor by an error.  A cancel
\* that comes after its look behind the handler is too late, though nothing may be sent
\* yet.
CancelledIsSilent == \A e \in silenced : got[e] = <<>>

\* The bridge lives as long as a thread of complete_http does.
ThreadsHaveTheirBridge == (\E e \in Exchanges : Active(e)) => alive

\* The exchanges the server has asked for in full and that are somebody's to answer: the
\* detached thread's, or the read thread's when it is a websocket.
AskedFor ==
    {e \in Http : thread[e] # "none"} \cup {e \in WebSocket : server[e] # "idle"}

Promise == INSTANCE BridgePromise WITH
               asked <- AskedFor, response <- got, withdrawn <- silenced

\* The bridge, with its threads, its flags and its map, keeps its promise to the server
\* step by step: nothing is sent of an exchange before its request is complete, each
\* message may follow the one before it, and one whose flag is set before complete_http
\* last looks at it is left alone.
ImplementsPromise == Promise!Spec

\* A request that was complete is answered to its end, or with an error, whatever its
\* handler does and whichever of its messages fails, unless it is cancelled, the client
\* stops, the server is lost, or fail() could not write the error either: the last is
\* swallowed, and over a connection that works the server is never told.
CompleteIsAnswered ==
    \A e \in Http :
        (thread[e] = "begun") ~> \/ got[e] # <<>> /\ got[e][Len(got[e])] \in {"end", "error"}
                                 \/ e \in cancelled
                                 \/ stop # "idle" \/ lost
                                 \/ e \in unsaid

\* An exchange that the server has completed or cancelled does not stay in pending_.  It
\* may when a null rpc_ or a dropped bridge was used (crashed), and when the server is
\* lost: a message sent after the read thread has ended waits until the client stops.
NothingStaysPending ==
    \A e \in Http :
        (e \in pending /\ server[e] \in {"end", "cancel"})
            ~> (e \notin pending \/ crashed \/ lost)

\* A websocket that the handler took and whose status the server has answered is opened,
\* unless the client stops or the server is lost.
WebSocketOpens ==
    \A e \in WebSocket :
        (reader = "opening" /\ at = e /\ e \in accepted)
            ~> (e \in pending \/ stop # "idle" \/ lost)
=============================================================================
