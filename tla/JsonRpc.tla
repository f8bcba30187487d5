------------------------------- MODULE JsonRpc -------------------------------
(***************************************************************************)
(* JsonRpcClient (include/copilot/jsonrpc.hpp): the threads that call it,  *)
(* its read thread, its timeout thread, the thread that stops it, and the  *)
(* peer.  A section under pending_mutex_ is one step; what a thread does   *)
(* after it releases the lock is another.                                  *)
(*                                                                         *)
(* Time is relative: `left' counts down to each deadline, `patience' to    *)
(* the end of a synchronous wait, `wakeIn' to the end of the timeout       *)
(* thread's wait.  The transport is the contract of ITransport: bytes in   *)
(* order, until either side closes.                                        *)
(*                                                                         *)
(* A definition named ...Bug is a faulty variant of the one that follows   *)
(* it and no part of Next: it shows that a property can fail when the     *)
(* code is wrong in a plausible way.                                       *)
(***************************************************************************)
EXTENDS Naturals, Sequences, FiniteSets

CONSTANTS Req,       \* requests; each is issued once, by a thread of its own
          NoReq,     \* an id that is none of this client's requests
          Timeout,   \* request -> its timeout in ticks, 0 for none
          Sync,      \* requests issued with invoke_sync
          Nested,    \* requests a handler issues, and waits for, on the read thread
          Poll,      \* ticks in the 250 ms poll of the timeout thread
          Kinds,     \* the kinds of message the peer sends
          MaxWire    \* bound: messages in flight towards the client

ASSUME ReqAssumption ==
    /\ NoReq \notin Req
    /\ Timeout \in [Req -> Nat]
    /\ Sync \subseteq Req
    /\ Nested \subseteq Req
    /\ Poll \in Nat \ {0}
    /\ Kinds \subseteq {"result", "error", "call", "other"}
    /\ MaxWire \in Nat \ {0}

VARIABLES
    running,     \* running_
    pending,     \* the keys of pending_requests_
    outcome,     \* the state of each request's promise
    caller,      \* where the thread that issued each request is
    left,        \* ticks to each request's deadline
    patience,    \* ticks to the end of invoke_sync's wait_for
    timer,       \* where timeout_loop is
    wakeIn,      \* ticks to the end of its wait
    expired,     \* its local vector of expired requests
    reader,      \* where read_loop is
    inHand,      \* the message read_loop is dispatching
    stopper,     \* where stop() is
    wasRunning,  \* its local was_running
    toFail,      \* local vectors of fail_all_pending, by thread
    open,        \* the local end of the transport is open
    eof,         \* the peer has closed its end
    wire,        \* messages the peer has sent and read_loop has not taken
    sent,        \* requests that were written to the peer
    answered     \* requests the peer has answered

callVars  == <<pending, outcome, caller, left, patience>>
timerVars == <<timer, wakeIn, expired>>
readVars  == <<reader, inHand>>
stopVars  == <<stopper, wasRunning>>
peerVars  == <<eof, wire, sent, answered>>
vars == <<running, callVars, timerVars, readVars, stopVars, toFail, open, peerVars>>

Timed(r)   == Timeout[r] > 0
Settled(r) == outcome[r] # "unset"

\* A response, a call whose handler may issue a request of its own, or what
\* leaves no trace here: a notification, an id this client never used, or bytes
\* that are no message.
Message == [kind : {"result", "error"}, req : Req]
           \cup [kind : {"call"}, req : Nested \cup {NoReq}]
           \cup [kind : {"other"}, req : {NoReq}]
NoMessage == [kind |-> "other", req |-> NoReq]

CallerPc  == {"idle", "registered", "sendFailed", "threw", "waiting",
              "expiring", "failing", "timedOut", "returned"}
TimerPc   == {"none", "check", "scan", "checked", "blocked", "firing", "done"}
ReaderPc  == {"none", "check", "reading", "dispatch", "resolving", "handling",
              "closing", "clearing", "failing", "done"}
StopperPc == {"idle", "notify", "close", "joinReader", "joinTimer",
              "clearing", "failing", "done"}
Outcome   == {"unset", "result", "error", "timeout", "closed"}

Init ==
    /\ running = FALSE
    /\ pending = {}
    /\ outcome = [r \in Req |-> "unset"]
    /\ caller = [r \in Req |-> "idle"]
    /\ left = Timeout
    /\ patience = [r \in Req |-> IF r \in Sync THEN Timeout[r] ELSE 0]
    /\ timer = "none" /\ wakeIn = 0 /\ expired = {}
    /\ reader = "none" /\ inHand = NoMessage
    /\ stopper = "idle" /\ wasRunning = FALSE
    /\ toFail = [t \in {"reader", "stopper"} |-> {}]
    /\ open = TRUE /\ eof = FALSE
    /\ wire = <<>> /\ sent = {} /\ answered = {}

-----------------------------------------------------------------------------
(* Helpers.                                                                *)

\* promise.set_value / set_exception: a second call throws and changes nothing.
SetPromise(r, o) ==
    outcome' = [outcome EXCEPT ![r] = IF @ = "unset" THEN o ELSE @]

\* pending_cv_.notify_all(): the waiter re-tests !running_ and nothing else.
NotifyTimer ==
    IF timer = "blocked" /\ ~running'
    THEN timer' = "check" /\ wakeIn' = 0
    ELSE UNCHANGED <<timer, wakeIn>>

\* A write reaches the peer, or throws.
CanWrite  == open
MayFail   == ~open \/ eof

\* A handler's own call runs on the read thread, inside the handler.
OnItsThread(r) ==
    r \in Nested => reader = "handling" /\ inHand.kind = "call" /\ inHand.req = r

-----------------------------------------------------------------------------
(* start()                                                                 *)

Start ==
    /\ reader = "none"
    /\ running' = TRUE
    /\ reader' = "check"
    /\ timer' = "check"
    /\ UNCHANGED <<callVars, wakeIn, expired, inHand, stopVars, toFail, open, peerVars>>

-----------------------------------------------------------------------------
(* invoke, invoke_with_id, invoke_sync                                     *)

\* The map is filled under an id that is not yet this request's.
RegisterBug(r) ==
    /\ reader # "none" /\ OnItsThread(r)
    /\ caller[r] = "idle"
    /\ caller' = [caller EXCEPT ![r] = "registered"]
    /\ pending' = pending \cup {NoReq}
    /\ UNCHANGED running
    /\ NotifyTimer
    /\ UNCHANGED <<outcome, left, patience, expired, readVars, stopVars, toFail, open, peerVars>>

\* A fresh id, the promise, the insertion under the lock, notify_all.
Register(r) ==
    /\ reader # "none" /\ OnItsThread(r)
    /\ caller[r] = "idle"
    /\ caller' = [caller EXCEPT ![r] = "registered"]
    /\ pending' = pending \cup {r}
    /\ UNCHANGED running
    /\ NotifyTimer
    /\ UNCHANGED <<outcome, left, patience, expired, readVars, stopVars,
                   toFail, open, peerVars>>

SendOk(r) ==
    /\ OnItsThread(r)
    /\ caller[r] = "registered" /\ CanWrite
    /\ caller' = [caller EXCEPT ![r] = "waiting"]
    /\ sent' = sent \cup {r}
    /\ UNCHANGED <<running, pending, outcome, left, patience, timerVars, readVars,
                   stopVars, toFail, open, eof, wire, answered>>

SendFails(r) ==
    /\ OnItsThread(r)
    /\ caller[r] = "registered" /\ MayFail
    /\ caller' = [caller EXCEPT ![r] = "sendFailed"]
    /\ UNCHANGED <<running, pending, outcome, left, patience, timerVars, readVars,
                   stopVars, toFail, open, peerVars>>

\* The catch block: erase under the lock, rethrow.
EraseAndThrow(r) ==
    /\ OnItsThread(r)
    /\ caller[r] = "sendFailed"
    /\ pending' = pending \ {r}
    /\ caller' = [caller EXCEPT ![r] = "threw"]
    /\ UNCHANGED <<running, outcome, left, patience, timerVars, readVars, stopVars,
                   toFail, open, peerVars>>

\* future.get() or a wait_for that finds the future ready.
Return(r) ==
    /\ OnItsThread(r)
    /\ caller[r] = "waiting" /\ Settled(r)
    /\ caller' = [caller EXCEPT ![r] = "returned"]
    /\ UNCHANGED <<running, pending, outcome, left, patience, timerVars, readVars,
                   stopVars, toFail, open, peerVars>>

\* invoke_sync: wait_for(timeout) ends with the future not ready.
WaitExpires(r) ==
    /\ OnItsThread(r)
    /\ caller[r] = "waiting" /\ ~Settled(r)
    /\ r \in Sync /\ Timed(r) /\ patience[r] = 0
    /\ caller' = [caller EXCEPT ![r] = "expiring"]
    /\ UNCHANGED <<running, pending, outcome, left, patience, timerVars, readVars,
                   stopVars, toFail, open, peerVars>>

\* fail_pending_request: take the request out of the map, if it is still there.
TakeOwn(r) ==
    /\ OnItsThread(r)
    /\ caller[r] = "expiring"
    /\ caller' = [caller EXCEPT ![r] = IF r \in pending THEN "failing" ELSE "timedOut"]
    /\ pending' = pending \ {r}
    /\ UNCHANGED <<running, outcome, left, patience, timerVars, readVars, stopVars,
                   toFail, open, peerVars>>

\* ... and set its promise outside the lock; invoke_sync then throws Timeout.
FailOwn(r) ==
    /\ OnItsThread(r)
    /\ caller[r] = "failing"
    /\ SetPromise(r, "timeout")
    /\ caller' = [caller EXCEPT ![r] = "timedOut"]
    /\ UNCHANGED <<running, pending, left, patience, timerVars, readVars, stopVars,
                   toFail, open, peerVars>>

Caller(r) == \/ SendOk(r) \/ SendFails(r) \/ EraseAndThrow(r) \/ Return(r)
             \/ WaitExpires(r) \/ TakeOwn(r) \/ FailOwn(r)

-----------------------------------------------------------------------------
(* timeout_loop()                                                          *)

TimerCheck ==
    /\ timer = "check"
    /\ timer' = IF running THEN "scan" ELSE "done"
    /\ UNCHANGED <<running, callVars, wakeIn, expired, readVars, stopVars, toFail,
                   open, peerVars>>

\* One tick early.
ExpiredBug == {r \in pending : Timed(r) /\ left[r] <= 1}

Expired == {r \in pending : Timed(r) /\ left[r] = 0}

\* Everything leaves the map, only what has expired is kept.
TimerTakesBug ==
    /\ timer = "scan" /\ Expired # {}
    /\ expired' = Expired
    /\ pending' = {}
    /\ timer' = "firing"
    /\ UNCHANGED <<running, outcome, caller, left, patience, wakeIn, readVars,
                   stopVars, toFail, open, peerVars>>

\* The scan finds expired requests: they leave the map under the lock.
TimerTakes ==
    /\ timer = "scan" /\ Expired # {}
    /\ expired' = Expired
    /\ pending' = pending \ Expired
    /\ timer' = "firing"
    /\ UNCHANGED <<running, outcome, caller, left, patience, wakeIn, readVars,
                   stopVars, toFail, open, peerVars>>

\* The scan finds none: the wait is fixed at the earliest deadline seen now, or
\* at the poll when no request has one.  The predicate is tested once here.
TimerWaits ==
    /\ timer = "scan" /\ Expired = {}
    /\ IF ~running
       THEN timer' = "done" /\ UNCHANGED wakeIn
       ELSE /\ timer' = "checked"
            /\ \/ /\ \A r \in pending : ~Timed(r)
                  /\ wakeIn' = Poll
               \/ \E r \in pending :
                     /\ Timed(r)
                     /\ \A q \in pending : Timed(q) => left[r] <= left[q]
                     /\ wakeIn' = left[r]
    /\ UNCHANGED <<running, callVars, expired, readVars, stopVars, toFail, open, peerVars>>

\* Between the test of the predicate and the block, a notification is lost:
\* stop() notifies without holding pending_mutex_.
TimerBlocks ==
    /\ timer = "checked"
    /\ timer' = "blocked"
    /\ UNCHANGED <<running, callVars, wakeIn, expired, readVars, stopVars, toFail,
                   open, peerVars>>

\* The wait ends only when the client stops.
TimerWakesBug ==
    /\ timer = "blocked" /\ wakeIn = 0 /\ ~running
    /\ timer' = "check"
    /\ UNCHANGED <<running, callVars, wakeIn, expired, readVars, stopVars, toFail,
                   open, peerVars>>

TimerWakes ==
    /\ timer = "blocked" /\ wakeIn = 0
    /\ timer' = "check"
    /\ UNCHANGED <<running, callVars, wakeIn, expired, readVars, stopVars, toFail,
                   open, peerVars>>

\* A condition variable may wake for no reason; the predicate sends it back.
TimerWakesSpuriously ==
    /\ timer = "blocked" /\ ~running
    /\ timer' = "check"
    /\ wakeIn' = 0
    /\ UNCHANGED <<running, callVars, expired, readVars, stopVars, toFail,
                   open, peerVars>>

TimerFires ==
    /\ timer = "firing"
    /\ \E r \in expired :
          /\ SetPromise(r, "timeout")
          /\ expired' = expired \ {r}
          /\ timer' = IF expired = {r} THEN "check" ELSE "firing"
    /\ UNCHANGED <<running, pending, caller, left, patience, wakeIn, readVars,
                   stopVars, toFail, open, peerVars>>

Timer == TimerCheck \/ TimerTakes \/ TimerWaits \/ TimerBlocks \/ TimerWakes \/ TimerFires

-----------------------------------------------------------------------------
(* read_loop() and dispatch_message()                                      *)

ReaderCheck ==
    /\ reader = "check"
    /\ reader' = IF running THEN "reading" ELSE "done"
    /\ UNCHANGED <<running, callVars, timerVars, inHand, stopVars, toFail, open, peerVars>>

\* A whole message, possibly from the framer's buffer after a close.
ReadMessage ==
    /\ reader = "reading" /\ wire # <<>>
    /\ inHand' = Head(wire)
    /\ wire' = Tail(wire)
    /\ reader' = "dispatch"
    /\ UNCHANGED <<running, callVars, timerVars, stopVars, toFail, open, eof, sent, answered>>

ReadClosed ==
    /\ reader = "reading"
    /\ ~open \/ (eof /\ wire = <<>>)
    /\ reader' = "closing"
    /\ UNCHANGED <<running, callVars, timerVars, inHand, stopVars, toFail, open, peerVars>>

Dispatched(next) == reader' = next /\ inHand' = NoMessage

\* Malformed input is skipped (json::exception, or a framing error while running_);
\* a notification runs its handler and any exception of it is swallowed.
DispatchOther ==
    /\ reader = "dispatch" /\ inHand.kind = "other"
    /\ Dispatched("check")
    /\ UNCHANGED <<running, callVars, timerVars, stopVars, toFail, open, peerVars>>

\* The entry is found but not erased.
DispatchResponseBug ==
    /\ reader = "dispatch" /\ inHand.kind \in {"result", "error"}
    /\ IF inHand.req \in pending
       THEN reader' = "resolving" /\ UNCHANGED inHand
       ELSE Dispatched("check")
    /\ UNCHANGED <<running, callVars, timerVars, stopVars, toFail, open, peerVars>>

\* handle_response: find and erase under the lock; an unknown id is ignored.
DispatchResponse ==
    /\ reader = "dispatch" /\ inHand.kind \in {"result", "error"}
    /\ IF inHand.req \in pending
       THEN reader' = "resolving" /\ UNCHANGED inHand
       ELSE Dispatched("check")
    /\ pending' = pending \ {inHand.req}
    /\ UNCHANGED <<running, outcome, caller, left, patience, timerVars,
                   stopVars, toFail, open, peerVars>>

\* Responses are matched with whoever waits, not by id.
ResolveBug ==
    /\ reader = "resolving"
    /\ \E r \in Req : caller[r] = "waiting" /\ SetPromise(r, inHand.kind)
    /\ Dispatched("check")
    /\ UNCHANGED <<running, pending, caller, left, patience, timerVars,
                   stopVars, toFail, open, peerVars>>

\* ... and set the promise outside it.
Resolve ==
    /\ reader = "resolving"
    /\ SetPromise(inHand.req, inHand.kind)
    /\ Dispatched("check")
    /\ UNCHANGED <<running, pending, caller, left, patience, timerVars,
                   stopVars, toFail, open, peerVars>>

\* handle_request runs the handler on this thread.
DispatchCall ==
    /\ reader = "dispatch" /\ inHand.kind = "call"
    /\ reader' = "handling"
    /\ UNCHANGED <<running, callVars, timerVars, inHand, stopVars, toFail, open, peerVars>>

HandlerDone ==
    inHand.req \in Req => caller[inHand.req] \in {"returned", "threw", "timedOut"}

\* The handler returns or throws; either way one response is written.
Reply ==
    /\ reader = "handling" /\ HandlerDone /\ CanWrite
    /\ Dispatched("check")
    /\ UNCHANGED <<running, callVars, timerVars, stopVars, toFail, open, peerVars>>

\* The write throws, and so does that of the error response: read_loop catches a
\* ConnectionClosedError, or another error after which it goes on.
ReplyFails ==
    /\ reader = "handling" /\ HandlerDone /\ MayFail
    /\ Dispatched("closing") \/ Dispatched("check")
    /\ UNCHANGED <<running, callVars, timerVars, stopVars, toFail, open, peerVars>>

\* The loop ends without failing what is pending.
ReaderClosesBug ==
    /\ reader = "closing"
    /\ running' = FALSE
    /\ reader' = "done"
    /\ UNCHANGED <<callVars, timerVars, inHand, stopVars, toFail, open, peerVars>>

\* catch ConnectionClosedError
ReaderCloses ==
    /\ reader = "closing"
    /\ running' = FALSE
    /\ reader' = "clearing"
    /\ UNCHANGED <<callVars, timerVars, inHand, stopVars, toFail, open, peerVars>>

\* fail_all_pending on the read thread: empty the map under the lock ...
ReaderClears ==
    /\ reader = "clearing"
    /\ toFail' = [toFail EXCEPT !["reader"] = pending]
    /\ pending' = {}
    /\ reader' = "failing"
    /\ UNCHANGED <<running, outcome, caller, left, patience, timerVars, inHand,
                   stopVars, open, peerVars>>

\* ... then the promises, one after another.
ReaderFails ==
    /\ reader = "failing"
    /\ \/ \E r \in toFail["reader"] :
             /\ SetPromise(r, "closed")
             /\ toFail' = [toFail EXCEPT !["reader"] = @ \ {r}]
             /\ UNCHANGED reader
       \/ /\ toFail["reader"] = {}
          /\ reader' = "done"
          /\ UNCHANGED <<outcome, toFail>>
    /\ UNCHANGED <<running, pending, caller, left, patience, timerVars, inHand,
                   stopVars, open, peerVars>>

Reader == \/ ReaderCheck \/ ReadMessage \/ ReadClosed \/ DispatchOther
          \/ DispatchResponse \/ Resolve \/ DispatchCall \/ Reply \/ ReplyFails
          \/ ReaderCloses \/ ReaderClears \/ ReaderFails

-----------------------------------------------------------------------------
(* stop(), called once from a thread that is neither of the client's       *)

StopBegins ==
    /\ stopper = "idle" /\ reader # "none"
    /\ wasRunning' = running
    /\ running' = FALSE
    /\ stopper' = "notify"
    /\ UNCHANGED <<callVars, timerVars, readVars, toFail, open, peerVars>>

StopNotifies ==
    /\ stopper = "notify"
    /\ UNCHANGED running
    /\ NotifyTimer
    /\ stopper' = "close"
    /\ UNCHANGED <<callVars, expired, readVars, wasRunning, toFail, open, peerVars>>

\* The transport is left open.
StopClosesBug ==
    /\ stopper = "close"
    /\ stopper' = "joinReader"
    /\ UNCHANGED <<running, callVars, timerVars, readVars, wasRunning, toFail, open, peerVars>>

\* The transport is closed only if this call found the client running.
StopCloses ==
    /\ stopper = "close"
    /\ open' = (open /\ ~wasRunning)
    /\ stopper' = "joinReader"
    /\ UNCHANGED <<running, callVars, timerVars, readVars, wasRunning, toFail, peerVars>>

StopJoinsReader ==
    /\ stopper = "joinReader" /\ reader = "done"
    /\ stopper' = "joinTimer"
    /\ UNCHANGED <<running, callVars, timerVars, readVars, wasRunning, toFail, open, peerVars>>

StopJoinsTimer ==
    /\ stopper = "joinTimer" /\ timer = "done"
    /\ stopper' = "clearing"
    /\ UNCHANGED <<running, callVars, timerVars, readVars, wasRunning, toFail, open, peerVars>>

StopClears ==
    /\ stopper = "clearing"
    /\ toFail' = [toFail EXCEPT !["stopper"] = pending]
    /\ pending' = {}
    /\ stopper' = "failing"
    /\ UNCHANGED <<running, outcome, caller, left, patience, timerVars, readVars,
                   wasRunning, open, peerVars>>

StopFails ==
    /\ stopper = "failing"
    /\ \/ \E r \in toFail["stopper"] :
             /\ SetPromise(r, "closed")
             /\ toFail' = [toFail EXCEPT !["stopper"] = @ \ {r}]
             /\ UNCHANGED stopper
       \/ /\ toFail["stopper"] = {}
          /\ stopper' = "done"
          /\ UNCHANGED <<outcome, toFail>>
    /\ UNCHANGED <<running, pending, caller, left, patience, timerVars, readVars,
                   wasRunning, open, peerVars>>

Stopper == \/ StopNotifies \/ StopCloses \/ StopJoinsReader \/ StopJoinsTimer
           \/ StopClears \/ StopFails

-----------------------------------------------------------------------------
(* The peer and the clock.                                                 *)

\* The peer answers what it was asked (perhaps twice, perhaps too late) and sends
\* calls and the rest, as long as somebody reads.
PeerSends ==
    /\ ~eof /\ reader # "done" /\ Len(wire) < MaxWire
    /\ \E m \in {m \in Message : m.kind \in Kinds} :
          /\ m.kind \in {"result", "error"} => m.req \in sent
          /\ wire' = Append(wire, m)
          /\ answered' = IF m.kind \in {"result", "error"}
                         THEN answered \cup {m.req} ELSE answered
    /\ UNCHANGED <<running, callVars, timerVars, readVars, stopVars, toFail, open, eof, sent>>

PeerCloses ==
    /\ ~eof
    /\ eof' = TRUE
    /\ UNCHANGED <<running, callVars, timerVars, readVars, stopVars, toFail, open,
                   wire, sent, answered>>

Down(n) == IF n = 0 THEN 0 ELSE n - 1

\* A deadline runs from the request's registration (and is read while it is in
\* the map), invoke_sync's wait from the return of the write, the timeout
\* thread's wait from its scan.
Tick ==
    /\ \/ wakeIn > 0
       \/ \E r \in pending : left[r] > 0
       \/ \E r \in Req : caller[r] = "waiting" /\ patience[r] > 0
    /\ left' = [r \in Req |-> IF r \in pending THEN Down(left[r]) ELSE left[r]]
    /\ patience' = [r \in Req |-> IF caller[r] = "waiting" THEN Down(patience[r]) ELSE patience[r]]
    /\ wakeIn' = Down(wakeIn)
    /\ UNCHANGED <<running, pending, outcome, caller, timer, expired, readVars,
                   stopVars, toFail, open, peerVars>>

-----------------------------------------------------------------------------

Next ==
    \/ Start \/ Timer \/ TimerWakesSpuriously \/ Reader
    \/ \E r \in Req : Register(r) \/ Caller(r)
    \/ StopBegins \/ Stopper
    \/ PeerSends \/ PeerCloses \/ Tick

Spec == Init /\ [][Next]_vars

\* Every thread that can take a step takes one, and time passes.  Nothing is
\* assumed of the peer, nor that anybody issues a request or calls stop().
Fairness ==
    /\ WF_vars(Timer) /\ WF_vars(Reader) /\ WF_vars(Stopper) /\ WF_vars(Tick)
    /\ \A r \in Req : WF_vars(Caller(r))
    /\ \A r \in Nested : WF_vars(Register(r))

FairSpec == Spec /\ Fairness

-----------------------------------------------------------------------------
(* Properties.                                                             *)

TypeOK ==
    /\ running \in BOOLEAN
    /\ pending \subseteq Req
    /\ outcome \in [Req -> Outcome]
    /\ caller \in [Req -> CallerPc]
    /\ left \in [Req -> Nat]
    /\ patience \in [Req -> Nat]
    /\ timer \in TimerPc
    /\ wakeIn \in Nat
    /\ expired \subseteq Req
    /\ reader \in ReaderPc
    /\ inHand \in Message
    /\ stopper \in StopperPc
    /\ wasRunning \in BOOLEAN
    /\ toFail \in [{"reader", "stopper"} -> SUBSET Req]
    /\ open \in BOOLEAN
    /\ eof \in BOOLEAN
    /\ wire \in Seq(Message)
    /\ sent \subseteq Req
    /\ answered \subseteq Req

\* Who is about to set the promise of a request.
InReader == IF reader = "resolving" THEN {inHand.req} ELSE {}
InCaller == {r \in Req : caller[r] = "failing"}
Owned    == pending \cup expired \cup toFail["reader"] \cup toFail["stopper"]
            \cup InReader \cup InCaller

\* Five parties take requests out of the map and settle them outside the lock
\* (the response handler, the timeout thread, the two sweeps of
\* fail_all_pending, invoke_sync): a request is never with two of them, nor
\* with one of them and still in the map, so that no promise is set twice.
OneSettler ==
    /\ pending \cap (expired \cup toFail["reader"] \cup toFail["stopper"]
                     \cup InReader \cup InCaller) = {}
    /\ expired \cap (toFail["reader"] \cup toFail["stopper"] \cup InReader \cup InCaller) = {}
    /\ toFail["reader"] \cap (toFail["stopper"] \cup InReader \cup InCaller) = {}
    /\ toFail["stopper"] \cap (InReader \cup InCaller) = {}
    /\ InReader \cap InCaller = {}
    /\ \A r \in Owned : ~Settled(r)

\* Somebody will go through the whole map: the read thread has not got past its
\* sweep, or stop() is on its way to the one at its end.
SweepToCome ==
    \/ reader \in ReaderPc \ {"none", "failing", "done"}
    \/ stopper \in StopperPc \ {"idle", "failing", "done"}

\* A thread that has not ended has this request, or will come across it.
Watched(r) ==
    \/ r \in pending /\ SweepToCome
    \/ r \in expired /\ timer = "firing"
    \/ r \in toFail["reader"] /\ reader = "failing"
    \/ r \in toFail["stopper"] /\ stopper = "failing"
    \/ r \in InReader \cup InCaller

\* A request that is registered while the client runs is not lost: until its
\* promise is set or its call has thrown, some thread that has not ended has it,
\* or has still to go through the map.  The threads hand requests on and end in
\* their own time; none may be the last to know of one.  (A request registered
\* when running_ is already cleared has nobody: rpc_after_loss.  That the thread
\* gets there is liveness: rpc_handler_call shows one that does not.)
NotAbandoned ==
    [][\A r \in Req :
          Watched(r) \/ (running /\ r \in pending' \ pending)
              => (Watched(r) \/ Settled(r) \/ caller[r] = "threw")']_vars

\* No caller is told "Request timed out" before its timeout has passed, by the
\* timeout thread or by invoke_sync, and none that set no timeout ever is.
TimeoutNotEarly ==
    \A r \in Req :
        /\ outcome[r] = "timeout" => Timed(r) /\ left[r] = 0
        /\ caller[r] = "timedOut" => Timed(r) /\ patience[r] = 0

\* stop() on a running client leaves nobody waiting, neither those who were
\* when it began nor those who were between registering and writing: their
\* write fails on the closed transport, or the sweep finds them.
StopSettlesAll ==
    stopper = "done" /\ wasRunning =>
        \A r \in Req : caller[r] = "waiting" => Settled(r)

\* What a caller sees of its request, for the abstract specification.
Seen(r) == CASE caller[r] = "idle" -> "idle"
             [] caller[r] = "threw" -> "threw"
             [] caller[r] = "timedOut" -> "timeout"
             [] caller[r] = "returned" -> outcome[r]
             [] OTHER -> "open"

Calls == INSTANCE RpcCalls WITH call <- [r \in Req |-> Seen(r)],
                                asked <- sent, answered <- answered

\* The threads, the map and the promises implement the abstract promise: a call
\* ends once, and with an answer only if the peer gave one to that request.
ImplementsCalls == Calls!Spec

\* A request with a timeout that is registered while the client runs ends: by
\* its answer, its timeout, the loss of the connection or stop().
RequestEnds ==
    \A r \in Req : (r \in pending /\ Timed(r) /\ running) ~> (Settled(r) \/ caller[r] = "threw")

\* When the peer closes the connection every caller that waits is released, also
\* one that set no timeout.
LossReleasesAll ==
    \A r \in Req : (eof /\ running /\ caller[r] = "waiting") ~> Settled(r)

\* stop() returns: both threads notice, whatever they were doing, and a
\* notification lost between the predicate and the wait costs one wait only.
StopReturns == (stopper # "idle") ~> (stopper = "done")

\* The timeout thread never sleeps past the deadline of a request it is
\* responsible for.
NoSleepPastDeadline ==
    timer = "blocked" => \A r \in pending : Timed(r) => wakeIn <= left[r]

\* A caller that set a timeout is released by it at the latest.
TimeoutHonoured ==
    \A r \in Req : (caller[r] = "waiting" /\ Timed(r)) ~> Settled(r)
=============================================================================
