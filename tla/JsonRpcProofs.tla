---------------------------- MODULE JsonRpcProofs ----------------------------
(* Proofs about JsonRpc: they hold for any number of requests, whichever are *)
(* synchronous or issued by handlers, and for every timeout.                 *)
EXTENDS JsonRpc, TLAPS

\* The step back to the head of read_loop leaves a well-typed message.
LEMMA NoMessageTyped == NoMessage \in Message
  BY DEF NoMessage, Message

\* A countdown stays a natural number.
LEMMA DownNat == \A n \in Nat : Down(n) \in Nat
  BY DEF Down

\* Setting a promise keeps the table of promises well-typed.
LEMMA SetPromiseTyped ==
  ASSUME NEW r \in Req, NEW o \in Outcome, outcome \in [Req -> Outcome], SetPromise(r, o)
  PROVE  outcome' \in [Req -> Outcome]
  BY DEF SetPromise

\* Waking the timeout thread keeps its program counter and its wait well-typed.
LEMMA NotifyTyped ==
  ASSUME timer \in TimerPc, wakeIn \in Nat, NotifyTimer
  PROVE  timer' \in TimerPc /\ wakeIn' \in Nat
  BY DEF NotifyTimer, TimerPc

LEMMA InitTypeOK == Init => TypeOK
<1> SUFFICES ASSUME Init PROVE TypeOK
  OBVIOUS
<1> USE DEF Init
<1>1. outcome \in [Req -> Outcome] /\ caller \in [Req -> CallerPc]
  BY DEF Outcome, CallerPc
<1>2. left \in [Req -> Nat]
  BY ReqAssumption
<1>3. patience \in [Req -> Nat]
  <2>1. \A r \in Req : (IF r \in Sync THEN Timeout[r] ELSE 0) \in Nat
    BY ReqAssumption
  <2>2. QED
    BY <2>1
<1>4. timer \in TimerPc /\ reader \in ReaderPc /\ stopper \in StopperPc /\ wakeIn \in Nat
  BY DEF TimerPc, ReaderPc, StopperPc
<1>5. inHand \in Message
  BY NoMessageTyped
<1>6. toFail \in [{"reader", "stopper"} -> SUBSET Req]
  OBVIOUS
<1>7. wire \in Seq(Message)
  OBVIOUS
<1>8. QED
  BY <1>1, <1>2, <1>3, <1>4, <1>5, <1>6, <1>7 DEF TypeOK

\* The steps of the threads that call the client.
LEMMA CallerTypeOK ==
  ASSUME TypeOK, NEW r \in Req, Register(r) \/ Caller(r)
  PROVE  TypeOK'
<1> USE DEF TypeOK, callVars, timerVars, readVars, stopVars, peerVars
<1>1. CASE Register(r)
  BY <1>1, NotifyTyped DEF Register, CallerPc
<1>2. CASE SendOk(r)
  BY <1>2 DEF SendOk, CallerPc
<1>3. CASE SendFails(r)
  BY <1>3 DEF SendFails, CallerPc
<1>4. CASE EraseAndThrow(r)
  BY <1>4 DEF EraseAndThrow, CallerPc
<1>5. CASE Return(r)
  BY <1>5 DEF Return, CallerPc
<1>6. CASE WaitExpires(r)
  BY <1>6 DEF WaitExpires, CallerPc
<1>7. CASE TakeOwn(r)
  BY <1>7 DEF TakeOwn, CallerPc
<1>8. CASE FailOwn(r)
  <2>1. "timeout" \in Outcome
    BY DEF Outcome
  <2>2. outcome' \in [Req -> Outcome]
    BY <1>8, <2>1, SetPromiseTyped DEF FailOwn
  <2>3. QED
    BY <1>8, <2>2 DEF FailOwn, CallerPc
<1>9. QED
  BY <1>1, <1>2, <1>3, <1>4, <1>5, <1>6, <1>7, <1>8 DEF Caller

\* The steps of the timeout thread.
LEMMA TimerTypeOK ==
  ASSUME TypeOK, Timer \/ TimerWakesSpuriously
  PROVE  TypeOK'
<1> USE DEF TypeOK, callVars, timerVars, readVars, stopVars, peerVars, TimerPc
<1>1. CASE TimerCheck
  BY <1>1 DEF TimerCheck
<1>2. CASE TimerTakes
  BY <1>2 DEF TimerTakes, Expired
<1>3. CASE TimerWaits
  BY <1>3, ReqAssumption DEF TimerWaits
<1>4. CASE TimerBlocks
  BY <1>4 DEF TimerBlocks
<1>5. CASE TimerWakes
  BY <1>5 DEF TimerWakes
<1>6. CASE TimerFires
  <2>1. "timeout" \in Outcome
    BY DEF Outcome
  <2>2. outcome' \in [Req -> Outcome]
    BY <1>6, <2>1, SetPromiseTyped DEF TimerFires
  <2>3. QED
    BY <1>6, <2>2 DEF TimerFires
<1>7. CASE TimerWakesSpuriously
  BY <1>7 DEF TimerWakesSpuriously
<1>8. QED
  BY <1>1, <1>2, <1>3, <1>4, <1>5, <1>6, <1>7 DEF Timer

\* The response that is being resolved answers a request of this client.
InHandIsAnswer == reader = "resolving" => inHand.kind \in {"result", "error"}

LEMMA AnswerTyped ==
  ASSUME inHand \in Message, inHand.kind \in {"result", "error"}
  PROVE  inHand.req \in Req /\ inHand.kind \in Outcome
  BY DEF Message, Outcome

\* The steps of the read thread.
LEMMA ReaderTypeOK ==
  ASSUME TypeOK, InHandIsAnswer, Reader
  PROVE  TypeOK'
<1> USE NoMessageTyped DEF TypeOK, callVars, timerVars, readVars, stopVars, peerVars,
        ReaderPc, Dispatched
<1>1. CASE ReaderCheck
  BY <1>1 DEF ReaderCheck
<1>2. CASE ReadMessage
  BY <1>2 DEF ReadMessage
<1>3. CASE ReadClosed
  BY <1>3 DEF ReadClosed
<1>4. CASE DispatchOther
  BY <1>4 DEF DispatchOther
<1>5. CASE DispatchResponse
  BY <1>5 DEF DispatchResponse
<1>6. CASE Resolve
  <2>1. outcome' \in [Req -> Outcome]
    BY <1>6, AnswerTyped, SetPromiseTyped DEF Resolve, InHandIsAnswer
  <2>2. QED
    BY <1>6, <2>1 DEF Resolve
<1>7. CASE DispatchCall
  BY <1>7 DEF DispatchCall
<1>8. CASE Reply
  BY <1>8 DEF Reply
<1>9. CASE ReplyFails
  BY <1>9 DEF ReplyFails
<1>10. CASE ReaderCloses
  BY <1>10 DEF ReaderCloses
<1>11. CASE ReaderClears
  BY <1>11 DEF ReaderClears
<1>12. CASE ReaderFails
  <2>1. outcome' \in [Req -> Outcome]
    <3>1. "closed" \in Outcome
      BY DEF Outcome
    <3>2. QED
      BY <1>12, <3>1, SetPromiseTyped DEF ReaderFails
  <2>2. QED
    BY <1>12, <2>1 DEF ReaderFails
<1>13. QED
  BY <1>1, <1>2, <1>3, <1>4, <1>5, <1>6, <1>7, <1>8, <1>9, <1>10, <1>11, <1>12 DEF Reader

\* The steps of the thread in stop().
LEMMA StopperTypeOK ==
  ASSUME TypeOK, StopBegins \/ Stopper
  PROVE  TypeOK'
<1> USE DEF TypeOK, callVars, timerVars, readVars, stopVars, peerVars, StopperPc
<1>1. CASE StopBegins
  BY <1>1 DEF StopBegins
<1>2. CASE StopNotifies
  BY <1>2, NotifyTyped DEF StopNotifies
<1>3. CASE StopCloses
  BY <1>3 DEF StopCloses
<1>4. CASE StopJoinsReader
  BY <1>4 DEF StopJoinsReader
<1>5. CASE StopJoinsTimer
  BY <1>5 DEF StopJoinsTimer
<1>6. CASE StopClears
  BY <1>6 DEF StopClears
<1>7. CASE StopFails
  <2>1. outcome' \in [Req -> Outcome]
    <3>1. "closed" \in Outcome
      BY DEF Outcome
    <3>2. QED
      BY <1>7, <3>1, SetPromiseTyped DEF StopFails
  <2>2. QED
    BY <1>7, <2>1 DEF StopFails
<1>8. QED
  BY <1>1, <1>2, <1>3, <1>4, <1>5, <1>6, <1>7 DEF Stopper

\* start(), the peer and the clock.
LEMMA RestTypeOK ==
  ASSUME TypeOK, Start \/ PeerSends \/ PeerCloses \/ Tick
  PROVE  TypeOK'
<1> USE DEF TypeOK, callVars, timerVars, readVars, stopVars, peerVars
<1>1. CASE Start
  BY <1>1 DEF Start, ReaderPc, TimerPc
<1>2. CASE PeerSends
  BY <1>2 DEF PeerSends
<1>3. CASE PeerCloses
  BY <1>3 DEF PeerCloses
<1>4. CASE Tick
  BY <1>4, DownNat DEF Tick
<1>5. QED
  BY <1>1, <1>2, <1>3, <1>4

\* Only DispatchResponse begins to resolve, and what it has in hand it keeps.
LEMMA InHandStep ==
  ASSUME TypeOK, InHandIsAnswer, [Next]_vars
  PROVE  InHandIsAnswer'
<1> USE DEF InHandIsAnswer, readVars, Dispatched
<1>1. CASE Reader
  BY <1>1 DEF Reader, ReaderCheck, ReadMessage, ReadClosed, DispatchOther,
     DispatchResponse, Resolve, DispatchCall, Reply, ReplyFails, ReaderCloses,
     ReaderClears, ReaderFails
<1>2. CASE Start
  BY <1>2 DEF Start
<1>3. CASE Timer \/ TimerWakesSpuriously
  BY <1>3 DEF Timer, TimerWakesSpuriously, TimerCheck, TimerTakes, TimerWaits,
     TimerBlocks, TimerWakes, TimerFires
<1>4. CASE \E r \in Req : Register(r) \/ Caller(r)
  BY <1>4 DEF Register, Caller, SendOk, SendFails, EraseAndThrow, Return, WaitExpires,
     TakeOwn, FailOwn
<1>5. CASE StopBegins \/ Stopper
  BY <1>5 DEF StopBegins, Stopper, StopNotifies, StopCloses, StopJoinsReader,
     StopJoinsTimer, StopClears, StopFails
<1>6. CASE PeerSends \/ PeerCloses \/ Tick
  BY <1>6 DEF PeerSends, PeerCloses, Tick
<1>7. CASE UNCHANGED vars
  BY <1>7 DEF vars
<1>8. QED
  BY <1>1, <1>2, <1>3, <1>4, <1>5, <1>6, <1>7 DEF Next

TypeInv == TypeOK /\ InHandIsAnswer

LEMMA TypeStep == TypeInv /\ [Next]_vars => TypeInv'
<1> SUFFICES ASSUME TypeInv, [Next]_vars PROVE TypeInv'
  OBVIOUS
<1>1. TypeOK'
  <2>1. CASE UNCHANGED vars
    BY <2>1 DEF TypeInv, TypeOK, vars, callVars, timerVars, readVars, stopVars, peerVars
  <2>2. CASE Next
    BY <2>2, CallerTypeOK, TimerTypeOK, ReaderTypeOK, StopperTypeOK, RestTypeOK
    DEF Next, TypeInv
  <2>3. QED
    BY <2>1, <2>2
<1>2. QED
  BY <1>1, InHandStep DEF TypeInv

\* Every variable of the client keeps its type: program counters stay within
\* their thread's code, ids within the requests that were issued.
THEOREM TypeCorrect == Spec => []TypeOK
<1>1. Init => TypeInv
  BY InitTypeOK DEF TypeInv, InHandIsAnswer, Init
<1>2. TypeInv => TypeOK
  BY DEF TypeInv
<1>3. QED
  BY <1>1, <1>2, TypeStep, PTL DEF Spec

-----------------------------------------------------------------------------
(* One settler.                                                            *)

\* Both threads start together; the vectors of the three loops that settle
\* requests are empty outside them.
Locals ==
    /\ reader = "none" => timer = "none"
    /\ timer # "firing" => expired = {}
    /\ reader # "failing" => toFail["reader"] = {}
    /\ stopper # "failing" => toFail["stopper"] = {}

\* A request that was not issued is with nobody.
IdleIsClean == \A r \in Req : caller[r] = "idle" => r \notin Owned /\ ~Settled(r)

\* A caller's unsettled request is in the map, or in the hands of who took it out.
AccountedFor ==
    \A r \in Req :
        caller[r] \in {"registered", "waiting", "expiring", "failing"} /\ ~Settled(r)
            => r \in Owned

\* OneSettler is inductive only beside these: a scan or a sweep overwrites its
\* vector, and registering puts a request in the map.
OwnInv == TypeInv /\ Locals /\ IdleIsClean /\ OneSettler /\ AccountedFor

LEMMA OwnInit == Init => OwnInv
<1> SUFFICES ASSUME Init PROVE OwnInv
  OBVIOUS
<1>1. TypeInv
  BY InitTypeOK DEF TypeInv, InHandIsAnswer, Init
<1>2. Owned = {} /\ InReader = {} /\ InCaller = {}
  BY DEF Init, Owned, InReader, InCaller
<1>3. Locals /\ IdleIsClean /\ OneSettler /\ AccountedFor
  BY <1>2 DEF Init, Locals, IdleIsClean, OneSettler, AccountedFor, Settled
<1>4. QED
  BY <1>1, <1>3 DEF OwnInv

\* A thread that calls the client touches its own request only.
LEMMA OwnCaller ==
  ASSUME OwnInv, NEW r \in Req, Register(r) \/ Caller(r)
  PROVE  Locals' /\ IdleIsClean' /\ OneSettler' /\ AccountedFor'
<1> USE DEF OwnInv, TypeInv, TypeOK, Locals, IdleIsClean, OneSettler, AccountedFor, Owned,
        InReader, InCaller, Settled, callVars, timerVars, readVars, stopVars, peerVars
<1>1. CASE Register(r)
  BY <1>1 DEF Register, NotifyTimer
<1>2. CASE SendOk(r)
  BY <1>2 DEF SendOk
<1>3. CASE SendFails(r)
  BY <1>3 DEF SendFails
<1>4. CASE EraseAndThrow(r)
  BY <1>4 DEF EraseAndThrow
<1>5. CASE Return(r)
  BY <1>5 DEF Return
<1>6. CASE WaitExpires(r)
  BY <1>6 DEF WaitExpires
<1>7. CASE TakeOwn(r)
  BY <1>7 DEF TakeOwn
<1>8. CASE FailOwn(r)
  BY <1>8 DEF FailOwn, SetPromise
<1>9. QED
  BY <1>1, <1>2, <1>3, <1>4, <1>5, <1>6, <1>7, <1>8 DEF Caller

\* The timeout thread moves requests from the map to its vector.
LEMMA OwnTimer ==
  ASSUME OwnInv, Timer \/ TimerWakesSpuriously
  PROVE  Locals' /\ IdleIsClean' /\ OneSettler' /\ AccountedFor'
<1> USE DEF OwnInv, TypeInv, TypeOK, Locals, IdleIsClean, OneSettler, AccountedFor, Owned,
        InReader, InCaller, Settled, callVars, timerVars, readVars, stopVars, peerVars
<1>1. CASE TimerCheck
  BY <1>1 DEF TimerCheck
<1>2. CASE TimerTakes
  BY <1>2 DEF TimerTakes, Expired
<1>3. CASE TimerWaits
  BY <1>3 DEF TimerWaits
<1>4. CASE TimerBlocks
  BY <1>4 DEF TimerBlocks
<1>5. CASE TimerWakes
  BY <1>5 DEF TimerWakes
<1>6. CASE TimerFires
  BY <1>6 DEF TimerFires, SetPromise
<1>7. CASE TimerWakesSpuriously
  BY <1>7 DEF TimerWakesSpuriously
<1>8. QED
  BY <1>1, <1>2, <1>3, <1>4, <1>5, <1>6, <1>7 DEF Timer

\* The read thread moves one request at a time, or the whole map.
LEMMA OwnReader ==
  ASSUME OwnInv, Reader
  PROVE  Locals' /\ IdleIsClean' /\ OneSettler' /\ AccountedFor'
<1> USE DEF OwnInv, TypeInv, TypeOK, Locals, IdleIsClean, OneSettler, AccountedFor, Owned,
        InReader, InCaller, Settled, Dispatched, callVars, timerVars, readVars, stopVars,
        peerVars
<1>1. CASE ReaderCheck
  BY <1>1 DEF ReaderCheck
<1>2. CASE ReadMessage
  BY <1>2 DEF ReadMessage
<1>3. CASE ReadClosed
  BY <1>3 DEF ReadClosed
<1>4. CASE DispatchOther
  BY <1>4 DEF DispatchOther
<1>5. CASE DispatchResponse
  BY <1>5 DEF DispatchResponse
<1>6. CASE Resolve
  <2>1. inHand.req \in Req /\ inHand.kind # "unset"
    BY <1>6, AnswerTyped DEF Resolve, InHandIsAnswer
  <2>2. QED
    BY <1>6, <2>1 DEF Resolve, SetPromise
<1>7. CASE DispatchCall
  BY <1>7 DEF DispatchCall
<1>8. CASE Reply
  BY <1>8 DEF Reply
<1>9. CASE ReplyFails
  BY <1>9 DEF ReplyFails
<1>10. CASE ReaderCloses
  BY <1>10 DEF ReaderCloses
<1>11. CASE ReaderClears
  BY <1>11 DEF ReaderClears
<1>12. CASE ReaderFails
  <2>1. CASE toFail["reader"] = {}
    BY <1>12, <2>1 DEF ReaderFails, SetPromise
  <2>2. CASE toFail["reader"] # {}
    <3>1. PICK r \in toFail["reader"] :
            /\ outcome' = [outcome EXCEPT ![r] = "closed"]
            /\ toFail' = [toFail EXCEPT !["reader"] = @ \ {r}]
            /\ UNCHANGED <<reader, running, pending, caller, timerVars, inHand>>
      BY <1>12, <2>2 DEF ReaderFails, SetPromise
    <3>2. r \in Req
      OBVIOUS
    <3>3. UNCHANGED stopper
      BY <1>12, <3>1 DEF ReaderFails
    <3>4. QED
      BY <2>2, <3>1, <3>2, <3>3
  <2>3. QED
    BY <2>1, <2>2
<1>13. QED
  BY <1>1, <1>2, <1>3, <1>4, <1>5, <1>6, <1>7, <1>8, <1>9, <1>10, <1>11, <1>12 DEF Reader

\* stop() sweeps the map once both threads are gone.
LEMMA OwnStopper ==
  ASSUME OwnInv, StopBegins \/ Stopper
  PROVE  Locals' /\ IdleIsClean' /\ OneSettler' /\ AccountedFor'
<1> USE DEF OwnInv, TypeInv, TypeOK, Locals, IdleIsClean, OneSettler, AccountedFor, Owned,
        InReader, InCaller, Settled, callVars, timerVars, readVars, stopVars, peerVars
<1>1. CASE StopBegins
  BY <1>1 DEF StopBegins
<1>2. CASE StopNotifies
  BY <1>2 DEF StopNotifies, NotifyTimer
<1>3. CASE StopCloses
  BY <1>3 DEF StopCloses
<1>4. CASE StopJoinsReader
  BY <1>4 DEF StopJoinsReader
<1>5. CASE StopJoinsTimer
  BY <1>5 DEF StopJoinsTimer
<1>6. CASE StopClears
  BY <1>6 DEF StopClears
<1>7. CASE StopFails
  <2>1. CASE toFail["stopper"] = {}
    BY <1>7, <2>1 DEF StopFails, SetPromise
  <2>2. CASE toFail["stopper"] # {}
    <3>1. PICK r \in toFail["stopper"] :
            /\ outcome' = [outcome EXCEPT ![r] = "closed"]
            /\ toFail' = [toFail EXCEPT !["stopper"] = @ \ {r}]
            /\ UNCHANGED <<stopper, running, pending, caller, timerVars, inHand>>
      BY <1>7, <2>2 DEF StopFails, SetPromise
    <3>2. r \in Req
      OBVIOUS
    <3>3. UNCHANGED reader
      BY <1>7, <3>1 DEF StopFails
    <3>4. QED
      BY <2>2, <3>1, <3>2, <3>3
  <2>3. QED
    BY <2>1, <2>2
<1>8. QED
  BY <1>1, <1>2, <1>3, <1>4, <1>5, <1>6, <1>7 DEF Stopper

\* start(), the peer and the clock settle nothing.
LEMMA OwnRest ==
  ASSUME OwnInv, Start \/ PeerSends \/ PeerCloses \/ Tick \/ UNCHANGED vars
  PROVE  Locals' /\ IdleIsClean' /\ OneSettler' /\ AccountedFor'
<1> USE DEF OwnInv, Locals, IdleIsClean, OneSettler, AccountedFor, Owned,
        InReader, InCaller, Settled, callVars, timerVars, readVars, stopVars, peerVars
<1>1. CASE Start
  BY <1>1 DEF Start
<1>2. CASE PeerSends
  BY <1>2 DEF PeerSends
<1>3. CASE PeerCloses
  BY <1>3 DEF PeerCloses
<1>4. CASE Tick
  BY <1>4 DEF Tick
<1>5. CASE UNCHANGED vars
  BY <1>5 DEF vars
<1>6. QED
  BY <1>1, <1>2, <1>3, <1>4, <1>5

LEMMA OwnNext == OwnInv /\ [Next]_vars => OwnInv'
<1> SUFFICES ASSUME OwnInv, [Next]_vars PROVE OwnInv'
  OBVIOUS
<1>1. TypeInv'
  BY TypeStep DEF OwnInv
<1>2. Locals' /\ IdleIsClean' /\ OneSettler' /\ AccountedFor'
  BY OwnCaller, OwnTimer, OwnReader, OwnStopper, OwnRest DEF Next
<1>3. QED
  BY <1>1, <1>2 DEF OwnInv

\* No promise is ever set twice, whatever races: a request is with one party.
THEOREM SettledOnce == Spec => []OneSettler
<1>1. OwnInv => OneSettler
  BY DEF OwnInv
<1>2. QED
  BY <1>1, OwnInit, OwnNext, PTL DEF Spec

-----------------------------------------------------------------------------
(* No timeout before its time.                                             *)

\* A deadline that was read as passed has passed; invoke_sync's own wait is never
\* shorter than the deadline that was set before the request was written.
TimeInv ==
    /\ \A r \in expired : Timed(r) /\ left[r] = 0
    /\ \A r \in Req :
          /\ outcome[r] = "timeout" => Timed(r) /\ left[r] = 0
          /\ caller[r] = "failing" => left[r] = 0
          /\ caller[r] \in {"expiring", "failing", "timedOut"} =>
                r \in Sync /\ Timed(r) /\ patience[r] = 0
          /\ r \in Sync /\ (r \in pending \/ caller[r] = "idle") => left[r] <= patience[r]

LEMMA TimeInit == Init => TimeInv
<1> SUFFICES ASSUME Init PROVE TimeInv
  OBVIOUS
<1>1. \A r \in Req : r \in Sync => left[r] = Timeout[r] /\ patience[r] = Timeout[r]
                                 /\ Timeout[r] \in Nat
  BY ReqAssumption DEF Init
<1>2. QED
  BY <1>1 DEF Init, TimeInv

LEMMA TimeCaller ==
  ASSUME TypeInv, TimeInv, NEW r \in Req, Register(r) \/ Caller(r)
  PROVE  TimeInv'
<1> USE DEF TypeInv, TypeOK, TimeInv, Settled, callVars, timerVars
<1>1. CASE Register(r)
  BY <1>1 DEF Register
<1>2. CASE SendOk(r) \/ SendFails(r) \/ EraseAndThrow(r) \/ Return(r)
  BY <1>2 DEF SendOk, SendFails, EraseAndThrow, Return
<1>3. CASE WaitExpires(r)
  BY <1>3 DEF WaitExpires
<1>4. CASE TakeOwn(r)
  BY <1>4 DEF TakeOwn
<1>5. CASE FailOwn(r)
  BY <1>5 DEF FailOwn, SetPromise
<1>6. QED
  BY <1>1, <1>2, <1>3, <1>4, <1>5 DEF Caller

LEMMA TimeTimer ==
  ASSUME TypeInv, TimeInv, Timer \/ TimerWakesSpuriously
  PROVE  TimeInv'
<1> USE DEF TypeInv, TypeOK, TimeInv, callVars, timerVars
<1>1. CASE TimerTakes
  BY <1>1 DEF TimerTakes, Expired
<1>2. CASE TimerFires
  BY <1>2 DEF TimerFires, SetPromise
<1>3. CASE TimerCheck \/ TimerWaits \/ TimerBlocks \/ TimerWakes \/ TimerWakesSpuriously
  BY <1>3 DEF TimerCheck, TimerWaits, TimerBlocks, TimerWakes, TimerWakesSpuriously
<1>4. QED
  BY <1>1, <1>2, <1>3 DEF Timer

LEMMA TimeReader ==
  ASSUME TypeInv, TimeInv, Reader
  PROVE  TimeInv'
<1> USE DEF TypeInv, TypeOK, TimeInv, callVars, timerVars
<1>1. CASE DispatchResponse
  BY <1>1 DEF DispatchResponse
<1>2. CASE Resolve
  BY <1>2 DEF Resolve, SetPromise, InHandIsAnswer
<1>3. CASE ReaderClears
  BY <1>3 DEF ReaderClears
<1>4. CASE ReaderFails
  BY <1>4 DEF ReaderFails, SetPromise
<1>5. CASE \/ ReaderCheck \/ ReadMessage \/ ReadClosed \/ DispatchOther
           \/ DispatchCall \/ Reply \/ ReplyFails \/ ReaderCloses
  BY <1>5 DEF ReaderCheck, ReadMessage, ReadClosed, DispatchOther, DispatchCall, Reply,
     ReplyFails, ReaderCloses
<1>6. QED
  BY <1>1, <1>2, <1>3, <1>4, <1>5 DEF Reader

LEMMA TimeStopper ==
  ASSUME TypeInv, TimeInv, StopBegins \/ Stopper
  PROVE  TimeInv'
<1> USE DEF TypeInv, TypeOK, TimeInv, callVars, timerVars
<1>1. CASE StopClears
  BY <1>1 DEF StopClears
<1>2. CASE StopFails
  BY <1>2 DEF StopFails, SetPromise
<1>3. CASE \/ StopBegins \/ StopNotifies \/ StopCloses \/ StopJoinsReader \/ StopJoinsTimer
  BY <1>3 DEF StopBegins, StopNotifies, StopCloses, StopJoinsReader, StopJoinsTimer
<1>4. QED
  BY <1>1, <1>2, <1>3 DEF Stopper

LEMMA TimeRest ==
  ASSUME TypeInv, TimeInv, Start \/ PeerSends \/ PeerCloses \/ Tick \/ UNCHANGED vars
  PROVE  TimeInv'
<1> USE DEF TypeInv, TypeOK, TimeInv, callVars, timerVars
<1>1. CASE Start \/ PeerSends \/ PeerCloses
  BY <1>1 DEF Start, PeerSends, PeerCloses
<1>2. CASE Tick
  <2>1. \A r \in Req : left[r] \in Nat /\ patience[r] \in Nat
    OBVIOUS
  <2>2. \A r \in Req :
           /\ left[r] = 0 => left'[r] = 0
           /\ patience[r] = 0 => patience'[r] = 0
           /\ r \in pending /\ left[r] <= patience[r] => left'[r] <= patience'[r]
           /\ caller[r] = "idle" /\ r \notin pending =>
                 left'[r] = left[r] /\ patience'[r] = patience[r]
    BY <1>2, <2>1 DEF Tick, Down
  <2>3. expired' = expired /\ outcome' = outcome /\ caller' = caller /\ pending' = pending
    BY <1>2 DEF Tick
  <2>4. \A r \in expired' : Timed(r) /\ left'[r] = 0
    BY <2>2, <2>3
  <2>5. ASSUME NEW r \in Req
        PROVE  r \in Sync /\ (r \in pending' \/ caller'[r] = "idle") => left'[r] <= patience'[r]
    BY <2>2, <2>3
  <2>6. ASSUME NEW r \in Req
        PROVE  /\ outcome'[r] = "timeout" => Timed(r) /\ left'[r] = 0
               /\ caller'[r] = "failing" => left'[r] = 0
               /\ caller'[r] \in {"expiring", "failing", "timedOut"} =>
                     r \in Sync /\ Timed(r) /\ patience'[r] = 0
    BY <2>2, <2>3
  <2>7. QED
    BY <2>4, <2>5, <2>6
<1>3. CASE UNCHANGED vars
  BY <1>3 DEF vars
<1>4. QED
  BY <1>1, <1>2, <1>3

\* "Request timed out" is never said too early, whatever the clock and the
\* threads do, to asynchronous and to synchronous callers.
THEOREM NeverEarly == Spec => []TimeoutNotEarly
<1>1. Init => TypeInv /\ TimeInv
  BY TimeInit, OwnInit DEF OwnInv
<1>2. TypeInv /\ TimeInv /\ [Next]_vars => TypeInv' /\ TimeInv'
  <2> SUFFICES ASSUME TypeInv, TimeInv, [Next]_vars PROVE TimeInv'
    BY TypeStep
  <2>1. QED
    BY TimeCaller, TimeTimer, TimeReader, TimeStopper, TimeRest DEF Next
<1>3. TimeInv => TimeoutNotEarly
  BY DEF TimeInv, TimeoutNotEarly
<1>4. QED
  BY <1>1, <1>2, <1>3, PTL DEF Spec

-----------------------------------------------------------------------------
(* What stop() leaves behind.                                              *)

\* After the close nothing is written; after the joins the threads hold nothing;
\* after the sweep a caller that still waits is in the vector being failed.
StopInv ==
    /\ stopper \in {"joinReader", "joinTimer", "clearing", "failing", "done"} /\ wasRunning
          => ~open
    /\ stopper \in {"joinTimer", "clearing", "failing", "done"} => reader = "done"
    /\ stopper \in {"clearing", "failing", "done"} => timer = "done"
    /\ stopper \in {"failing", "done"} /\ wasRunning =>
          \A r \in Req : caller[r] = "waiting" /\ ~Settled(r) => r \in toFail["stopper"]

LEMMA StopStep ==
  ASSUME OwnInv, StopInv, [Next]_vars
  PROVE  StopInv'
<1> USE DEF OwnInv, TypeInv, TypeOK, StopInv, Settled, callVars, timerVars, readVars,
        stopVars, peerVars
<1>1. CASE \E r \in Req : Register(r) \/ Caller(r)
  <2> PICK r \in Req : Register(r) \/ Caller(r)
    BY <1>1
  <2>1. CASE Register(r)
    BY <2>1 DEF Register, NotifyTimer
  <2>2. CASE SendOk(r)
    BY <2>2 DEF SendOk, CanWrite
  <2>3. CASE FailOwn(r)
    BY <2>3 DEF FailOwn, SetPromise
  <2>4. CASE SendFails(r) \/ EraseAndThrow(r) \/ Return(r) \/ WaitExpires(r) \/ TakeOwn(r)
    BY <2>4 DEF SendFails, EraseAndThrow, Return, WaitExpires, TakeOwn
  <2>5. QED
    BY <2>1, <2>2, <2>3, <2>4 DEF Caller
<1>2. CASE Timer \/ TimerWakesSpuriously
  BY <1>2 DEF Timer, TimerCheck, TimerTakes, TimerWaits, TimerBlocks, TimerWakes,
     TimerWakesSpuriously, TimerFires
<1>3. CASE Reader
  BY <1>3 DEF Reader, ReaderCheck, ReadMessage, ReadClosed, DispatchOther,
     DispatchResponse, Resolve, DispatchCall, Reply, ReplyFails, ReaderCloses,
     ReaderClears, ReaderFails, Dispatched
<1>4. CASE StopClears
  <2>1. reader = "done" /\ timer = "done"
    BY <1>4 DEF StopClears
  <2>2. Owned = pending \cup InCaller
    BY <1>4, <2>1 DEF StopClears, Owned, Locals, InReader
  <2>3. \A r \in Req : caller[r] = "waiting" /\ ~Settled(r) => r \in pending
    BY <2>2 DEF AccountedFor, InCaller
  <2>4. QED
    BY <1>4, <2>1, <2>3 DEF StopClears
<1>5. CASE StopFails
  BY <1>5 DEF StopFails, SetPromise
<1>6. CASE StopBegins \/ StopNotifies \/ StopCloses \/ StopJoinsReader \/ StopJoinsTimer
  <2>1. CASE StopBegins
    BY <2>1 DEF StopBegins
  <2>2. CASE StopNotifies
    BY <2>2 DEF StopNotifies, NotifyTimer
  <2>3. CASE StopCloses
    BY <2>3 DEF StopCloses
  <2>4. CASE StopJoinsReader
    BY <2>4 DEF StopJoinsReader
  <2>5. CASE StopJoinsTimer
    BY <2>5 DEF StopJoinsTimer
  <2>6. QED
    BY <1>6, <2>1, <2>2, <2>3, <2>4, <2>5
<1>7. CASE Start \/ PeerSends \/ PeerCloses \/ Tick
  BY <1>7 DEF Start, PeerSends, PeerCloses, Tick
<1>8. CASE UNCHANGED vars
  BY <1>8 DEF vars
<1>9. QED
  BY <1>1, <1>2, <1>3, <1>4, <1>5, <1>6, <1>7, <1>8 DEF Next, Stopper

\* After stop() on a running client no caller waits for a promise nobody sets.
THEOREM StopReleases == Spec => []StopSettlesAll
<1>1. Init => OwnInv /\ StopInv
  BY OwnInit DEF Init, StopInv
<1>2. OwnInv /\ StopInv /\ [Next]_vars => OwnInv' /\ StopInv'
  BY OwnNext, StopStep
<1>3. OwnInv /\ StopInv => StopSettlesAll
  BY DEF OwnInv, Locals, StopInv, StopSettlesAll
<1>4. QED
  BY <1>1, <1>2, <1>3, PTL DEF Spec

-----------------------------------------------------------------------------
(* Nobody is abandoned.                                                    *)

\* The read thread is in its loop while the client runs, and leaves it without
\* a sweep only for a stop(), which has one of its own.
SweepInv ==
    /\ running => reader \notin {"none", "clearing", "failing", "done"}
    /\ reader \notin {"none", "clearing", "failing", "done"} /\ ~running => stopper # "idle"

LEMMA SweepStep ==
  ASSUME TypeInv, SweepInv, [Next]_vars
  PROVE  SweepInv'
<1> USE DEF TypeInv, TypeOK, SweepInv, callVars, timerVars, readVars, stopVars, peerVars
<1>1. CASE \E r \in Req : Register(r) \/ Caller(r)
  BY <1>1 DEF Register, Caller, SendOk, SendFails, EraseAndThrow, Return, WaitExpires,
     TakeOwn, FailOwn
<1>2. CASE Timer \/ TimerWakesSpuriously
  BY <1>2 DEF Timer, TimerWakesSpuriously, TimerCheck, TimerTakes, TimerWaits,
     TimerBlocks, TimerWakes, TimerFires
<1>3. CASE Reader
  BY <1>3 DEF Reader, ReaderCheck, ReadMessage, ReadClosed, DispatchOther,
     DispatchResponse, Resolve, DispatchCall, Reply, ReplyFails, ReaderCloses,
     ReaderClears, ReaderFails, Dispatched
<1>4. CASE StopBegins \/ Stopper
  BY <1>4 DEF StopBegins, Stopper, StopNotifies, StopCloses, StopJoinsReader,
     StopJoinsTimer, StopClears, StopFails
<1>5. CASE Start \/ PeerSends \/ PeerCloses \/ Tick \/ UNCHANGED vars
  BY <1>5 DEF Start, PeerSends, PeerCloses, Tick, vars
<1>6. QED
  BY <1>1, <1>2, <1>3, <1>4, <1>5 DEF Next

\* No thread lets go of a request but to another, to its promise, or to its caller.
LEMMA Handed ==
  ASSUME OwnInv, OwnInv', StopInv, SweepInv, Next, NEW q \in Req,
         Watched(q) \/ (running /\ q \in pending' \ pending)
  PROVE  (Watched(q) \/ Settled(q) \/ caller[q] = "threw")'
<1>0. SweepToCome <=> \/ reader \notin {"none", "failing", "done"}
                      \/ stopper \notin {"idle", "failing", "done"}
  BY DEF OwnInv, TypeInv, TypeOK, SweepToCome, ReaderPc, StopperPc
<1>1. SweepToCome' <=> \/ reader' \notin {"none", "failing", "done"}
                        \/ stopper' \notin {"idle", "failing", "done"}
  BY DEF OwnInv, TypeInv, TypeOK, SweepToCome, ReaderPc, StopperPc
<1> USE <1>0, <1>1 DEF OwnInv, TypeInv, TypeOK, Locals, StopInv, SweepInv, Watched, InReader,
        InCaller, Settled, callVars, timerVars, readVars, stopVars, peerVars
<1>2. CASE \E r \in Req : Register(r) \/ Caller(r)
  <2> PICK r \in Req : Register(r) \/ Caller(r)
    BY <1>2
  <2>1. CASE Register(r)
    BY <2>1 DEF Register, NotifyTimer
  <2>2. CASE FailOwn(r)
    BY <2>2 DEF FailOwn, SetPromise
  <2>3. CASE SendOk(r) \/ SendFails(r) \/ Return(r) \/ WaitExpires(r)
    BY <2>3 DEF SendOk, SendFails, Return, WaitExpires
  <2>4. CASE EraseAndThrow(r)
    BY <2>4 DEF EraseAndThrow
  <2>5. CASE TakeOwn(r)
    BY <2>5 DEF TakeOwn
  <2>6. QED
    BY <2>1, <2>2, <2>3, <2>4, <2>5 DEF Caller
<1>3. CASE Timer \/ TimerWakesSpuriously
  <2>1. CASE TimerTakes
    BY <2>1 DEF TimerTakes
  <2>2. CASE TimerFires
    BY <2>2 DEF TimerFires, SetPromise
  <2>3. CASE TimerCheck \/ TimerWaits \/ TimerBlocks \/ TimerWakes \/ TimerWakesSpuriously
    BY <2>3 DEF TimerCheck, TimerWaits, TimerBlocks, TimerWakes, TimerWakesSpuriously
  <2>4. QED
    BY <1>3, <2>1, <2>2, <2>3 DEF Timer
<1>4. CASE Reader
  <2>1. CASE ReaderCheck
    BY <2>1 DEF ReaderCheck
  <2>2. CASE DispatchResponse
    BY <2>2 DEF DispatchResponse, Dispatched
  <2>3. CASE Resolve
    <3>1. inHand.req \in Req /\ inHand.kind # "unset"
      BY <2>3, AnswerTyped DEF Resolve, InHandIsAnswer
    <3>2. QED
      BY <2>3, <3>1 DEF Resolve, SetPromise, Dispatched
  <2>4. CASE ReaderClears
    BY <2>4 DEF ReaderClears
  <2>5. CASE ReaderFails
    <3>1. CASE toFail["reader"] = {}
      BY <2>5, <3>1 DEF ReaderFails
    <3>2. CASE toFail["reader"] # {}
      <4>1. PICK r \in toFail["reader"] :
              /\ outcome' = [outcome EXCEPT ![r] = IF @ = "unset" THEN "closed" ELSE @]
              /\ toFail' = [toFail EXCEPT !["reader"] = @ \ {r}]
              /\ UNCHANGED reader
        BY <2>5, <3>2 DEF ReaderFails, SetPromise
      <4>2. QED
        BY <2>5, <4>1 DEF ReaderFails
    <3>3. QED
      BY <3>1, <3>2
  <2>6. CASE \/ ReadMessage \/ ReadClosed \/ DispatchOther \/ DispatchCall \/ Reply
             \/ ReplyFails \/ ReaderCloses
    BY <2>6 DEF ReadMessage, ReadClosed, DispatchOther, DispatchCall, Reply, ReplyFails,
       ReaderCloses, Dispatched
  <2>7. QED
    BY <1>4, <2>1, <2>2, <2>3, <2>4, <2>5, <2>6 DEF Reader
<1>5. CASE StopBegins \/ Stopper
  <2>1. CASE StopClears
    BY <2>1 DEF StopClears
  <2>2. CASE StopFails
    <3>1. CASE toFail["stopper"] = {}
      BY <2>2, <3>1 DEF StopFails
    <3>2. CASE toFail["stopper"] # {}
      <4>1. PICK r \in toFail["stopper"] :
              /\ outcome' = [outcome EXCEPT ![r] = IF @ = "unset" THEN "closed" ELSE @]
              /\ toFail' = [toFail EXCEPT !["stopper"] = @ \ {r}]
              /\ UNCHANGED stopper
        BY <2>2, <3>2 DEF StopFails, SetPromise
      <4>2. QED
        BY <2>2, <4>1 DEF StopFails
    <3>3. QED
      BY <3>1, <3>2
  <2>3. CASE StopBegins \/ StopNotifies \/ StopCloses \/ StopJoinsReader \/ StopJoinsTimer
    BY <2>3 DEF StopBegins, StopNotifies, NotifyTimer, StopCloses, StopJoinsReader,
       StopJoinsTimer
  <2>4. QED
    BY <1>5, <2>1, <2>2, <2>3 DEF Stopper
<1>6. CASE Start \/ PeerSends \/ PeerCloses \/ Tick
  BY <1>6 DEF Start, PeerSends, PeerCloses, Tick
<1>7. QED
  BY <1>2, <1>3, <1>4, <1>5, <1>6 DEF Next

\* A request registered while the client runs stays with a thread that has not
\* ended until it is settled: the read thread leaves the map to its own sweep or
\* to that of stop(), and whoever takes a request out of it settles it.
THEOREM SomebodySettles == Spec => NotAbandoned
<1>1. Init => OwnInv /\ StopInv /\ SweepInv
  BY OwnInit DEF Init, StopInv, SweepInv
<1>2. OwnInv /\ StopInv /\ SweepInv /\ [Next]_vars => OwnInv' /\ StopInv' /\ SweepInv'
  BY OwnNext, StopStep, SweepStep DEF OwnInv
<1>3. OwnInv /\ OwnInv' /\ StopInv /\ SweepInv /\ [Next]_vars =>
        [\A r \in Req :
            Watched(r) \/ (running /\ r \in pending' \ pending)
                => (Watched(r) \/ Settled(r) \/ caller[r] = "threw")']_vars
  BY Handed
<1>4. QED
  BY <1>1, <1>2, <1>3, PTL DEF Spec, NotAbandoned

-----------------------------------------------------------------------------
(* The client implements RpcCalls.                                         *)

Answers == {"result", "error"}

\* An answer on its way, in hand or in a promise was given by the peer, to a
\* request that was written; only a settled request returns.
AnswerInv ==
    /\ \A i \in 1..Len(wire) : wire[i].kind \in Answers => wire[i].req \in answered
    /\ inHand.kind \in Answers => inHand.req \in answered
    /\ \A r \in Req : /\ outcome[r] \in Answers => r \in answered
                      /\ caller[r] = "returned" => Settled(r)

LEMMA AnswerInit == Init => AnswerInv
  BY DEF Init, AnswerInv, Answers, Settled, NoMessage

LEMMA AnswerStep ==
  ASSUME TypeInv, AnswerInv, [Next]_vars
  PROVE  AnswerInv'
<1> USE DEF TypeInv, TypeOK, AnswerInv, Answers, Settled, callVars, timerVars, readVars,
        stopVars, peerVars
<1>1. CASE \E r \in Req : Register(r) \/ Caller(r)
  <2> PICK r \in Req : Register(r) \/ Caller(r)
    BY <1>1
  <2>1. CASE FailOwn(r)
    BY <2>1 DEF FailOwn, SetPromise
  <2>2. CASE \/ Register(r) \/ SendOk(r) \/ SendFails(r) \/ EraseAndThrow(r) \/ Return(r)
             \/ WaitExpires(r) \/ TakeOwn(r)
    BY <2>2 DEF Register, SendOk, SendFails, EraseAndThrow, Return, WaitExpires, TakeOwn
  <2>3. QED
    BY <2>1, <2>2 DEF Caller
<1>2. CASE Timer \/ TimerWakesSpuriously
  <2>1. CASE TimerFires
    BY <2>1 DEF TimerFires, SetPromise
  <2>2. CASE \/ TimerCheck \/ TimerTakes \/ TimerWaits \/ TimerBlocks \/ TimerWakes
             \/ TimerWakesSpuriously
    BY <2>2 DEF TimerCheck, TimerTakes, TimerWaits, TimerBlocks, TimerWakes,
       TimerWakesSpuriously
  <2>3. QED
    BY <1>2, <2>1, <2>2 DEF Timer
<1>3. CASE Reader
  <2>1. CASE ReadMessage
    <3>1. /\ wire # <<>> /\ inHand' = Head(wire) /\ wire' = Tail(wire)
          /\ UNCHANGED <<outcome, caller, answered>>
      BY <2>1 DEF ReadMessage
    <3>2. Head(wire) = wire[1] /\ 1 \in 1..Len(wire)
      BY <3>1
    <3>3. /\ Len(Tail(wire)) = Len(wire) - 1
          /\ \A i \in 1..Len(Tail(wire)) : Tail(wire)[i] = wire[i + 1] /\ i + 1 \in 1..Len(wire)
      BY <3>1
    <3>4. QED
      BY <3>1, <3>2, <3>3
  <2>2. CASE Resolve
    BY <2>2 DEF Resolve, SetPromise, Dispatched, NoMessage
  <2>3. CASE ReaderFails
    BY <2>3 DEF ReaderFails, SetPromise
  <2>4. CASE \/ ReaderCheck \/ ReadClosed \/ DispatchOther \/ DispatchResponse \/ DispatchCall
             \/ Reply \/ ReplyFails \/ ReaderCloses \/ ReaderClears
    BY <2>4 DEF ReaderCheck, ReadClosed, DispatchOther, DispatchResponse, DispatchCall, Reply,
       ReplyFails, ReaderCloses, ReaderClears, Dispatched, NoMessage
  <2>5. QED
    BY <1>3, <2>1, <2>2, <2>3, <2>4 DEF Reader
<1>4. CASE StopBegins \/ Stopper
  <2>1. CASE StopFails
    BY <2>1 DEF StopFails, SetPromise
  <2>2. CASE \/ StopBegins \/ StopNotifies \/ StopCloses \/ StopJoinsReader \/ StopJoinsTimer
             \/ StopClears
    BY <2>2 DEF StopBegins, StopNotifies, StopCloses, StopJoinsReader, StopJoinsTimer, StopClears
  <2>3. QED
    BY <1>4, <2>1, <2>2 DEF Stopper
<1>5. CASE PeerSends
  <2>1. PICK m \in Message :
          /\ wire' = Append(wire, m)
          /\ answered' = IF m.kind \in Answers THEN answered \cup {m.req} ELSE answered
          /\ UNCHANGED <<inHand, outcome, caller>>
    BY <1>5 DEF PeerSends
  <2>2. /\ Len(wire') = Len(wire) + 1
        /\ \A i \in 1..Len(wire) : wire'[i] = wire[i]
        /\ wire'[Len(wire) + 1] = m
    BY <2>1
  <2>3. \A i \in 1..Len(wire') : wire'[i].kind \in Answers => wire'[i].req \in answered'
    BY <2>1, <2>2
  <2>4. QED
    BY <2>1, <2>3
<1>6. CASE Start \/ PeerCloses \/ Tick
  BY <1>6 DEF Start, PeerCloses, Tick
<1>7. CASE UNCHANGED vars
  BY <1>7 DEF vars
<1>8. QED
  BY <1>1, <1>2, <1>3, <1>4, <1>5, <1>6, <1>7 DEF Next

\* A step that settles nobody's returned request and moves no caller is a
\* stutter of the abstract specification.
LEMMA Stutter ==
  ASSUME AnswerInv, caller' = caller, sent' = sent, answered' = answered,
         \A r \in Req : Settled(r) => outcome'[r] = outcome[r]
  PROVE  UNCHANGED Calls!vars
<1>1. \A r \in Req : Seen(r)' = Seen(r)
  BY DEF Seen, AnswerInv, Settled
<1>2. QED
  BY <1>1 DEF Calls!vars

\* A promise that is set keeps its value.
LEMMA PromiseKept ==
  ASSUME outcome \in [Req -> Outcome], NEW r \in Req, NEW o, SetPromise(r, o)
  PROVE  \A q \in Req : Settled(q) => outcome'[q] = outcome[q]
  BY DEF SetPromise, Settled

\* A step of one caller that leaves promises alone changes only what that caller sees.
LEMMA OneSees ==
  ASSUME NEW r \in Req, NEW pc, caller \in [Req -> CallerPc],
         caller' = [caller EXCEPT ![r] = pc],
         \A q \in Req : q # r => (caller[q] = "returned" => outcome'[q] = outcome[q])
  PROVE  [q \in Req |-> Seen(q)]' = [[q \in Req |-> Seen(q)] EXCEPT ![r] = Seen(r)']
<1>1. \A q \in Req : q # r => Seen(q)' = Seen(q)
  BY DEF Seen
<1>2. QED
  BY <1>1

LEMMA CallerRefines ==
  ASSUME TypeInv, AnswerInv, NEW r \in Req, Register(r) \/ Caller(r)
  PROVE  [Calls!Next]_(Calls!vars)
<1> DEFINE call == [q \in Req |-> Seen(q)]
<1> USE DEF TypeInv, TypeOK, callVars, peerVars
<1>1. CASE Register(r)
  <2>1. Seen(r) = "idle" /\ Seen(r)' = "open" /\ UNCHANGED <<sent, answered>>
    BY <1>1 DEF Register, Seen
  <2>2. call' = [call EXCEPT ![r] = "open"]
    BY <1>1, <2>1, OneSees DEF Register
  <2>3. Calls!Issue(r)
    BY <2>1, <2>2 DEF Calls!Issue
  <2>4. QED
    BY <2>3 DEF Calls!Next
<1>2. CASE SendOk(r)
  <2>1. Seen(r) = "open" /\ Seen(r)' = "open" /\ sent' = sent \cup {r} /\ answered' = answered
    BY <1>2 DEF SendOk, Seen
  <2>2. call' = call
    BY <1>2, <2>1, OneSees DEF SendOk
  <2>3. Calls!Ask(r)
    BY <2>1, <2>2 DEF Calls!Ask
  <2>4. QED
    BY <2>3 DEF Calls!Next
<1>3. CASE EraseAndThrow(r)
  <2>1. Seen(r) = "open" /\ Seen(r)' = "threw" /\ UNCHANGED <<sent, answered>>
    BY <1>3 DEF EraseAndThrow, Seen
  <2>2. call' = [call EXCEPT ![r] = "threw"]
    BY <1>3, <2>1, OneSees DEF EraseAndThrow
  <2>3. Calls!End(r, "threw")
    BY <2>1, <2>2 DEF Calls!End, Calls!Answers
  <2>4. QED
    BY <2>3 DEF Calls!Next, Calls!Failures
<1>4. CASE Return(r)
  <2>1. /\ Seen(r) = "open" /\ Seen(r)' = outcome[r]
        /\ outcome[r] \in {"result", "error", "timeout", "closed"}
        /\ UNCHANGED <<sent, answered>>
    BY <1>4 DEF Return, Seen, Settled, Outcome
  <2>2. call' = [call EXCEPT ![r] = outcome[r]]
    BY <1>4, <2>1, OneSees DEF Return
  <2>3. Calls!End(r, outcome[r])
    BY <2>1, <2>2 DEF Calls!End, Calls!Answers, AnswerInv, Answers
  <2>4. QED
    BY <2>1, <2>3 DEF Calls!Next, Calls!Answers, Calls!Failures
<1>5. CASE SendFails(r) \/ WaitExpires(r)
  <2>1. PICK pc \in CallerPc : caller' = [caller EXCEPT ![r] = pc] /\ Seen(r)' = Seen(r)
    <3>1. CASE SendFails(r)
      BY <3>1 DEF SendFails, Seen, CallerPc
    <3>2. CASE WaitExpires(r)
      BY <3>2 DEF WaitExpires, Seen, CallerPc
    <3>3. QED
      BY <1>5, <3>1, <3>2
  <2>2. UNCHANGED <<outcome, sent, answered>>
    BY <1>5 DEF SendFails, WaitExpires
  <2>3. call' = call
    BY <2>1, <2>2, OneSees
  <2>4. QED
    BY <2>2, <2>3 DEF Calls!vars
<1>6. CASE TakeOwn(r)
  <2>1. UNCHANGED <<outcome, sent, answered>> /\ Seen(r) = "open"
    BY <1>6 DEF TakeOwn, Seen
  <2>2. CASE r \in pending
    <3>1. Seen(r)' = "open"
      BY <1>6, <2>2 DEF TakeOwn, Seen
    <3>2. call' = call
      BY <1>6, <2>1, <3>1, OneSees DEF TakeOwn
    <3>3. QED
      BY <2>1, <3>2 DEF Calls!vars
  <2>3. CASE r \notin pending
    <3>1. Seen(r)' = "timeout"
      BY <1>6, <2>3 DEF TakeOwn, Seen
    <3>2. call' = [call EXCEPT ![r] = "timeout"]
      BY <1>6, <2>1, <3>1, OneSees DEF TakeOwn
    <3>3. Calls!End(r, "timeout")
      BY <2>1, <3>2 DEF Calls!End, Calls!Answers
    <3>4. QED
      BY <3>3 DEF Calls!Next, Calls!Failures
  <2>4. QED
    BY <2>2, <2>3
<1>7. CASE FailOwn(r)
  <2>1. Seen(r) = "open" /\ Seen(r)' = "timeout" /\ UNCHANGED <<sent, answered>>
    BY <1>7 DEF FailOwn, Seen
  <2>2. call' = [call EXCEPT ![r] = "timeout"]
    BY <1>7, <2>1, OneSees, PromiseKept DEF FailOwn, AnswerInv
  <2>3. Calls!End(r, "timeout")
    BY <2>1, <2>2 DEF Calls!End, Calls!Answers
  <2>4. QED
    BY <2>3 DEF Calls!Next, Calls!Failures
<1>8. QED
  BY <1>1, <1>2, <1>3, <1>4, <1>5, <1>6, <1>7 DEF Caller

\* The threads inside the client end no call by themselves: the caller does, when
\* it looks at its future.
LEMMA InsideRefines ==
  ASSUME TypeInv, AnswerInv,
         Start \/ Timer \/ TimerWakesSpuriously \/ Reader \/ StopBegins \/ Stopper
         \/ PeerCloses \/ Tick
  PROVE  UNCHANGED Calls!vars
<1> USE DEF TypeInv, TypeOK, callVars, peerVars
<1>1. caller' = caller /\ sent' = sent /\ answered' = answered
  BY DEF Start, Timer, TimerCheck, TimerTakes, TimerWaits, TimerBlocks, TimerWakes,
     TimerWakesSpuriously, TimerFires, Reader, ReaderCheck, ReadMessage, ReadClosed,
     DispatchOther, DispatchResponse, Resolve, DispatchCall, Reply, ReplyFails,
     ReaderCloses, ReaderClears, ReaderFails, StopBegins, Stopper, StopNotifies,
     StopCloses, StopJoinsReader, StopJoinsTimer, StopClears, StopFails, PeerCloses, Tick
<1>2. \A r \in Req : Settled(r) => outcome'[r] = outcome[r]
  <2>1. CASE TimerFires
    BY <2>1, PromiseKept DEF TimerFires
  <2>2. CASE Resolve
    BY <2>2, PromiseKept, AnswerTyped DEF Resolve, InHandIsAnswer
  <2>3. CASE ReaderFails
    BY <2>3, PromiseKept DEF ReaderFails
  <2>4. CASE StopFails
    BY <2>4, PromiseKept DEF StopFails
  <2>5. CASE ~(TimerFires \/ Resolve \/ ReaderFails \/ StopFails)
    <3>1. outcome' = outcome
      BY <2>5 DEF Start, Timer, TimerCheck, TimerTakes, TimerWaits, TimerBlocks, TimerWakes,
         TimerWakesSpuriously, Reader, ReaderCheck, ReadMessage, ReadClosed,
         DispatchOther, DispatchResponse, DispatchCall, Reply, ReplyFails,
         ReaderCloses, ReaderClears, StopBegins, Stopper, StopNotifies,
         StopCloses, StopJoinsReader, StopJoinsTimer, StopClears, PeerCloses, Tick
    <3>2. QED
      BY <3>1
  <2>6. QED
    BY <2>1, <2>2, <2>3, <2>4, <2>5
<1>3. QED
  BY <1>1, <1>2, Stutter

LEMMA PeerRefines ==
  ASSUME TypeInv, AnswerInv, PeerSends
  PROVE  [Calls!Next]_(Calls!vars)
<1>1. PICK m \in Message :
        /\ m.kind \in Answers => m.req \in sent /\ answered' = answered \cup {m.req}
        /\ m.kind \notin Answers => answered' = answered
  BY DEF PeerSends, Answers
<1>2. UNCHANGED <<caller, outcome, sent>>
  BY DEF PeerSends, callVars
<1>3. [q \in Req |-> Seen(q)]' = [q \in Req |-> Seen(q)]
  BY <1>2 DEF Seen
<1>4. CASE m.kind \in Answers
  <2>1. m.req \in Req
    BY <1>4 DEF Message, Answers
  <2>2. Calls!Answer(m.req)
    BY <1>1, <1>2, <1>3, <1>4 DEF Calls!Answer
  <2>3. QED
    BY <2>1, <2>2 DEF Calls!Next
<1>5. CASE m.kind \notin Answers
  BY <1>1, <1>2, <1>3, <1>5 DEF Calls!vars
<1>6. QED
  BY <1>4, <1>5

\* Every behaviour of the client, with its threads and races, is one of RpcCalls:
\* a call ends once, and with an answer only if the peer gave it to that call.
THEOREM Implements == Spec => ImplementsCalls
<1>1. Init => TypeInv /\ AnswerInv /\ Calls!Init
  <2>1. Init => [q \in Req |-> Seen(q)] = [q \in Req |-> "idle"]
    BY DEF Init, Seen
  <2>2. QED
    BY <2>1, OwnInit, AnswerInit DEF OwnInv, Calls!Init, Init
<1>2. TypeInv /\ AnswerInv /\ [Next]_vars =>
        TypeInv' /\ AnswerInv' /\ [Calls!Next]_(Calls!vars)
  <2> SUFFICES ASSUME TypeInv, AnswerInv, [Next]_vars PROVE [Calls!Next]_(Calls!vars)
    BY TypeStep, AnswerStep
  <2>1. CASE UNCHANGED vars
    BY <2>1 DEF vars, callVars, peerVars, Calls!vars, Seen
  <2>2. CASE Next
    BY <2>2, CallerRefines, InsideRefines, PeerRefines DEF Next
  <2>3. QED
    BY <2>1, <2>2
<1>3. QED
  BY <1>1, <1>2, PTL DEF Spec, ImplementsCalls, Calls!Spec
=============================================================================
