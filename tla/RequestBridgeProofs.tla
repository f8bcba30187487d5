------------------------ MODULE RequestBridgeProofs ------------------------
(***************************************************************************)
(* Theorems about RequestBridge, for any number of exchanges and responses *)
(* of any length.                                                          *)
(***************************************************************************)
EXTENDS RequestBridge, SequenceTheorems, TLAPS

-----------------------------------------------------------------------------
(* Responses and their beginnings.                                         *)

Length(n) == IF n = 0 THEN 2 ELSE n + 1
Prefix(n, k) == SubSeq(Whole(n), 1, k)

\* A response is a sequence of messages, at least its start and its end.
LEMMA WholeTyped ==
    ASSUME NEW n \in Nat
    PROVE  /\ Whole(n) \in Seq(Messages)
           /\ Len(Whole(n)) = Length(n) /\ Length(n) \in Nat \ {0, 1}
<1>1. Length(n) \in Nat \ {0, 1}
    BY DEF Length
<1>2. Whole(n) \in [1..Length(n) -> Messages]
    BY DEF Whole, Length, Messages
<1> QED BY <1>1, <1>2

LEMMA PrefixTyped ==
    ASSUME NEW n \in Nat, NEW k \in 0..Len(Whole(n))
    PROVE  Prefix(n, k) \in Seq(Messages)
<1>1. Whole(n) \in Seq(Messages) /\ k \in Int
    BY WholeTyped
<1>2. \A i \in 1..k : Whole(n)[i] \in Messages
    BY <1>1, WholeTyped, ElementOfSeq
<1> QED BY <1>1, <1>2, SubSeqProperties DEF Prefix

LEMMA PrefixLength ==
    ASSUME NEW n \in Nat, NEW k \in 0..Len(Whole(n))
    PROVE  Len(Prefix(n, k)) = k
<1>1. Whole(n) \in Seq(Messages) /\ k \in Nat
    BY WholeTyped
<1>2. \A i \in 1..k : Whole(n)[i] \in Messages
    BY <1>1, WholeTyped, ElementOfSeq
<1>3. Len(Prefix(n, k)) = IF 1 <= k THEN k - 1 + 1 ELSE 0
    BY <1>1, <1>2, SubSeqProperties DEF Prefix
<1> QED BY <1>1, <1>3

LEMMA PrefixNone == ASSUME NEW n \in Nat PROVE Prefix(n, 0) = <<>>
BY SubSeqEmpty DEF Prefix

\* The next message of a response makes its beginning one longer.
LEMMA PrefixGrows ==
    ASSUME NEW n \in Nat, NEW k \in Nat, k < Len(Whole(n))
    PROVE  /\ Whole(n)[k + 1] \in Messages
           /\ Append(Prefix(n, k), Whole(n)[k + 1]) = Prefix(n, k + 1)
<1>1. Whole(n) \in Seq(Messages) /\ Len(Whole(n)) \in Nat
    BY WholeTyped
<1>2. 1 \in 1..Len(Whole(n)) /\ k + 1 \in 1..Len(Whole(n)) /\ k \in 0..Len(Whole(n))
    BY <1>1
<1>3. Whole(n)[k + 1] \in Messages
    BY <1>1, <1>2, ElementOfSeq
<1>4. SubSeq(Whole(n), 1, k + 1) = SubSeq(Whole(n), 1, (k + 1) - 1) \o <<Whole(n)[k + 1]>>
    BY <1>1, <1>2, SubSeqRecursiveSecond
<1>5. (k + 1) - 1 = k
    OBVIOUS
<1>6. Prefix(n, k) \in Seq(Messages)
    BY <1>2, PrefixTyped
<1>7. Append(Prefix(n, k), Whole(n)[k + 1]) = Prefix(n, k) \o <<Whole(n)[k + 1]>>
    BY <1>3, <1>6, AppendIsConcat
<1> QED BY <1>3, <1>4, <1>5, <1>7 DEF Prefix

-----------------------------------------------------------------------------
(* The inductive invariant.                                                *)

\* Only exchanges of the transport http are ever pending, and one whose last chunk the
\* read thread has in hand has no thread yet.
Places ==
    /\ pending \subseteq Http /\ doomed \subseteq Http
    /\ reader \in {"mark", "erase", "spawn"} => at \in Http
    /\ reader \in {"end", "spawn"} => server[at] = "end" /\ thread[at] = "none"
    /\ \A e \in Exchanges :
          thread[e] # "none" => e \in Http /\ server[e] \in {"end", "cancel"}

\* How much of the response has been sent at each stage of complete_http.  The message
\* that it waits for has gone nowhere if the server was lost.
Sent(e) ==
    /\ thread[e] \in {"none", "begun", "handler", "returned"} => got[e] = <<>> /\ sent[e] = 0
    /\ thread[e] = "sending" =>
          /\ sent[e] < Len(Whole(parts[e]))
          /\ got[e] = Prefix(parts[e], sent[e])
    /\ thread[e] = "waiting" =>
          /\ sent[e] < Len(Whole(parts[e]))
          /\ got[e] \in {Prefix(parts[e], sent[e]), Prefix(parts[e], sent[e] + 1)}
    /\ thread[e] \in {"threw", "fail"} =>
          \E k \in 0..Len(Whole(parts[e])) : got[e] = Prefix(parts[e], k)
    /\ thread[e] \in {"failing", "erase", "over"} =>
          \E k \in 0..Len(Whole(parts[e])) :
              got[e] \in {Prefix(parts[e], k), Prefix(parts[e], k) \o <<"error">>}

AllSent == \A e \in Http : Sent(e)

\* An exchange whose flag was set before complete_http last looked at it has a thread
\* that will not send.
Silent ==
    \A e \in silenced :
        /\ e \in Http /\ e \in cancelled /\ got[e] = <<>>
        /\ thread[e] \in {"none", "begun", "handler", "returned", "threw", "erase", "over"}

BridgeInv == TypeOK /\ Places /\ AllSent /\ Silent /\ ThreadsHaveTheirBridge

-----------------------------------------------------------------------------

LEMMA InitInv == Init => BridgeInv
<1> SUFFICES ASSUME Init PROVE BridgeInv
    OBVIOUS
<1>1. TypeOK
  <2>1. parts \in [Exchanges -> 0..MaxParts] /\ sent \in [Exchanges -> Nat]
    BY BridgeAssumption DEF BridgeAssumption, Init
  <2>2. got \in [Exchanges -> Seq(Messages)]
    BY DEF Init
  <2> QED BY <2>1, <2>2 DEF Init, TypeOK, ThreadPc, StopPc
<1>2. Places /\ Silent /\ ThreadsHaveTheirBridge
    BY DEF Init, Places, Silent, ThreadsHaveTheirBridge, Active
<1>3. AllSent
    BY DEF Init, AllSent, Sent, Exchanges
<1> QED BY <1>1, <1>2, <1>3 DEF BridgeInv

-----------------------------------------------------------------------------
(* Types.                                                                  *)

LEMMA CancelTyped ==
    ASSUME TypeOK, NEW E \in SUBSET Exchanges, Cancel(E)
    PROVE  cancelled' \subseteq Exchanges /\ silenced' \subseteq Exchanges
BY DEF TypeOK, Cancel

LEMMA ReleaseTyped ==
    ASSUME TypeOK, NEW left \in SUBSET Exchanges, Release(left)
    PROVE  /\ cancelled' \subseteq Exchanges /\ silenced' \subseteq Exchanges
           /\ pending' \subseteq Exchanges /\ alive' \in BOOLEAN
BY CancelTyped DEF TypeOK, Release

\* A thread that sends has a message to send.
LEMMA SendsTyped ==
    ASSUME TypeOK, NEW e \in Exchanges, NEW m \in Messages, NEW w \in ThreadPc,
           NEW t \in ThreadPc, SendRpc(e, m, w, t), unsaid' \subseteq Exchanges
    PROVE  TypeOK'
<1> USE DEF SendRpc, Continues, ThreadGoto, bridgeVars, readVars
<1>1. got' \in [Exchanges -> Seq(Messages)]
  <2>1. Append(got[e], m) \in Seq(Messages)
    BY AppendProperties DEF TypeOK
  <2>2. got' = got \/ got' = [got EXCEPT ![e] = Append(@, m)]
    OBVIOUS
  <2> QED BY <2>1, <2>2 DEF TypeOK
<1>2. thread' \in [Exchanges -> ThreadPc]
  <2>1. \E pc \in ThreadPc : thread' = [thread EXCEPT ![e] = pc]
    BY DEF TypeOK
  <2> QED BY <2>1 DEF TypeOK
<1>3. crashed' \in BOOLEAN
    OBVIOUS
<1>4. UNCHANGED <<server, reader, at, pending, cancelled, parts, sent, accepted, held, alive,
                  rpc, running, stop, doomed, lost, silenced>>
    BY DEF stopVars
<1> QED BY <1>1, <1>2, <1>3, <1>4 DEF TypeOK

LEMMA ReaderTyped ==
    ASSUME TypeOK, Places, ReaderStep \/ ServerAccepts \/ PeerLost
    PROVE  TypeOK'
<1> USE DEF TypeOK, readVars, answerVars, bridgeVars, stopVars, GoesRound, Goto, ThreadPc,
            StopPc
<1>1. CASE UsesDeadBridge
    BY <1>1 DEF UsesDeadBridge
<1>2. CASE Registers
    BY <1>2 DEF Registers, Exchanges
<1>3. CASE RefusesWebSocket
    BY <1>3 DEF RefusesWebSocket
<1>4. CASE OpensWebSocket
  <2>1. got' \in [Exchanges -> Seq(Messages)]
    <3>1. <<"start">> \in Seq(Messages)
        BY DEF Messages
    <3>2. got' = got \/ got' = [got EXCEPT ![at] = <<"start">>]
        BY <1>4 DEF OpensWebSocket
    <3> QED BY <3>1, <3>2
  <2>2. /\ at' \in IF reader' \in {"reading", "ended"} THEN {NoOne} ELSE Exchanges
        /\ reader' \in {"reading", "start", "ended", "opening"}
    BY <1>4 DEF OpensWebSocket, Exchanges
  <2>3. crashed' \in BOOLEAN
    BY <1>4 DEF OpensWebSocket
  <2>4. UNCHANGED <<server, pending, cancelled, thread, parts, sent, unsaid, accepted,
                    bridgeVars, stopVars, silenced>>
    BY <1>4 DEF OpensWebSocket
  <2> QED BY <2>1, <2>2, <2>3, <2>4
<1>5. CASE OpeningExpires
    BY <1>5 DEF OpeningExpires
<1>6. CASE LooksUp
    BY <1>6 DEF LooksUp, Exchanges
<1>7. CASE Marks
  <2>1. at \in Exchanges
    BY <1>7 DEF Marks
  <2>2. cancelled' \subseteq Exchanges /\ silenced' \subseteq Exchanges
    BY <1>7, <2>1, CancelTyped DEF Marks
  <2> QED BY <1>7, <2>1, <2>2 DEF Marks
<1>8. CASE Erases
    BY <1>8 DEF Erases
<1>9. CASE Spawns
    BY <1>9 DEF Spawns
<1>10. CASE ReaderEnds
    BY <1>10 DEF ReaderEnds
<1>11. CASE ServerAccepts
    BY <1>11 DEF ServerAccepts
<1>12. CASE ReaderLoses
    BY <1>12 DEF ReaderLoses
<1>13. CASE PeerLost
    BY <1>13 DEF PeerLost
<1> QED BY <1>1, <1>2, <1>3, <1>4, <1>5, <1>6, <1>7, <1>8, <1>9, <1>10, <1>11, <1>12, <1>13
        DEF ReaderStep

LEMMA ReceivesTyped ==
    ASSUME TypeOK, NEW e \in Exchanges, NEW m \in {"start", "end", "cancel"}, Receives(e, m)
    PROVE  TypeOK'
<1>1. IF held THEN reader' = m /\ at' = e ELSE reader' = reader /\ at' = at
    BY DEF Receives, Goto, readVars
<1>2. server' \in [Exchanges -> {"idle", "start", "end", "cancel"}]
    BY DEF Receives, TypeOK
<1> QED BY <1>1, <1>2 DEF Receives, TypeOK, answerVars, bridgeVars, stopVars

LEMMA ThreadTyped ==
    ASSUME TypeOK, Places, AllSent, NEW e \in Exchanges, ThreadStep(e)
    PROVE  TypeOK'
<1> USE DEF readVars, answerVars, bridgeVars, stopVars, ThreadPc
<1>a. ASSUME Returns(e), UNCHANGED <<server, readVars, answerVars, accepted, stopVars,
                                     crashed>>
      PROVE  TypeOK'
  <2>1. /\ cancelled' \subseteq Exchanges /\ silenced' \subseteq Exchanges
        /\ pending' \subseteq Exchanges /\ alive' \in BOOLEAN
    BY <1>a, ReleaseTyped DEF Returns, TypeOK
  <2>2. thread' = [thread EXCEPT ![e] = "over"] /\ UNCHANGED held
    BY <1>a DEF Returns, ThreadGoto
  <2> QED BY <1>a, <2>1, <2>2 DEF TypeOK
<1>b. ASSUME NEW pc \in ThreadPc, Continues(e, pc),
             UNCHANGED <<server, readVars, answerVars, accepted, stopVars, crashed>>
      PROVE  TypeOK'
    BY <1>b DEF Continues, ThreadGoto, TypeOK
<1>1. CASE Begins(e)
    BY <1>1, <1>a, <1>b DEF Begins
<1>2. CASE HandlerReturns(e)
  <2>1. parts' \in [Exchanges -> 0..MaxParts]
    BY <1>2 DEF HandlerReturns, TypeOK
  <2> QED BY <1>2, <2>1 DEF HandlerReturns, Continues, ThreadGoto, TypeOK
<1>3. CASE HandlerThrows(e)
    BY <1>3, <1>b DEF HandlerThrows
<1>4. CASE Tests(e)
    BY <1>4, <1>a, <1>b DEF Tests
<1>5. CASE Sends(e)
  <2>1. e \in Http /\ parts[e] \in Nat /\ sent[e] \in Nat
    BY <1>5, BridgeAssumption DEF BridgeAssumption, Sends, Places, TypeOK
  <2>2. sent[e] < Len(Whole(parts[e]))
    BY <1>5, <2>1 DEF Sends, AllSent, Sent
  <2>3. Whole(parts[e])[sent[e] + 1] \in Messages
    BY <2>1, <2>2, PrefixGrows
  <2> QED BY <1>5, <2>3, SendsTyped DEF Sends, TypeOK
<1>6. CASE Answered(e)
  <2>1. sent' \in [Exchanges -> Nat]
    BY <1>6 DEF Answered, TypeOK
  <2>2. \E pc \in ThreadPc : thread' = [thread EXCEPT ![e] = pc]
    BY <1>6 DEF Answered, Continues, ThreadGoto
  <2> QED BY <1>6, <2>1, <2>2 DEF Answered, Continues, TypeOK
<1>7. CASE SendFails(e)
    BY <1>7, <1>b DEF SendFails
<1>8. CASE Catches(e)
    BY <1>8, <1>b DEF Catches
<1>9. CASE Fails(e)
    BY <1>9, SendsTyped DEF Fails, Messages, TypeOK
<1>10. CASE FailEnds(e)
    BY <1>10, <1>b DEF FailEnds
<1>11. CASE ErasesOwn(e)
  <2>1. pending \ {e} \in SUBSET Exchanges
    BY DEF TypeOK
  <2>2. /\ cancelled' \subseteq Exchanges /\ silenced' \subseteq Exchanges
        /\ pending' \subseteq Exchanges /\ alive' \in BOOLEAN
    BY <1>11, <2>1, ReleaseTyped DEF ErasesOwn
  <2>3. thread' = [thread EXCEPT ![e] = "over"] /\ UNCHANGED held
    BY <1>11 DEF ErasesOwn, ThreadGoto
  <2> QED BY <1>11, <2>2, <2>3 DEF ErasesOwn, TypeOK
<1> QED BY <1>1, <1>2, <1>3, <1>4, <1>5, <1>6, <1>7, <1>8, <1>9, <1>10, <1>11 DEF ThreadStep

LEMMA StopTyped ==
    ASSUME TypeOK, StopTakes \/ StopStep
    PROVE  TypeOK'
<1> USE DEF readVars, answerVars, bridgeVars, StopPc
<1>1. CASE StopTakes
    BY <1>1 DEF StopTakes, TypeOK
<1>2. CASE StopSwaps
    BY <1>2 DEF StopSwaps, TypeOK
<1>3. CASE StopCancels
  <2>1. cancelled' \subseteq Exchanges /\ silenced' \subseteq Exchanges
    BY <1>3, CancelTyped DEF StopCancels, TypeOK
  <2> QED BY <1>3, <2>1 DEF StopCancels, TypeOK
<1>4. CASE StopResets
  <2>1. /\ cancelled' \subseteq Exchanges /\ silenced' \subseteq Exchanges
        /\ pending' \subseteq Exchanges /\ alive' \in BOOLEAN
    BY <1>4, ReleaseTyped DEF StopResets, TypeOK
  <2> QED BY <1>4, <2>1 DEF StopResets, TypeOK
<1>5. CASE StopCloses
    BY <1>5 DEF StopCloses, TypeOK
<1>6. CASE StopJoins
    BY <1>6 DEF StopJoins, TypeOK
<1> QED BY <1>1, <1>2, <1>3, <1>4, <1>5, <1>6 DEF StopStep

-----------------------------------------------------------------------------
(* Which exchanges are pending and which have a thread.                    *)

\* The loss of the server moves only the threads that wait for an answer.
LEMMA LossMovesWaiting ==
    ASSUME TypeOK, ReaderLoses, NEW e \in Exchanges
    PROVE  /\ thread[e] = "waiting" => thread'[e] = "threw"
           /\ thread[e] = "failing" => thread'[e] = "erase"
           /\ thread[e] \notin {"waiting", "failing"} => thread'[e] = thread[e]
BY DEF ReaderLoses, TypeOK

\* The bridge that is destroyed empties pending_.
LEMMA ReleaseLeaves ==
    ASSUME NEW left, Release(left)
    PROVE  pending' \subseteq left
BY DEF Release

LEMMA PlacesKept ==
    ASSUME TypeOK, Places, [Next]_vars
    PROVE  Places'
<1> USE DEF Places, TypeOK, readVars, answerVars, bridgeVars, stopVars, Exchanges
<1>1. CASE ReaderStep
  <2> USE DEF GoesRound, Goto
  <2>1. CASE UsesDeadBridge
    BY <2>1 DEF UsesDeadBridge
  <2>2. CASE Registers
    BY <2>2 DEF Registers
  <2>3. CASE RefusesWebSocket
    BY <2>3 DEF RefusesWebSocket
  <2>4. CASE OpensWebSocket
    <3>1. reader' \in {"opening", "reading", "ended", "start"}
        BY <2>4 DEF OpensWebSocket
    <3> QED BY <2>4, <3>1 DEF OpensWebSocket
  <2>5. CASE OpeningExpires
    BY <2>5 DEF OpeningExpires
  <2>6. CASE LooksUp
    BY <2>6 DEF LooksUp
  <2>7. CASE Marks
    BY <2>7 DEF Marks
  <2>8. CASE Erases
    BY <2>8 DEF Erases
  <2>9. CASE Spawns
    BY <2>9 DEF Spawns
  <2>10. CASE ReaderEnds
    BY <2>10 DEF ReaderEnds
  <2>11. CASE ReaderLoses
    <3>1. \A e \in Exchanges : thread'[e] # "none" => thread[e] # "none"
        BY <2>11, LossMovesWaiting
    <3> QED BY <2>11, <3>1 DEF ReaderLoses
  <2> QED BY <1>1, <2>1, <2>2, <2>3, <2>4, <2>5, <2>6, <2>7, <2>8, <2>9, <2>10, <2>11
          DEF ReaderStep
<1>2. CASE ServerAccepts \/ PeerLost
    BY <1>2 DEF ServerAccepts, PeerLost
<1>3. ASSUME NEW e \in Exchanges, NEW m \in {"start", "end", "cancel"}, Receives(e, m)
      PROVE  Places'
  <2>1. CASE held
    <3>1. reader' = m /\ at' = e /\ server' = [server EXCEPT ![e] = m]
        BY <1>3, <2>1 DEF Receives, Goto
    <3>2. m = "end" => thread[e] = "none"
        BY <1>3 DEF Receives, Follows
    <3>3. m = "start" => thread[e] = "none"
        BY <1>3 DEF Receives, Follows
    <3> QED BY <1>3, <3>1, <3>2, <3>3 DEF Receives
  <2>2. CASE ~held
    <3>1. UNCHANGED <<reader, at>> /\ reader = "reading"
        BY <1>3, <2>2 DEF Receives, Listens
    <3>2. m = "start" => thread[e] = "none"
        BY <1>3 DEF Receives, Follows
    <3> QED BY <1>3, <3>1, <3>2 DEF Receives
  <2> QED BY <2>1, <2>2
<1>4. ASSUME NEW e \in Exchanges, ThreadStep(e)
      PROVE  Places'
  <2>1. thread[e] # "none" /\ UNCHANGED <<server, reader, at, doomed>>
    BY <1>4 DEF ThreadStep, Begins, HandlerReturns, HandlerThrows, Tests, Sends, SendRpc,
                Answered, SendFails, Catches, Fails, FailEnds, ErasesOwn
  <2>2. \E pc \in ThreadPc : thread' = [thread EXCEPT ![e] = pc]
    BY <1>4 DEF ThreadStep, Begins, HandlerReturns, HandlerThrows, Tests, Sends, SendRpc,
                Answered, SendFails, Catches, Fails, FailEnds, ErasesOwn, Returns, Continues,
                ThreadGoto, ThreadPc
  <2>3. pending' \subseteq pending
    BY <1>4, ReleaseLeaves
       DEF ThreadStep, Begins, HandlerReturns, HandlerThrows, Tests, Sends, SendRpc, Answered,
           SendFails, Catches, Fails, FailEnds, ErasesOwn, Returns, Continues
  <2> QED BY <2>1, <2>2, <2>3
<1>5. CASE StopTakes \/ StopStep
  <2>1. UNCHANGED <<server, reader, at, thread>>
    BY <1>5 DEF StopTakes, StopStep, StopSwaps, StopCancels, StopResets, StopCloses, StopJoins
  <2>2. pending' \subseteq pending /\ doomed' \subseteq doomed \cup pending
    BY <1>5, ReleaseLeaves
       DEF StopTakes, StopStep, StopSwaps, StopCancels, StopResets, StopCloses, StopJoins
  <2> QED BY <2>1, <2>2
<1>6. CASE UNCHANGED vars
    BY <1>6 DEF vars
<1> QED BY <1>1, <1>2, <1>3, <1>4, <1>5, <1>6 DEF Next, Steps

-----------------------------------------------------------------------------
(* The bridge lives while a thread does.                                   *)

LEMMA ReleaseKeepsBridge ==
    ASSUME NEW left, Release(left), alive \/ ~\E e \in Exchanges : Active(e)'
    PROVE  ThreadsHaveTheirBridge'
BY DEF Release, ThreadsHaveTheirBridge, Active

LEMMA BridgeKept ==
    ASSUME TypeOK, ThreadsHaveTheirBridge, [Next]_vars
    PROVE  ThreadsHaveTheirBridge'
<1> USE DEF bridgeVars
<1>1. CASE ReaderStep
  <2>1. CASE Spawns
    BY <2>1 DEF Spawns, ThreadsHaveTheirBridge
  <2>2. CASE ~Spawns /\ ~ReaderLoses
    <3>1. UNCHANGED <<thread, alive>>
        BY <1>1, <2>2
           DEF ReaderStep, UsesDeadBridge, Registers, RefusesWebSocket, OpensWebSocket,
               OpeningExpires, LooksUp, Marks, Erases, ReaderEnds
    <3> QED BY <3>1 DEF ThreadsHaveTheirBridge, Active
  <2>3. CASE ReaderLoses
    <3>1. \A e \in Exchanges : thread'[e] \notin {"none", "over"} =>
                                  thread[e] \notin {"none", "over"}
        BY <2>3, LossMovesWaiting
    <3>2. UNCHANGED alive
        BY <2>3 DEF ReaderLoses
    <3> QED BY <3>1, <3>2 DEF ThreadsHaveTheirBridge, Active
  <2> QED BY <2>1, <2>2, <2>3
<1>2. CASE ServerAccepts \/ PeerLost
    BY <1>2 DEF ServerAccepts, PeerLost, ThreadsHaveTheirBridge, Active
<1>3. ASSUME NEW e \in Exchanges, NEW m \in {"start", "end", "cancel"}, Receives(e, m)
      PROVE  ThreadsHaveTheirBridge'
    BY <1>3 DEF Receives, ThreadsHaveTheirBridge, Active
<1>4. ASSUME NEW e \in Exchanges, ThreadStep(e)
      PROVE  ThreadsHaveTheirBridge'
  <2>1. alive
    BY <1>4 DEF ThreadStep, Begins, HandlerReturns, HandlerThrows, Tests, Sends, Answered,
                SendFails, Catches, Fails, FailEnds, ErasesOwn, ThreadsHaveTheirBridge, Active
  <2>2. (\E left : Release(left)) \/ UNCHANGED alive
    BY <1>4 DEF ThreadStep, Begins, HandlerReturns, HandlerThrows, Tests, Sends, SendRpc,
                Answered, SendFails, Catches, Fails, FailEnds, ErasesOwn, Returns, Continues
  <2> QED BY <2>1, <2>2, ReleaseKeepsBridge DEF ThreadsHaveTheirBridge
<1>5. CASE StopTakes \/ StopStep
  <2>1. UNCHANGED thread
    BY <1>5 DEF StopTakes, StopStep, StopSwaps, StopCancels, StopResets, StopCloses, StopJoins
  <2>2. Release(pending) \/ UNCHANGED alive
    BY <1>5 DEF StopTakes, StopStep, StopSwaps, StopCancels, StopResets, StopCloses, StopJoins
  <2>3. alive \/ ~\E e \in Exchanges : Active(e)'
    BY <2>1 DEF ThreadsHaveTheirBridge, Active
  <2> QED BY <2>2, <2>3, ReleaseKeepsBridge DEF ThreadsHaveTheirBridge
<1>6. CASE UNCHANGED vars
    BY <1>6 DEF vars, ThreadsHaveTheirBridge, Active
<1> QED BY <1>1, <1>2, <1>3, <1>4, <1>5, <1>6 DEF Next, Steps

-----------------------------------------------------------------------------
(* Cancelled exchanges.                                                    *)

QuietPc == {"none", "begun", "handler", "returned", "threw", "erase", "over"}

\* Whoever cancels, what is silenced is pending, has no message yet, and a thread that
\* has not come to sending.
LEMMA CancelSilences ==
    ASSUME Silent, NEW E \in SUBSET Http, Cancel(E)
    PROVE  \A e \in silenced' : e \in Http /\ e \in cancelled' /\ got[e] = <<>>
                               /\ thread[e] \in QuietPc
BY DEF Silent, Cancel, Unanswered, QuietPc

LEMMA ReleaseSilences ==
    ASSUME Silent, NEW left \in SUBSET Http, Release(left)
    PROVE  \A e \in silenced' : e \in Http /\ e \in cancelled' /\ got[e] = <<>>
                               /\ thread[e] \in QuietPc
<1>1. CASE UNCHANGED <<alive, cancelled, silenced>>
    BY <1>1 DEF Silent, QuietPc
<1>2. CASE Cancel(left)
    BY <1>2, CancelSilences
<1> QED BY <1>1, <1>2 DEF Release

LEMMA SilentKept ==
    ASSUME TypeOK, Places, Silent, [Next]_vars
    PROVE  Silent'
<1> USE DEF readVars, answerVars, bridgeVars, stopVars
<1>1. CASE ReaderStep
  <2>1. CASE Marks
    <3>1. {at} \in SUBSET Http /\ Cancel({at}) /\ UNCHANGED <<got, thread>>
        BY <2>1 DEF Marks, Places
    <3> QED BY <3>1, CancelSilences DEF Silent, QuietPc
  <2>2. CASE Spawns
    BY <2>2 DEF Spawns, Silent, TypeOK
  <2>3. CASE OpensWebSocket
    <3>1. got' = got \/ got' = [got EXCEPT ![at] = <<"start">>]
        BY <2>3 DEF OpensWebSocket
    <3>2. at \notin Http /\ UNCHANGED <<cancelled, silenced, thread>>
        BY <2>3, BridgeAssumption DEF OpensWebSocket, BridgeAssumption
    <3> QED BY <3>1, <3>2 DEF Silent, TypeOK
  <2>4. CASE ReaderLoses
    <3>1. UNCHANGED <<cancelled, silenced, got>>
        BY <2>4 DEF ReaderLoses
    <3>2. \A e \in silenced : e \in Exchanges /\ thread'[e] = thread[e]
        BY <2>4, LossMovesWaiting DEF Silent, TypeOK
    <3> QED BY <3>1, <3>2 DEF Silent
  <2>5. CASE ~Marks /\ ~Spawns /\ ~OpensWebSocket /\ ~ReaderLoses
    <3>1. UNCHANGED <<cancelled, silenced, thread, got>>
        BY <1>1, <2>5
           DEF ReaderStep, UsesDeadBridge, Registers, RefusesWebSocket, OpeningExpires,
               LooksUp, Erases, ReaderEnds
    <3> QED BY <3>1 DEF Silent
  <2> QED BY <2>1, <2>2, <2>3, <2>4, <2>5
<1>2. CASE ServerAccepts \/ PeerLost
    BY <1>2 DEF ServerAccepts, PeerLost, Silent
<1>3. ASSUME NEW e \in Exchanges, NEW m \in {"start", "end", "cancel"}, Receives(e, m)
      PROVE  Silent'
    BY <1>3 DEF Receives, Silent
<1>4. ASSUME NEW e \in Exchanges, ThreadStep(e)
      PROVE  Silent'
  <2>1. CASE thread'[e] = "over"
    <3>1. \E left \in SUBSET Http : Release(left)
        BY <1>4, <2>1
           DEF ThreadStep, Begins, HandlerReturns, HandlerThrows, Tests, Sends, SendRpc,
               Answered, SendFails, Catches, Fails, FailEnds, ErasesOwn, Returns, Continues,
               ThreadGoto, TypeOK, Places
    <3>2. UNCHANGED got /\ thread' = [thread EXCEPT ![e] = "over"]
        BY <1>4, <2>1
           DEF ThreadStep, Begins, HandlerReturns, HandlerThrows, Tests, Sends, SendRpc,
               Answered, SendFails, Catches, Fails, FailEnds, ErasesOwn, Returns, Continues,
               ThreadGoto, TypeOK, Places
    <3>3. \A f \in silenced' : f \in Http /\ f \in cancelled' /\ got[f] = <<>>
                               /\ thread[f] \in QuietPc
        BY <3>1, ReleaseSilences
    <3>4. \A f \in silenced' : thread'[f] = thread[f] \/ thread'[f] = "over"
        BY <3>2, <3>3 DEF TypeOK, Exchanges
    <3> QED BY <3>2, <3>3, <3>4 DEF Silent, QuietPc
  <2>2. CASE thread'[e] # "over"
    <3>1. \E pc \in ThreadPc : Continues(e, pc)
        BY <1>4, <2>2
           DEF ThreadStep, Begins, HandlerReturns, HandlerThrows, Tests, Sends, SendRpc,
               Answered, SendFails, Catches, Fails, FailEnds, ErasesOwn, Returns, ThreadGoto,
               TypeOK, ThreadPc
    <3>2. UNCHANGED <<cancelled, silenced>>
        BY <3>1 DEF Continues
    <3>3. CASE e \in silenced
        <4>1. thread[e] \in QuietPc /\ e \in cancelled
            BY <3>3 DEF Silent, QuietPc
        <4>2. thread'[e] \in QuietPc /\ UNCHANGED got
            BY <1>4, <2>2, <4>1
               DEF ThreadStep, Begins, HandlerReturns, HandlerThrows, Tests, Sends, Answered,
                   SendFails, Catches, Fails, FailEnds, ErasesOwn, Returns, Continues,
                   ThreadGoto, TypeOK, QuietPc
        <4> QED BY <3>1, <3>2, <4>2 DEF Silent, QuietPc, TypeOK, Continues, ThreadGoto
    <3>4. CASE e \notin silenced
        <4>1. \A f \in silenced : got'[f] = got[f] /\ thread'[f] = thread[f]
          <5>1. \A f \in silenced : f \in Exchanges /\ f # e
            BY <3>4 DEF TypeOK
          <5>2. \A f \in silenced : thread'[f] = thread[f]
            BY <3>1, <5>1 DEF Continues, ThreadGoto, TypeOK
          <5>3. UNCHANGED got \/ \E g : got' = [got EXCEPT ![e] = g]
            BY <1>4
               DEF ThreadStep, Begins, HandlerReturns, HandlerThrows, Tests, Sends, SendRpc,
                   Answered, SendFails, Catches, Fails, FailEnds, ErasesOwn
          <5> QED BY <5>1, <5>2, <5>3 DEF TypeOK
        <4> QED BY <3>2, <4>1 DEF Silent
    <3> QED BY <3>3, <3>4
  <2> QED BY <2>1, <2>2
<1>5. CASE StopTakes \/ StopStep
  <2>1. UNCHANGED <<thread, got>>
    BY <1>5 DEF StopTakes, StopStep, StopSwaps, StopCancels, StopResets, StopCloses, StopJoins
  <2>2. \/ UNCHANGED <<cancelled, silenced>>
        \/ Cancel(doomed)
        \/ Release(pending)
    BY <1>5 DEF StopTakes, StopStep, StopSwaps, StopCancels, StopResets, StopCloses, StopJoins
  <2> QED BY <2>1, <2>2, CancelSilences, ReleaseSilences DEF Silent, QuietPc, Places
<1>6. CASE UNCHANGED vars
    BY <1>6 DEF vars, Silent
<1> QED BY <1>1, <1>2, <1>3, <1>4, <1>5, <1>6 DEF Next, Steps

-----------------------------------------------------------------------------
(* What has been sent of each response.                                    *)

\* A step that does not touch an exchange leaves its response as it is.
LEMMA SentUntouched ==
    ASSUME NEW f \in Http, Sent(f), thread'[f] = thread[f], parts'[f] = parts[f],
           sent'[f] = sent[f], got'[f] = got[f]
    PROVE  Sent(f)'
BY DEF Sent

\* What a thread that waited has sent, when its request has failed.
LEMMA SentByFailure ==
    ASSUME NEW e \in Http, Sent(e), parts[e] \in Nat, sent[e] \in Nat,
           thread[e] = "waiting", thread'[e] = "threw",
           parts'[e] = parts[e], sent'[e] = sent[e], got'[e] = got[e]
    PROVE  Sent(e)'
<1>1. /\ sent[e] < Len(Whole(parts[e]))
      /\ got[e] \in {Prefix(parts[e], sent[e]), Prefix(parts[e], sent[e] + 1)}
    BY DEF Sent
<1>2. Len(Whole(parts[e])) \in Nat
  <2>1. Len(Whole(parts[e])) = Length(parts[e]) /\ Length(parts[e]) \in Nat
    BY WholeTyped
  <2> QED BY <2>1
<1>3. sent[e] \in 0..Len(Whole(parts[e])) /\ sent[e] + 1 \in 0..Len(Whole(parts[e]))
    BY <1>1, <1>2
<1> QED BY <1>1, <1>3 DEF Sent

\* The steps of complete_http, for its own exchange.
LEMMA SentByThread ==
    ASSUME TypeOK, Places, NEW e \in Http, Sent(e), ThreadStep(e)
    PROVE  Sent(e)'
<1> USE DEF answerVars, ThreadGoto
<1>1. /\ e \in Exchanges /\ parts[e] \in Nat /\ sent[e] \in Nat
      /\ thread \in [Exchanges -> ThreadPc] /\ parts \in [Exchanges -> 0..MaxParts]
      /\ sent \in [Exchanges -> Nat] /\ got \in [Exchanges -> Seq(Messages)]
    BY BridgeAssumption DEF TypeOK, Exchanges, BridgeAssumption
<1>2. /\ Len(Whole(parts[e])) \in Nat \ {0, 1}
      /\ Prefix(parts[e], 0) = <<>>
      /\ 0 \in 0..Len(Whole(parts[e]))
  <2>1. parts[e] \in Nat
    BY <1>1
  <2>2. /\ Len(Whole(parts[e])) = Length(parts[e])
        /\ Length(parts[e]) \in Nat \ {0, 1}
    BY <2>1, WholeTyped
  <2>3. Prefix(parts[e], 0) = <<>>
    BY <2>1, PrefixNone
  <2>4. \A n \in Nat : 0 \in 0..n
    OBVIOUS
  <2> QED BY <2>2, <2>3, <2>4
<1>3. ASSUME thread' = [thread EXCEPT ![e] = "over"], UNCHANGED answerVars,
             thread[e] \in {"begun", "returned", "erase"}
      PROVE  Sent(e)'
    BY <1>1, <1>2, <1>3 DEF Sent
<1>4. CASE Begins(e)
  <2>1. CASE e \in cancelled
    BY <1>3, <1>4, <2>1 DEF Begins, Returns
  <2>2. CASE e \notin cancelled
    BY <1>1, <1>4, <2>2 DEF Begins, Continues, Sent
  <2> QED BY <2>1, <2>2
<1>5. CASE HandlerReturns(e)
    BY <1>1, <1>5 DEF HandlerReturns, Continues, Sent
<1>6. CASE HandlerThrows(e)
    BY <1>1, <1>2, <1>6 DEF HandlerThrows, Continues, Sent
<1>7. CASE Tests(e)
  <2>1. CASE e \in cancelled
    BY <1>3, <1>7, <2>1 DEF Tests, Returns
  <2>2. CASE e \notin cancelled
    BY <1>1, <1>2, <1>7, <2>2 DEF Tests, Continues, Sent
  <2> QED BY <2>1, <2>2
<1>8. CASE Sends(e)
  <2>1. sent[e] < Len(Whole(parts[e])) /\ got[e] = Prefix(parts[e], sent[e])
    BY <1>8 DEF Sends, Sent
  <2>2. Append(got[e], Whole(parts[e])[sent[e] + 1]) = Prefix(parts[e], sent[e] + 1)
    BY <1>1, <2>1, PrefixGrows
  <2>3. UNCHANGED <<parts, sent>> /\ thread[e] = "sending"
    BY <1>8 DEF Sends, SendRpc
  <2>4. CASE /\ got' = IF lost THEN got
                       ELSE [got EXCEPT ![e] = Append(@, Whole(parts[e])[sent[e] + 1])]
             /\ Continues(e, "waiting")
    <3>1. /\ got'[e] \in {Prefix(parts[e], sent[e]), Prefix(parts[e], sent[e] + 1)}
          /\ thread'[e] = "waiting"
        BY <1>1, <2>1, <2>2, <2>4 DEF Continues
    <3> QED BY <2>1, <2>3, <3>1 DEF Sent
  <2>5. CASE got' = got /\ Continues(e, "threw")
    <3>1. got'[e] = got[e] /\ thread'[e] = "threw"
        BY <1>1, <2>5 DEF Continues
    <3>2. sent[e] \in 0..Len(Whole(parts[e]))
        BY <1>1, <1>2, <2>1
    <3> QED BY <2>1, <2>3, <3>1, <3>2 DEF Sent
  <2>6. CASE got' = got /\ Continues(e, thread[e])
    <3>1. got'[e] = got[e] /\ thread'[e] = "sending"
        BY <1>1, <2>3, <2>6 DEF Continues
    <3> QED BY <2>1, <2>3, <3>1 DEF Sent
  <2> QED BY <1>8, <2>4, <2>5, <2>6 DEF Sends, SendRpc
<1>9. CASE Answered(e)
  <2>1. sent[e] < Len(Whole(parts[e])) /\ got[e] = Prefix(parts[e], sent[e] + 1)
    <3>1. /\ sent[e] < Len(Whole(parts[e])) /\ Len(got[e]) = sent[e] + 1
          /\ got[e] \in {Prefix(parts[e], sent[e]), Prefix(parts[e], sent[e] + 1)}
        BY <1>9 DEF Answered, Sent
    <3>2. sent[e] \in 0..Len(Whole(parts[e])) /\ sent[e] # sent[e] + 1
        BY <1>1, <1>2, <3>1
    <3>3. Len(Prefix(parts[e], sent[e])) = sent[e]
        BY <1>1, <3>2, PrefixLength
    <3> QED BY <3>1, <3>2, <3>3
  <2>2. sent'[e] = sent[e] + 1 /\ got' = got /\ parts' = parts
    BY <1>1, <1>9 DEF Answered
  <2>3. CASE sent[e] + 1 = Len(Whole(parts[e]))
    <3>1. thread'[e] = "erase"
        BY <1>1, <1>9, <2>3 DEF Answered, Continues
    <3>2. sent[e] + 1 \in 0..Len(Whole(parts[e]))
        BY <1>1, <2>3
    <3> QED BY <2>1, <2>2, <3>1, <3>2 DEF Sent
  <2>4. CASE sent[e] + 1 # Len(Whole(parts[e]))
    <3>1. thread'[e] = "sending"
        BY <1>1, <1>9, <2>4 DEF Answered, Continues
    <3>2. sent[e] + 1 < Len(Whole(parts[e]))
        BY <1>1, <1>2, <2>1, <2>4
    <3> QED BY <2>1, <2>2, <3>1, <3>2 DEF Sent
  <2> QED BY <2>3, <2>4
<1>10. CASE SendFails(e)
  <2>1. thread'[e] = "threw" /\ thread[e] = "waiting" /\ UNCHANGED answerVars
    BY <1>1, <1>10 DEF SendFails, Continues
  <2> QED BY <1>1, <2>1, SentByFailure
<1>11. CASE Catches(e)
  <2>1. PICK k \in 0..Len(Whole(parts[e])) : got[e] = Prefix(parts[e], k)
    BY <1>11 DEF Catches, Sent
  <2>2. thread'[e] \in {"erase", "fail"} /\ UNCHANGED answerVars
    BY <1>1, <1>11 DEF Catches, Continues
  <2> QED BY <2>1, <2>2 DEF Sent
<1>12. CASE Fails(e)
  <2>1. PICK k \in 0..Len(Whole(parts[e])) : got[e] = Prefix(parts[e], k)
    BY <1>12 DEF Fails, Sent
  <2>2. UNCHANGED <<parts, sent>> /\ thread[e] = "fail"
    BY <1>12 DEF Fails, SendRpc
  <2>3. CASE got' = [got EXCEPT ![e] = Append(@, "error")] /\ Continues(e, "failing")
    <3>1. got'[e] = Append(got[e], "error") /\ thread'[e] = "failing"
        BY <1>1, <2>3 DEF Continues
    <3>2. Append(got[e], "error") = got[e] \o <<"error">>
      <4>1. "error" \in Messages
        BY DEF Messages
      <4> QED BY <1>1, <4>1, AppendIsConcat
    <3> QED BY <2>1, <2>2, <3>1, <3>2 DEF Sent
  <2>4. CASE got' = got /\ \E pc \in {"failing", "erase", "fail"} : Continues(e, pc)
    <3>1. got'[e] = got[e] /\ thread'[e] \in {"failing", "erase", "fail"}
        BY <1>1, <2>4 DEF Continues
    <3> QED BY <2>1, <2>2, <3>1 DEF Sent
  <2>5. \/ got' = [got EXCEPT ![e] = Append(@, "error")] /\ Continues(e, "failing")
        \/ got' = got /\ \E pc \in {"failing", "erase", "fail"} : Continues(e, pc)
    BY <1>12, <2>2 DEF Fails, SendRpc
  <2> QED BY <2>3, <2>4, <2>5
<1>13. CASE FailEnds(e)
    BY <1>1, <1>13 DEF FailEnds, Continues, Sent
<1>14. CASE ErasesOwn(e)
    BY <1>3, <1>14 DEF ErasesOwn
<1> QED BY <1>4, <1>5, <1>6, <1>7, <1>8, <1>9, <1>10, <1>11, <1>12, <1>13, <1>14
        DEF ThreadStep

LEMMA AllSentKept ==
    ASSUME TypeOK, Places, AllSent, [Next]_vars
    PROVE  AllSent'
<1> USE DEF answerVars
<1> SUFFICES ASSUME NEW f \in Http PROVE Sent(f)'
    BY DEF AllSent
<1>0. Sent(f) /\ f \in Exchanges
    BY DEF AllSent, Exchanges
<1>1. CASE ReaderStep
  <2>1. CASE Spawns
    <3>1. /\ thread' = [thread EXCEPT ![at] = "begun"] /\ thread[at] = "none"
          /\ UNCHANGED answerVars
        BY <2>1 DEF Spawns, Places
    <3>2. CASE f = at
        BY <1>0, <3>1, <3>2 DEF Sent, TypeOK
    <3>3. CASE f # at
        BY <1>0, <3>1, <3>3, SentUntouched DEF TypeOK
    <3> QED BY <3>2, <3>3
  <2>2. CASE OpensWebSocket
    <3>1. f # at
        BY <2>2, BridgeAssumption DEF OpensWebSocket, BridgeAssumption
    <3>2. got' = got \/ got' = [got EXCEPT ![at] = <<"start">>]
        BY <2>2 DEF OpensWebSocket
    <3>3. got'[f] = got[f]
        BY <1>0, <3>1, <3>2 DEF TypeOK
    <3> QED BY <1>0, <2>2, <3>3, SentUntouched DEF OpensWebSocket
  <2>3. CASE ReaderLoses
    <3>1. UNCHANGED <<parts, sent, got>>
        BY <2>3 DEF ReaderLoses
    <3>2. CASE thread[f] = "waiting"
      <4>1. thread'[f] = "threw" /\ parts[f] \in Nat /\ sent[f] \in Nat
        BY <1>0, <2>3, <3>2, LossMovesWaiting, BridgeAssumption DEF TypeOK, BridgeAssumption
      <4> QED BY <1>0, <3>1, <3>2, <4>1, SentByFailure
    <3>3. CASE thread[f] = "failing"
      <4>1. thread'[f] = "erase"
        BY <1>0, <2>3, <3>3, LossMovesWaiting
      <4> QED BY <1>0, <3>1, <3>3, <4>1 DEF Sent
    <3>4. CASE thread[f] \notin {"waiting", "failing"}
      <4>1. thread'[f] = thread[f]
        BY <1>0, <2>3, <3>4, LossMovesWaiting
      <4> QED BY <1>0, <3>1, <4>1, SentUntouched
    <3> QED BY <3>2, <3>3, <3>4
  <2>4. CASE ~Spawns /\ ~OpensWebSocket /\ ~ReaderLoses
    <3>1. UNCHANGED <<thread, parts, sent, got>>
        BY <1>1, <2>4
           DEF ReaderStep, UsesDeadBridge, Registers, RefusesWebSocket, OpeningExpires,
               LooksUp, Marks, Erases, ReaderEnds
    <3> QED BY <1>0, <3>1, SentUntouched
  <2> QED BY <2>1, <2>2, <2>3, <2>4
<1>2. CASE ServerAccepts \/ PeerLost
    BY <1>0, <1>2, SentUntouched DEF ServerAccepts, PeerLost
<1>3. ASSUME NEW e \in Exchanges, NEW m \in {"start", "end", "cancel"}, Receives(e, m)
      PROVE  Sent(f)'
    BY <1>0, <1>3, SentUntouched DEF Receives
<1>4. ASSUME NEW e \in Exchanges, ThreadStep(e)
      PROVE  Sent(f)'
  <2>1. CASE e = f
    BY <1>0, <1>4, <2>1, SentByThread
  <2>2. CASE e # f
    <3>1. /\ \E x : thread' = [thread EXCEPT ![e] = x]
          /\ parts' = parts \/ \E x : parts' = [parts EXCEPT ![e] = x]
          /\ sent' = sent \/ \E x : sent' = [sent EXCEPT ![e] = x]
          /\ got' = got \/ \E x : got' = [got EXCEPT ![e] = x]
        BY <1>4 DEF ThreadStep, Begins, HandlerReturns, HandlerThrows, Tests, Sends, SendRpc,
                    Answered, SendFails, Catches, Fails, FailEnds, ErasesOwn, Returns,
                    Continues, ThreadGoto
    <3>2. /\ thread'[f] = thread[f] /\ parts'[f] = parts[f]
          /\ sent'[f] = sent[f] /\ got'[f] = got[f]
        BY <1>0, <2>2, <3>1 DEF TypeOK
    <3> QED BY <1>0, <3>2, SentUntouched
  <2> QED BY <2>1, <2>2
<1>5. CASE StopTakes \/ StopStep
  <2>1. UNCHANGED <<thread, parts, sent, got>>
    BY <1>5 DEF StopTakes, StopStep, StopSwaps, StopCancels, StopResets, StopCloses, StopJoins
  <2> QED BY <1>0, <2>1, SentUntouched
<1>6. CASE UNCHANGED vars
    BY <1>0, <1>6, SentUntouched DEF vars
<1> QED BY <1>1, <1>2, <1>3, <1>4, <1>5, <1>6 DEF Next, Steps

-----------------------------------------------------------------------------
(* The theorems.                                                           *)

LEMMA TypeKept ==
    ASSUME TypeOK, Places, AllSent, [Next]_vars
    PROVE  TypeOK'
<1>1. CASE UNCHANGED vars
    BY <1>1 DEF vars, readVars, answerVars, bridgeVars, stopVars, TypeOK
<1>2. CASE Steps
    BY <1>2, ReaderTyped, ReceivesTyped, ThreadTyped, StopTyped DEF Steps
<1> QED BY <1>1, <1>2 DEF Next

LEMMA Invariant == Spec => []BridgeInv
<1>1. BridgeInv /\ [Next]_vars => BridgeInv'
    BY TypeKept, PlacesKept, AllSentKept, SilentKept, BridgeKept DEF BridgeInv
<1> QED BY <1>1, InitInv, PTL DEF Spec

\* The type invariant, which contains that no message is taken from beyond a response.
THEOREM BridgeTyped == Spec => []TypeOK
<1>1. BridgeInv => TypeOK
    BY DEF BridgeInv
<1> QED BY <1>1, Invariant, PTL

\* Whatever fails or is cancelled, the server gets the beginning of a response, in order,
\* and at most an error after it.
THEOREM InOrder == Spec => []ResponsesAreInOrder
<1>1. BridgeInv => ResponsesAreInOrder
  <2> SUFFICES ASSUME BridgeInv, NEW e \in Http
               PROVE  \E k \in 0..Len(Whole(parts[e])) :
                          got[e] \in {Prefix(parts[e], k), Prefix(parts[e], k) \o <<"error">>}
    BY DEF ResponsesAreInOrder, Prefix
  <2>1. /\ Sent(e) /\ thread[e] \in ThreadPc /\ parts[e] \in Nat /\ sent[e] \in Nat
    BY BridgeAssumption DEF BridgeInv, AllSent, TypeOK, Exchanges, BridgeAssumption
  <2>2. Len(Whole(parts[e])) \in Nat /\ Prefix(parts[e], 0) = <<>>
    BY <2>1, WholeTyped, PrefixNone
  <2>3. CASE thread[e] \in {"none", "begun", "handler", "returned"}
    BY <2>1, <2>2, <2>3 DEF Sent
  <2>4. CASE thread[e] \in {"sending", "waiting"}
    <3>1. sent[e] \in 0..Len(Whole(parts[e])) /\ sent[e] + 1 \in 0..Len(Whole(parts[e]))
        BY <2>1, <2>2, <2>4 DEF Sent
    <3> QED BY <2>1, <2>4, <3>1 DEF Sent
  <2>5. CASE thread[e] \in {"threw", "fail", "failing", "erase", "over"}
    BY <2>1, <2>5 DEF Sent
  <2> QED BY <2>1, <2>3, <2>4, <2>5 DEF ThreadPc
<1> QED BY <1>1, Invariant, PTL

\* An exchange whose flag is set while complete_http has still to look at it is never
\* answered.
THEOREM CancelledStaysSilent == Spec => []CancelledIsSilent
<1>1. BridgeInv => CancelledIsSilent
    BY DEF BridgeInv, Silent, CancelledIsSilent
<1> QED BY <1>1, Invariant, PTL

\* No detached thread runs on a bridge that stop() has destroyed.
THEOREM BridgeOutlivesThreads == Spec => []ThreadsHaveTheirBridge
<1>1. BridgeInv => ThreadsHaveTheirBridge
    BY DEF BridgeInv
<1> QED BY <1>1, Invariant, PTL

-----------------------------------------------------------------------------
(* The bridge implements BridgePromise.                                    *)

\* What is behind the first k messages of a response lets the next one follow.
LEMMA NextMayFollow ==
    ASSUME NEW n \in Nat, NEW k \in Nat, k < Len(Whole(n))
    PROVE  /\ Whole(n)[k + 1] \in Messages
           /\ Promise!May(Prefix(n, k), Whole(n)[k + 1])
<1>1. /\ Whole(n) \in Seq(Messages) /\ Len(Whole(n)) = Length(n)
      /\ Length(n) \in Nat \ {0, 1}
    BY WholeTyped
<1>2. /\ k \in 0..Len(Whole(n)) /\ k + 1 \in 1..Len(Whole(n))
      /\ \A i \in 1..Length(n) :
            Whole(n)[i] = CASE i = 1 -> "start"
                            [] i > 1 /\ i >= n + 1 -> "end"
                            [] OTHER -> "chunk"
    BY <1>1 DEF Whole, Length
<1>3. Whole(n)[k + 1] \in Messages
    BY <1>1, <1>2, ElementOfSeq
<1>4. CASE k = 0
  <2>1. Prefix(n, k) = <<>> /\ Whole(n)[k + 1] = "start"
    BY <1>1, <1>2, <1>4, PrefixNone
  <2> QED BY <1>3, <2>1 DEF Promise!May
<1>5. CASE k # 0
  <2>1. Whole(n)[k + 1] \in {"chunk", "end"}
    BY <1>1, <1>2, <1>5
  <2>2. Whole(n)[k] \in {"start", "chunk"}
    BY <1>1, <1>2, <1>5 DEF Length
  <2>3. Len(Prefix(n, k)) = k /\ Prefix(n, k)[k] = Whole(n)[k]
    <3>1. k \in 1..k /\ \A i \in 1..k : Whole(n)[i] \in Messages
        BY <1>1, <1>2, <1>5, ElementOfSeq
    <3>2. /\ Len(Prefix(n, k)) = IF 1 <= k THEN k - 1 + 1 ELSE 0
          /\ \A i \in 1..(k - 1 + 1) : Prefix(n, k)[i] = Whole(n)[1 + i - 1]
        BY <1>1, <1>2, <1>5, <3>1, SubSeqProperties DEF Prefix
    <3> QED BY <1>5, <3>1, <3>2
  <2>4. Prefix(n, k) # <<>>
    BY <1>5, <2>3
  <2> QED BY <1>3, <2>1, <2>2, <2>3, <2>4 DEF Promise!May
<1> QED BY <1>3, <1>4, <1>5

\* No message of a response is an error, so an error may follow any of them.
LEMMA ErrorMayFollow ==
    ASSUME NEW n \in Nat, NEW k \in 0..Len(Whole(n))
    PROVE  Promise!May(Prefix(n, k), "error")
<1>1. Whole(n) \in Seq(Messages) /\ Len(Whole(n)) = Length(n) /\ Length(n) \in Nat
    BY WholeTyped
<1>2. \A i \in 1..Len(Whole(n)) : Whole(n)[i] # "error"
    BY <1>1 DEF Whole, Length
<1>3. CASE k = 0
    BY <1>3, PrefixNone DEF Promise!May
<1>4. CASE k # 0
  <2>1. k \in 1..k /\ \A i \in 1..k : Whole(n)[i] \in Messages
    BY <1>1, <1>4, ElementOfSeq
  <2>2. Len(Prefix(n, k)) = k /\ Prefix(n, k)[k] = Whole(n)[k]
    <3>1. /\ Len(Prefix(n, k)) = IF 1 <= k THEN k - 1 + 1 ELSE 0
          /\ \A i \in 1..(k - 1 + 1) : Prefix(n, k)[i] = Whole(n)[1 + i - 1]
        BY <1>1, <1>4, <2>1, SubSeqProperties DEF Prefix
    <3> QED BY <1>4, <2>1, <3>1
  <2> QED BY <1>1, <1>2, <1>4, <2>2 DEF Promise!May
<1> QED BY <1>3, <1>4

\* A step that sets flags withdraws the exchanges that it silences.
LEMMA WithdrawStep ==
    ASSUME TypeOK, UNCHANGED <<got, AskedFor>>,
           NEW E \in SUBSET Exchanges,
           silenced' = silenced \/ silenced' = silenced \cup {e \in E : Unanswered(e)}
    PROVE  [Promise!Next]_(Promise!vars)
<1>1. CASE silenced' = silenced
    BY <1>1 DEF Promise!vars
<1>2. CASE silenced' = silenced \cup {e \in E : Unanswered(e)}
  <2> DEFINE W == {e \in E : Unanswered(e)}
  <2>1. W \in SUBSET Exchanges /\ \A e \in W : got[e] = <<>>
    BY DEF Unanswered
  <2>2. Promise!Withdraw(W)
    BY <1>2, <2>1 DEF Promise!Withdraw
  <2> QED BY <2>1, <2>2 DEF Promise!Next
<1> QED BY <1>1, <1>2

\* A message of an exchange that is asked for and not withdrawn.
LEMMA SayStep ==
    ASSUME NEW e \in Exchanges, e \in AskedFor, e \notin silenced,
           NEW m \in Messages, Promise!May(got[e], m),
           got' = [got EXCEPT ![e] = Append(@, m)],
           UNCHANGED <<AskedFor, silenced>>
    PROVE  Promise!Next
<1>1. Promise!Say(e, m)
    BY DEF Promise!Say
<1> QED BY <1>1 DEF Promise!Next, Messages

LEMMA SameAskedFor ==
    ASSUME TypeOK, NEW e \in Exchanges,
           thread[e] # "none", UNCHANGED server,
           \E pc \in ThreadPc \ {"none"} : thread' = [thread EXCEPT ![e] = pc]
    PROVE  UNCHANGED AskedFor
<1>1. \A f \in Exchanges : (thread'[f] # "none") <=> (thread[f] # "none")
    BY DEF TypeOK
<1> QED BY <1>1 DEF AskedFor, Exchanges


\* What complete_http sends may follow what it has sent.
LEMMA ThreadRefines ==
    ASSUME BridgeInv, NEW e \in Exchanges, ThreadStep(e)
    PROVE  [Promise!Next]_(Promise!vars)
<1> USE DEF readVars, answerVars, bridgeVars
<1>0. /\ TypeOK /\ thread[e] # "none" /\ e \in Http /\ e \in AskedFor
      /\ Sent(e) /\ parts[e] \in Nat /\ sent[e] \in Nat
  <2>1. TypeOK /\ thread[e] \in ThreadPc /\ thread[e] # "none"
    BY DEF BridgeInv, TypeOK, ThreadStep, Begins, HandlerReturns, HandlerThrows, Tests, Sends,
           Answered, SendFails, Catches, Fails, FailEnds, ErasesOwn
  <2> QED BY <2>1, BridgeAssumption
             DEF BridgeInv, Places, AllSent, TypeOK, AskedFor, BridgeAssumption
<1>1. \A pc \in ThreadPc \ {"none"} :
          ThreadGoto(e, pc) /\ UNCHANGED server => UNCHANGED AskedFor
    BY <1>0, SameAskedFor DEF ThreadGoto
<1>2. ASSUME UNCHANGED <<server, got>>, NEW left \in SUBSET Exchanges,
             NEW pc \in ThreadPc \ {"none"}, ThreadGoto(e, pc), Release(left)
      PROVE  [Promise!Next]_(Promise!vars)
    BY <1>0, <1>1, <1>2, WithdrawStep DEF Release, Cancel
<1>3. ASSUME UNCHANGED <<server, got>>, NEW pc \in ThreadPc \ {"none"}, Continues(e, pc)
      PROVE  [Promise!Next]_(Promise!vars)
    BY <1>1, <1>3 DEF Continues, Promise!vars
<1>4. CASE Begins(e) \/ Tests(e)
  <2>1. UNCHANGED <<server, got>>
    BY <1>4 DEF Begins, Tests
  <2>2. CASE Returns(e)
    BY <1>0, <1>2, <2>1, <2>2 DEF Returns, ThreadPc, TypeOK
  <2>3. CASE Continues(e, "handler") \/ Continues(e, "sending")
    BY <1>3, <2>1, <2>3 DEF ThreadPc
  <2> QED BY <1>4, <2>2, <2>3 DEF Begins, Tests
<1>5. CASE HandlerReturns(e) \/ HandlerThrows(e) \/ Answered(e) \/ SendFails(e)
           \/ Catches(e) \/ FailEnds(e)
  <2>1. UNCHANGED <<server, got>>
    BY <1>5 DEF HandlerReturns, HandlerThrows, Answered, SendFails, Catches, FailEnds
  <2>2. \E pc \in ThreadPc \ {"none"} : Continues(e, pc)
    BY <1>5 DEF HandlerReturns, HandlerThrows, Answered, SendFails, Catches, FailEnds, ThreadPc
  <2> QED BY <1>3, <2>1, <2>2
<1>6. CASE ErasesOwn(e)
  <2>1. UNCHANGED <<server, got>> /\ ThreadGoto(e, "over") /\ Release(pending \ {e})
    BY <1>6 DEF ErasesOwn
  <2>2. pending \ {e} \in SUBSET Exchanges /\ "over" \in ThreadPc \ {"none"}
    BY <1>0 DEF TypeOK, ThreadPc
  <2> QED BY <1>2, <2>1, <2>2
<1>7. ASSUME NEW m \in Messages, Promise!May(got[e], m), e \notin silenced,
             NEW waits \in ThreadPc \ {"none"}, NEW throws \in ThreadPc \ {"none"},
             SendRpc(e, m, waits, throws)
      PROVE  [Promise!Next]_(Promise!vars)
  <2>1. UNCHANGED <<server, silenced>>
    BY <1>7 DEF SendRpc, Continues
  <2>2. thread[e] \in ThreadPc \ {"none"}
    BY <1>0 DEF TypeOK
  <2>3. \E pc \in ThreadPc \ {"none"} : ThreadGoto(e, pc)
    BY <1>7, <2>2 DEF SendRpc, Continues
  <2>4. UNCHANGED AskedFor
    BY <1>1, <2>1, <2>3
  <2>5. got' = got \/ got' = [got EXCEPT ![e] = Append(@, m)]
    BY <1>7 DEF SendRpc
  <2> QED BY <1>0, <1>7, <2>1, <2>4, <2>5, SayStep DEF Promise!vars
<1>8. CASE Sends(e)
  <2>1. thread[e] = "sending" /\ e \notin silenced
    BY <1>8 DEF Sends, BridgeInv, Silent
  <2>2. sent[e] < Len(Whole(parts[e])) /\ got[e] = Prefix(parts[e], sent[e])
    BY <1>0, <2>1 DEF Sent
  <2>3. /\ Whole(parts[e])[sent[e] + 1] \in Messages
        /\ Promise!May(got[e], Whole(parts[e])[sent[e] + 1])
    BY <1>0, <2>2, NextMayFollow
  <2> QED BY <1>7, <1>8, <2>1, <2>3 DEF Sends, ThreadPc
<1>9. CASE Fails(e)
  <2>1. thread[e] = "fail" /\ e \notin silenced
    BY <1>9 DEF Fails, BridgeInv, Silent
  <2>2. Promise!May(got[e], "error")
    BY <1>0, <2>1, ErrorMayFollow DEF Sent
  <2> QED BY <1>7, <1>9, <2>1, <2>2 DEF Fails, ThreadPc, Messages
<1> QED BY <1>4, <1>5, <1>6, <1>8, <1>9 DEF ThreadStep

\* Nothing is sent of a websocket before the read thread takes it, and the server has
\* asked for what the thread takes.
Openings ==
    /\ reader = "start" => server[at] # "idle"
    /\ \A w \in WebSocket :
          server[w] = "idle" \/ (reader = "start" /\ at = w) => got[w] = <<>>

LEMMA OpeningsInit == Init => Openings
BY DEF Init, Openings, Exchanges

LEMMA OpeningsKept ==
    ASSUME BridgeInv, Openings, [Next]_vars
    PROVE  Openings'
<1> USE DEF Openings
<1>0. TypeOK /\ \A w \in WebSocket : thread[w] = "none" /\ w \in Exchanges
    BY BridgeAssumption DEF BridgeInv, Places, Exchanges, BridgeAssumption
<1>1. ASSUME NEW e \in Exchanges, NEW m \in {"start", "end", "cancel"}, Receives(e, m)
      PROVE  Openings'
  <2>1. /\ Follows(e, m) /\ server' = [server EXCEPT ![e] = m] /\ UNCHANGED got
        /\ reader = "reading"
        /\ \/ reader' = m /\ at' = e
           \/ reader' = reader /\ at' = at
    BY <1>1 DEF Receives, Listens, Goto, readVars, answerVars
  <2>2. m = "start" => server[e] = "idle"
    BY <2>1 DEF Follows
  <2>3. \A w \in Exchanges : server'[w] = IF w = e THEN m ELSE server[w]
    BY <1>0, <2>1 DEF TypeOK
  <2>4. reader' = "start" => server'[at'] # "idle"
    BY <1>1, <2>1, <2>3
  <2>5. ASSUME NEW w \in WebSocket, server'[w] = "idle" \/ (reader' = "start" /\ at' = w)
        PROVE  got'[w] = <<>>
    <3>1. server[w] = "idle"
        BY <1>0, <1>1, <2>1, <2>2, <2>3, <2>5
    <3> QED BY <2>1, <3>1
  <2> QED BY <2>4, <2>5
<1>2. CASE ReaderStep
  <2>1. UNCHANGED server /\ (reader' # "start" \/ UNCHANGED <<reader, at>>)
    BY <1>2 DEF ReaderStep, UsesDeadBridge, Registers, RefusesWebSocket, OpensWebSocket,
                OpeningExpires, LooksUp, Marks, Erases, Spawns, ReaderEnds, ReaderLoses,
                GoesRound, Goto, readVars
  <2>2. \/ got' = got
        \/ reader = "start" /\ reader' = "opening" /\ got' = [got EXCEPT ![at] = <<"start">>]
    BY <1>2 DEF ReaderStep, UsesDeadBridge, Registers, RefusesWebSocket, OpensWebSocket,
                OpeningExpires, LooksUp, Marks, Erases, Spawns, ReaderEnds, ReaderLoses, Goto,
                answerVars
  <2>3. CASE got' = got
    BY <2>1, <2>3
  <2>4. CASE reader = "start" /\ reader' = "opening" /\ got' = [got EXCEPT ![at] = <<"start">>]
    <3>1. \A w \in WebSocket : w # at => got'[w] = got[w]
        BY <1>0, <2>4 DEF TypeOK
    <3> QED BY <2>1, <2>4, <3>1
  <2> QED BY <2>2, <2>3, <2>4
<1>3. ASSUME NEW e \in Exchanges, ThreadStep(e)
      PROVE  Openings'
  <2>1. /\ UNCHANGED <<server, reader, at>>
        /\ got' = got \/ \E m : got' = [got EXCEPT ![e] = m]
        /\ thread[e] # "none"
    BY <1>3 DEF ThreadStep, Begins, HandlerReturns, HandlerThrows, Tests, Sends, SendRpc,
                Answered, SendFails, Catches, Fails, FailEnds, ErasesOwn, readVars, answerVars
  <2>2. \A w \in WebSocket : w # e
    BY <1>0, <2>1
  <2>3. \A w \in WebSocket : got'[w] = got[w]
    BY <1>0, <2>1, <2>2 DEF TypeOK
  <2> QED BY <2>1, <2>3
<1>4. CASE ServerAccepts \/ PeerLost \/ StopTakes \/ StopStep \/ UNCHANGED vars
    BY <1>4 DEF ServerAccepts, PeerLost, StopTakes, StopStep, StopSwaps, StopCancels,
                StopResets, StopCloses, StopJoins, vars, readVars, answerVars
<1> QED BY <1>1, <1>2, <1>3, <1>4 DEF Next, Steps

\* The read thread opens websockets, starts threads and sets flags.
LEMMA ReaderRefines ==
    ASSUME BridgeInv, Openings, ReaderStep
    PROVE  [Promise!Next]_(Promise!vars)
<1> USE DEF readVars, answerVars, bridgeVars
<1>0. TypeOK /\ UNCHANGED server
    BY DEF BridgeInv, ReaderStep, UsesDeadBridge, Registers, RefusesWebSocket, OpensWebSocket,
           OpeningExpires, LooksUp, Marks, Erases, Spawns, ReaderEnds, ReaderLoses
<1>1. CASE OpensWebSocket
  <2>1. /\ at \in WebSocket /\ UNCHANGED <<thread, silenced>>
        /\ got' = got \/ got' = [got EXCEPT ![at] = <<"start">>]
        /\ got[at] = <<>> /\ server[at] # "idle"
    BY <1>1 DEF OpensWebSocket, Openings
  <2>2. at \in Exchanges /\ at \in AskedFor /\ UNCHANGED AskedFor
    BY <1>0, <2>1 DEF AskedFor, Exchanges
  <2>3. at \notin silenced
    BY <2>1, BridgeAssumption DEF BridgeInv, Silent, BridgeAssumption
  <2>4. CASE got' = got
    BY <2>1, <2>2, <2>4 DEF Promise!vars
  <2>5. CASE got' = [got EXCEPT ![at] = <<"start">>]
    <3>1. Append(got[at], "start") = <<"start">>
        BY <2>1
    <3>2. got' = [got EXCEPT ![at] = Append(@, "start")]
        BY <2>5, <3>1
    <3>3. "start" \in Messages /\ Promise!May(got[at], "start")
        BY <2>1 DEF Messages, Promise!May
    <3> QED BY <2>1, <2>2, <2>3, <3>2, <3>3, SayStep
  <2> QED BY <2>1, <2>4, <2>5
<1>2. CASE Spawns
  <2>1. /\ UNCHANGED <<got, silenced>> /\ at \in Http
        /\ thread' = [thread EXCEPT ![at] = "begun"]
    BY <1>2 DEF Spawns, BridgeInv, Places
  <2>2. AskedFor' = AskedFor \cup {at}
    BY <1>0, <2>1 DEF AskedFor, TypeOK, Exchanges
  <2>3. Promise!Ask(at)
    BY <2>1, <2>2 DEF Promise!Ask
  <2> QED BY <2>1, <2>3 DEF Promise!Next, Exchanges
<1>3. CASE Marks
  <2>1. at \in Exchanges /\ UNCHANGED <<got, thread>> /\ Cancel({at})
    BY <1>3 DEF Marks, BridgeInv, Places, Exchanges
  <2>2. UNCHANGED AskedFor /\ {at} \in SUBSET Exchanges
    BY <1>0, <2>1 DEF AskedFor
  <2> QED BY <1>0, <2>1, <2>2, WithdrawStep DEF Cancel
<1>4. CASE ReaderLoses
  <2>1. UNCHANGED <<got, silenced>>
    BY <1>4 DEF ReaderLoses
  <2>2. \A e \in Exchanges : (thread'[e] # "none") <=> (thread[e] # "none")
    BY <1>0, <1>4, LossMovesWaiting
  <2>3. UNCHANGED AskedFor
    BY <1>0, <2>2 DEF AskedFor, Exchanges
  <2> QED BY <2>1, <2>3 DEF Promise!vars
<1>5. CASE ~OpensWebSocket /\ ~Spawns /\ ~Marks /\ ~ReaderLoses
  <2>1. UNCHANGED <<got, thread, silenced>>
    BY <1>5 DEF ReaderStep, UsesDeadBridge, Registers, RefusesWebSocket, OpeningExpires,
                LooksUp, Erases, ReaderEnds
  <2> QED BY <1>0, <2>1 DEF AskedFor, Promise!vars
<1> QED BY <1>1, <1>2, <1>3, <1>4, <1>5


\* stop() withdraws what its cancel_all had taken, and what it leaves to the destructor.
LEMMA StopRefines ==
    ASSUME BridgeInv, StopTakes \/ StopStep
    PROVE  [Promise!Next]_(Promise!vars)
<1> USE DEF readVars, answerVars, bridgeVars
<1>1. TypeOK /\ UNCHANGED <<server, thread, got>> /\ UNCHANGED AskedFor
  <2>1. TypeOK /\ UNCHANGED <<server, thread, got>>
    BY DEF BridgeInv, StopTakes, StopStep, StopSwaps, StopCancels, StopResets, StopCloses,
           StopJoins
  <2> QED BY <2>1 DEF AskedFor
<1>2. CASE StopCancels
    BY <1>1, <1>2, WithdrawStep DEF StopCancels, Cancel, TypeOK
<1>3. CASE StopResets
  <2>1. Release(pending) /\ pending \in SUBSET Exchanges
    BY <1>1, <1>3 DEF StopResets, TypeOK
  <2> QED BY <1>1, <2>1, WithdrawStep DEF Release, Cancel
<1>4. CASE ~StopCancels /\ ~StopResets
  <2>1. UNCHANGED silenced
    BY <1>4 DEF StopTakes, StopStep, StopSwaps, StopCloses, StopJoins
  <2> QED BY <1>1, <2>1 DEF Promise!vars
<1> QED BY <1>2, <1>3, <1>4

\* What the server sends may complete the request of a websocket.
LEMMA ServerRefines ==
    ASSUME BridgeInv, NEW e \in Exchanges, NEW m \in {"start", "end", "cancel"}, Receives(e, m)
    PROVE  [Promise!Next]_(Promise!vars)
<1>1. /\ TypeOK /\ server' = [server EXCEPT ![e] = m] /\ m # "idle"
      /\ UNCHANGED <<thread, got, silenced>>
    BY DEF BridgeInv, Receives, answerVars
<1>2. AskedFor' = AskedFor \cup (IF e \in WebSocket THEN {e} ELSE {})
    BY <1>1 DEF AskedFor, TypeOK, Exchanges
<1>3. CASE e \in WebSocket
  <2>1. Promise!Ask(e)
    BY <1>1, <1>2, <1>3 DEF Promise!Ask
  <2> QED BY <2>1 DEF Promise!Next
<1>4. CASE e \notin WebSocket
    BY <1>1, <1>2, <1>4 DEF Promise!vars
<1> QED BY <1>3, <1>4

\* Step by step the bridge does what BridgePromise allows: a message of an exchange goes
\* out only if the server has asked for it, it may follow the one before, and its flag
\* was not set before complete_http last looked at it.
THEOREM KeepsItsPromise == Spec => ImplementsPromise
<1>1. Init => BridgeInv /\ Openings /\ Promise!Init
  <2>1. Init => Promise!Init
    BY DEF Init, Promise!Init, AskedFor, Exchanges
  <2> QED BY <2>1, InitInv, OpeningsInit
<1>2. BridgeInv /\ Openings /\ [Next]_vars => BridgeInv' /\ Openings'
    BY TypeKept, PlacesKept, AllSentKept, SilentKept, BridgeKept, OpeningsKept DEF BridgeInv
<1>3. BridgeInv /\ Openings /\ [Next]_vars => [Promise!Next]_(Promise!vars)
  <2> SUFFICES ASSUME BridgeInv, Openings, [Next]_vars
               PROVE  [Promise!Next]_(Promise!vars)
    OBVIOUS
  <2>1. CASE UNCHANGED vars \/ ServerAccepts \/ PeerLost
    BY <2>1 DEF vars, answerVars, ServerAccepts, PeerLost, AskedFor, Promise!vars
  <2> QED BY <2>1, ReaderRefines, ThreadRefines, StopRefines, ServerRefines DEF Next, Steps
<1> QED BY <1>1, <1>2, <1>3, PTL DEF Spec, ImplementsPromise, Promise!Spec
=============================================================================
