-------------------------- MODULE ClientConnProofs --------------------------
(* Proofs about ClientConn: they hold for any number of concurrent calls of  *)
(* start(), stop() and force_stop(), and every kind of connection.           *)
EXTENDS ClientConn, TLAPS

\* The stages of a start() between taking mutex_ and leaving it.
Making == {"spawn", "dropProcess", "announce", "connect", "dropRpc", "joinOld", "attach",
           "handshake", "configure"}

\* mutex_ is held by exactly the start() that is under way, and the client then
\* says Connecting.
MutexOfStart ==
    /\ \A c \in Starts : (starting[c] \in Making) <=> (holder = c)
    /\ holder # None => state = "Connecting"

\* What the client holds at each stage of the start() under way.
Stages == \A c \in Starts :
    /\ starting[c] = "dropProcess" =>
          process # None /\ ~(child[process] = "up" /\ signalled[process] = "no")
    /\ starting[c] = "attach" => rpc = None
    /\ starting[c] \in {"handshake", "configure"} => rpc = c
    /\ starting[c] = "configure" => negotiated = c

\* The inductive invariant.
ConnInv ==
    /\ TypeOK /\ MutexOfStart /\ Stages
    /\ ConnectedIsVerified /\ NoLeakedServer /\ ReaderHasItsClient

-----------------------------------------------------------------------------
(* The steps of Next, by who takes them.                                   *)

StartAction(c) ==
    StartBegins(c) \/ StartStep(c) \/ Announce(c) \/ AnnounceGarbage(c)
StopAction(s) == StopBegins(s) \/ StopStep(s)
WorldAction(c) ==
    \/ ReaderEnds(c) \/ ReaderNotices(c) \/ ReaderGetsEvent(c) \/ ReaderLooksUp(c)
    \/ ChildExits(c) \/ PeerHangsUp(c)

\* Every step is one of a start(), of a stop(), or of a thread or server.
LEMMA NextActions ==
  Next => \/ \E c \in Starts : StartAction(c) \/ WorldAction(c)
          \/ \E s \in Stops : StopAction(s)
  BY DEF Next, StartAction, StopAction, WorldAction

\* None names no connection.
LEMMA NoneIsNobody == None \notin Starts
  BY ConnAssumption

-----------------------------------------------------------------------------
(* Types.                                                                  *)

\* The client begins disconnected, with nothing made and nobody calling.
LEMMA ConnInit == Init => ConnInv
  BY ConnAssumption
  DEF Init, ConnInv, TypeOK, MutexOfStart, Making, Stages, ConnectedIsVerified,
      NoLeakedServer, ReaderHasItsClient, Maybe, StartPc, StopPc, Nothing

\* The steps of start() keep every variable in its type.
LEMMA StartTypeOK ==
  ASSUME TypeOK, NEW c \in Starts, StartAction(c)
  PROVE  TypeOK'
<1> USE DEF TypeOK, Maybe, StartPc, clientVars, worldVars, callVars
<1>1. CASE StartBegins(c)
  BY <1>1 DEF StartBegins, Goto
<1>2. CASE DropsProcess(c)
  BY <1>2 DEF DropsProcess, Goto
<1>3. CASE ProcessDropped(c)
  BY <1>3 DEF ProcessDropped, Goto
<1>4. CASE Spawn(c)
  BY <1>4 DEF Spawn, Fails, Goto
<1>5. CASE Announce(c)
  BY <1>5 DEF Announce, Goto
<1>6. CASE AnnounceFails(c)
  BY <1>6 DEF AnnounceFails, Fails, Goto
<1>7. CASE AnnounceGarbage(c)
  BY <1>7 DEF AnnounceGarbage, Fails, Goto
<1>8. CASE Connect(c)
  BY <1>8 DEF Connect, Goto
<1>9. CASE ConnectFails(c)
  BY <1>9 DEF ConnectFails, Fails, Goto
<1>10. CASE DropsRpc(c)
  BY <1>10 DEF DropsRpc, Goto
<1>11. CASE RpcDropped(c)
  BY <1>11 DEF RpcDropped, Goto
<1>12. CASE Attach(c)
  BY <1>12 DEF Attach, Goto
<1>13. CASE Handshake(c)
  BY <1>13 DEF Handshake, Goto
<1>14. CASE Configured(c)
  BY <1>14 DEF Configured, Goto
<1>15. CASE CallFails(c)
  BY <1>15 DEF CallFails, Fails, Goto
<1>16. QED
  BY <1>1, <1>2, <1>3, <1>4, <1>5, <1>6, <1>7, <1>8, <1>9, <1>10, <1>11, <1>12, <1>13,
        <1>14, <1>15 DEF StartAction, StartStep

\* The steps of stop() keep every variable in its type.
LEMMA StopTypeOK ==
  ASSUME TypeOK, NEW s \in Stops, StopAction(s)
  PROVE  TypeOK'
<1> USE DEF TypeOK, Maybe, StopPc, clientVars, worldVars, callVars
<1>1. CASE StopBegins(s)
  BY <1>1 DEF StopBegins, StopGoto
<1>2. CASE StopTakes(s)
  BY <1>2 DEF StopTakes, StopGoto
<1>3. CASE StopDropsBridge(s)
  BY <1>3 DEF StopDropsBridge, StopGoto
<1>4. CASE StopSignals(s)
  BY <1>4 DEF StopSignals, StopGoto
<1>5. CASE StopClosesPipes(s)
  BY <1>5 DEF StopClosesPipes, StopGoto
<1>6. CASE StopStopsRpc(s)
  BY <1>6 DEF StopStopsRpc, StopGoto
<1>7. CASE StopJoins(s)
  BY <1>7 DEF StopJoins, StopGoto
<1>8. CASE StopReleases(s)
  BY <1>8 DEF StopReleases, StopGoto
<1>9. QED
  BY <1>1, <1>2, <1>3, <1>4, <1>5, <1>6, <1>7, <1>8 DEF StopAction, StopStep

-----------------------------------------------------------------------------
(* mutex_ and the stages of start().                                       *)

\* start() takes mutex_ once and leaves it once.
LEMMA StartMutex ==
  ASSUME TypeOK, MutexOfStart, NEW c \in Starts, StartAction(c)
  PROVE  MutexOfStart'
<1> USE NoneIsNobody DEF TypeOK, Maybe, MutexOfStart, Making, clientVars, worldVars,
        callVars
<1>1. CASE StartBegins(c)
  BY <1>1 DEF StartBegins, Goto
<1>2. CASE DropsProcess(c)
  BY <1>2 DEF DropsProcess, Goto
<1>3. CASE ProcessDropped(c)
  BY <1>3 DEF ProcessDropped, Goto
<1>4. CASE Spawn(c)
  BY <1>4 DEF Spawn, Fails, Goto
<1>5. CASE Announce(c)
  BY <1>5 DEF Announce, Goto
<1>6. CASE AnnounceFails(c)
  BY <1>6 DEF AnnounceFails, Fails, Goto
<1>7. CASE AnnounceGarbage(c)
  BY <1>7 DEF AnnounceGarbage, Fails, Goto
<1>8. CASE Connect(c)
  BY <1>8 DEF Connect, Goto
<1>9. CASE ConnectFails(c)
  BY <1>9 DEF ConnectFails, Fails, Goto
<1>10. CASE DropsRpc(c)
  BY <1>10 DEF DropsRpc, Goto
<1>11. CASE RpcDropped(c)
  BY <1>11 DEF RpcDropped, Goto
<1>12. CASE Attach(c)
  BY <1>12 DEF Attach, Goto
<1>13. CASE Handshake(c)
  BY <1>13 DEF Handshake, Goto
<1>14. CASE Configured(c)
  BY <1>14 DEF Configured, Goto
<1>15. CASE CallFails(c)
  BY <1>15 DEF CallFails, Fails, Goto
<1>16. QED
  BY <1>1, <1>2, <1>3, <1>4, <1>5, <1>6, <1>7, <1>8, <1>9, <1>10, <1>11, <1>12, <1>13,
        <1>14, <1>15 DEF StartAction, StartStep

\* stop() takes what the client holds only while no start() holds mutex_.
LEMMA StopMutex ==
  ASSUME TypeOK, MutexOfStart, NEW s \in Stops, StopAction(s)
  PROVE  MutexOfStart'
<1> USE DEF MutexOfStart, clientVars, worldVars, callVars
<1>1. CASE StopBegins(s)
  BY <1>1 DEF StopBegins, StopGoto
<1>2. CASE StopTakes(s)
  BY <1>2 DEF StopTakes, StopGoto
<1>3. CASE StopDropsBridge(s)
  BY <1>3 DEF StopDropsBridge, StopGoto
<1>4. CASE StopSignals(s)
  BY <1>4 DEF StopSignals, StopGoto
<1>5. CASE StopClosesPipes(s)
  BY <1>5 DEF StopClosesPipes, StopGoto
<1>6. CASE StopStopsRpc(s)
  BY <1>6 DEF StopStopsRpc, StopGoto
<1>7. CASE StopJoins(s)
  BY <1>7 DEF StopJoins, StopGoto
<1>8. CASE StopReleases(s)
  BY <1>8 DEF StopReleases, StopGoto
<1>9. QED
  BY <1>1, <1>2, <1>3, <1>4, <1>5, <1>6, <1>7, <1>8 DEF StopAction, StopStep

\* A start() under way prepares its next stage; no other is under way.
LEMMA StartStages ==
  ASSUME TypeOK, MutexOfStart, Stages, NEW c \in Starts, StartAction(c)
  PROVE  Stages'
<1> USE NoneIsNobody DEF TypeOK, Maybe, StartPc, MutexOfStart, Making, Stages, clientVars,
        worldVars, callVars
<1>1. CASE StartBegins(c)
  BY <1>1 DEF StartBegins, Goto
<1>2. CASE DropsProcess(c)
  BY <1>2 DEF DropsProcess, Goto
<1>3. CASE ProcessDropped(c)
  BY <1>3 DEF ProcessDropped, Goto
<1>4. CASE Spawn(c)
  BY <1>4 DEF Spawn, Fails, Goto
<1>5. CASE Announce(c)
  BY <1>5 DEF Announce, Goto
<1>6. CASE AnnounceFails(c)
  BY <1>6 DEF AnnounceFails, Fails, Goto
<1>7. CASE AnnounceGarbage(c)
  BY <1>7 DEF AnnounceGarbage, Fails, Goto
<1>8. CASE Connect(c)
  BY <1>8 DEF Connect, Goto
<1>9. CASE ConnectFails(c)
  BY <1>9 DEF ConnectFails, Fails, Goto
<1>10. CASE DropsRpc(c)
  BY <1>10 DEF DropsRpc, Goto
<1>11. CASE RpcDropped(c)
  BY <1>11 DEF RpcDropped, Goto
<1>12. CASE Attach(c)
  BY <1>12 DEF Attach, Goto
<1>13. CASE Handshake(c)
  BY <1>13 DEF Handshake, Goto
<1>14. CASE Configured(c)
  BY <1>14 DEF Configured, Goto
<1>15. CASE CallFails(c)
  BY <1>15 DEF CallFails, Fails, Goto
<1>16. QED
  BY <1>1, <1>2, <1>3, <1>4, <1>5, <1>6, <1>7, <1>8, <1>9, <1>10, <1>11, <1>12, <1>13,
        <1>14, <1>15 DEF StartAction, StartStep

\* stop() does not disturb the start() under way.
LEMMA StopStages ==
  ASSUME TypeOK, MutexOfStart, Stages, NEW s \in Stops, StopAction(s)
  PROVE  Stages'
<1> USE NoneIsNobody DEF TypeOK, Maybe, MutexOfStart, Making, Stages, clientVars,
        worldVars, callVars
<1>1. CASE StopBegins(s)
  BY <1>1 DEF StopBegins, StopGoto
<1>2. CASE StopTakes(s)
  BY <1>2 DEF StopTakes, StopGoto
<1>3. CASE StopDropsBridge(s)
  BY <1>3 DEF StopDropsBridge, StopGoto
<1>4. CASE StopSignals(s)
  BY <1>4 DEF StopSignals, StopGoto
<1>5. CASE StopClosesPipes(s)
  BY <1>5 DEF StopClosesPipes, StopGoto
<1>6. CASE StopStopsRpc(s)
  BY <1>6 DEF StopStopsRpc, StopGoto
<1>7. CASE StopJoins(s)
  BY <1>7 DEF StopJoins, StopGoto
<1>8. CASE StopReleases(s)
  BY <1>8 DEF StopReleases, StopGoto
<1>9. QED
  BY <1>1, <1>2, <1>3, <1>4, <1>5, <1>6, <1>7, <1>8 DEF StopAction, StopStep

-----------------------------------------------------------------------------
(* The properties.                                                         *)

\* start() says Connected when the connection in rpc_ was verified.
LEMMA StartVerified ==
  ASSUME ConnInv, NEW c \in Starts, StartAction(c)
  PROVE  ConnectedIsVerified'
<1> USE NoneIsNobody DEF ConnInv, MutexOfStart, Making, Stages, TypeOK, Maybe,
        ConnectedIsVerified, clientVars, worldVars, callVars
<1>1. CASE StartBegins(c)
  BY <1>1 DEF StartBegins, Goto
<1>2. CASE DropsProcess(c)
  BY <1>2 DEF DropsProcess, Goto
<1>3. CASE ProcessDropped(c)
  BY <1>3 DEF ProcessDropped, Goto
<1>4. CASE Spawn(c)
  BY <1>4 DEF Spawn, Fails, Goto
<1>5. CASE Announce(c)
  BY <1>5 DEF Announce, Goto
<1>6. CASE AnnounceFails(c)
  BY <1>6 DEF AnnounceFails, Fails, Goto
<1>7. CASE AnnounceGarbage(c)
  BY <1>7 DEF AnnounceGarbage, Fails, Goto
<1>8. CASE Connect(c)
  BY <1>8 DEF Connect, Goto
<1>9. CASE ConnectFails(c)
  BY <1>9 DEF ConnectFails, Fails, Goto
<1>10. CASE DropsRpc(c)
  BY <1>10 DEF DropsRpc, Goto
<1>11. CASE RpcDropped(c)
  BY <1>11 DEF RpcDropped, Goto
<1>12. CASE Attach(c)
  BY <1>12 DEF Attach, Goto
<1>13. CASE Handshake(c)
  BY <1>13 DEF Handshake, Goto
<1>14. CASE Configured(c)
  BY <1>14 DEF Configured, Goto
<1>15. CASE CallFails(c)
  BY <1>15 DEF CallFails, Fails, Goto
<1>16. QED
  BY <1>1, <1>2, <1>3, <1>4, <1>5, <1>6, <1>7, <1>8, <1>9, <1>10, <1>11, <1>12, <1>13,
        <1>14, <1>15 DEF StartAction, StartStep

\* start() replaces process_ only after its process was signalled.
LEMMA StartLeaksNothing ==
  ASSUME ConnInv, NEW c \in Starts, StartAction(c)
  PROVE  NoLeakedServer'
<1> USE NoneIsNobody DEF ConnInv, MutexOfStart, Making, Stages, TypeOK, Maybe,
        NoLeakedServer, clientVars, worldVars, callVars
<1>1. CASE StartBegins(c)
  BY <1>1 DEF StartBegins, Goto
<1>2. CASE DropsProcess(c)
  BY <1>2 DEF DropsProcess, Goto
<1>3. CASE ProcessDropped(c)
  BY <1>3 DEF ProcessDropped, Goto
<1>4. CASE Spawn(c)
  BY <1>4 DEF Spawn, Fails, Goto
<1>5. CASE Announce(c)
  BY <1>5 DEF Announce, Goto
<1>6. CASE AnnounceFails(c)
  BY <1>6 DEF AnnounceFails, Fails, Goto
<1>7. CASE AnnounceGarbage(c)
  BY <1>7 DEF AnnounceGarbage, Fails, Goto
<1>8. CASE Connect(c)
  BY <1>8 DEF Connect, Goto
<1>9. CASE ConnectFails(c)
  BY <1>9 DEF ConnectFails, Fails, Goto
<1>10. CASE DropsRpc(c)
  BY <1>10 DEF DropsRpc, Goto
<1>11. CASE RpcDropped(c)
  BY <1>11 DEF RpcDropped, Goto
<1>12. CASE Attach(c)
  BY <1>12 DEF Attach, Goto
<1>13. CASE Handshake(c)
  BY <1>13 DEF Handshake, Goto
<1>14. CASE Configured(c)
  BY <1>14 DEF Configured, Goto
<1>15. CASE CallFails(c)
  BY <1>15 DEF CallFails, Fails, Goto
<1>16. QED
  BY <1>1, <1>2, <1>3, <1>4, <1>5, <1>6, <1>7, <1>8, <1>9, <1>10, <1>11, <1>12, <1>13,
        <1>14, <1>15 DEF StartAction, StartStep

\* stop() signals the process it moved out of the client.
LEMMA StopLeaksNothing ==
  ASSUME ConnInv, NEW s \in Stops, StopAction(s)
  PROVE  NoLeakedServer'
<1> USE NoneIsNobody DEF ConnInv, MutexOfStart, Making, Stages, TypeOK, Maybe,
        NoLeakedServer, clientVars, worldVars, callVars
<1>1. CASE StopBegins(s)
  BY <1>1 DEF StopBegins, StopGoto
<1>2. CASE StopTakes(s)
  BY <1>2 DEF StopTakes, StopGoto
<1>3. CASE StopDropsBridge(s)
  BY <1>3 DEF StopDropsBridge, StopGoto
<1>4. CASE StopSignals(s)
  BY <1>4 DEF StopSignals, StopGoto
<1>5. CASE StopClosesPipes(s)
  BY <1>5 DEF StopClosesPipes, StopGoto
<1>6. CASE StopStopsRpc(s)
  BY <1>6 DEF StopStopsRpc, StopGoto
<1>7. CASE StopJoins(s)
  BY <1>7 DEF StopJoins, StopGoto
<1>8. CASE StopReleases(s)
  BY <1>8 DEF StopReleases, StopGoto
<1>9. QED
  BY <1>1, <1>2, <1>3, <1>4, <1>5, <1>6, <1>7, <1>8 DEF StopAction, StopStep

\* start() replaces rpc_ only after its read thread was joined.
LEMMA StartJoins ==
  ASSUME ConnInv, NEW c \in Starts, StartAction(c)
  PROVE  ReaderHasItsClient'
<1> USE NoneIsNobody DEF ConnInv, MutexOfStart, Making, Stages, TypeOK, Maybe,
        ReaderHasItsClient, clientVars, worldVars, callVars
<1>1. CASE StartBegins(c)
  BY <1>1 DEF StartBegins, Goto
<1>2. CASE DropsProcess(c)
  BY <1>2 DEF DropsProcess, Goto
<1>3. CASE ProcessDropped(c)
  BY <1>3 DEF ProcessDropped, Goto
<1>4. CASE Spawn(c)
  BY <1>4 DEF Spawn, Fails, Goto
<1>5. CASE Announce(c)
  BY <1>5 DEF Announce, Goto
<1>6. CASE AnnounceFails(c)
  BY <1>6 DEF AnnounceFails, Fails, Goto
<1>7. CASE AnnounceGarbage(c)
  BY <1>7 DEF AnnounceGarbage, Fails, Goto
<1>8. CASE Connect(c)
  BY <1>8 DEF Connect, Goto
<1>9. CASE ConnectFails(c)
  BY <1>9 DEF ConnectFails, Fails, Goto
<1>10. CASE DropsRpc(c)
  BY <1>10 DEF DropsRpc, Goto
<1>11. CASE RpcDropped(c)
  BY <1>11 DEF RpcDropped, Goto
<1>12. CASE Attach(c)
  BY <1>12 DEF Attach, Goto
<1>13. CASE Handshake(c)
  BY <1>13 DEF Handshake, Goto
<1>14. CASE Configured(c)
  BY <1>14 DEF Configured, Goto
<1>15. CASE CallFails(c)
  BY <1>15 DEF CallFails, Fails, Goto
<1>16. QED
  BY <1>1, <1>2, <1>3, <1>4, <1>5, <1>6, <1>7, <1>8, <1>9, <1>10, <1>11, <1>12, <1>13,
        <1>14, <1>15 DEF StartAction, StartStep

\* stop() joins the read thread of the client it moved out.
LEMMA StopJoinsReader ==
  ASSUME ConnInv, NEW s \in Stops, StopAction(s)
  PROVE  ReaderHasItsClient'
<1> USE NoneIsNobody DEF ConnInv, MutexOfStart, Making, Stages, TypeOK, Maybe,
        ReaderHasItsClient, clientVars, worldVars, callVars
<1>1. CASE StopBegins(s)
  BY <1>1 DEF StopBegins, StopGoto
<1>2. CASE StopTakes(s)
  BY <1>2 DEF StopTakes, StopGoto
<1>3. CASE StopDropsBridge(s)
  BY <1>3 DEF StopDropsBridge, StopGoto
<1>4. CASE StopSignals(s)
  BY <1>4 DEF StopSignals, StopGoto
<1>5. CASE StopClosesPipes(s)
  BY <1>5 DEF StopClosesPipes, StopGoto
<1>6. CASE StopStopsRpc(s)
  BY <1>6 DEF StopStopsRpc, StopGoto
<1>7. CASE StopJoins(s)
  BY <1>7 DEF StopJoins, StopGoto
<1>8. CASE StopReleases(s)
  BY <1>8 DEF StopReleases, StopGoto
<1>9. QED
  BY <1>1, <1>2, <1>3, <1>4, <1>5, <1>6, <1>7, <1>8 DEF StopAction, StopStep

\* The read threads and the servers only end what runs.
LEMMA WorldKeeps ==
  ASSUME ConnInv, NEW c \in Starts, WorldAction(c)
  PROVE  ConnInv'
<1> USE DEF ConnInv, TypeOK, MutexOfStart, Making, Stages, ConnectedIsVerified,
        NoLeakedServer, ReaderHasItsClient, clientVars, worldVars, callVars
<1>1. CASE ReaderEnds(c)
  BY <1>1 DEF ReaderEnds
<1>2. CASE ReaderNotices(c)
  BY <1>2 DEF ReaderNotices
<1>3. CASE ReaderGetsEvent(c)
  BY <1>3 DEF ReaderGetsEvent
<1>4. CASE ReaderLooksUp(c)
  BY <1>4 DEF ReaderLooksUp
<1>5. CASE ChildExits(c)
  BY <1>5 DEF ChildExits
<1>6. CASE PeerHangsUp(c)
  BY <1>6 DEF PeerHangsUp
<1>7. QED
  BY <1>1, <1>2, <1>3, <1>4, <1>5, <1>6 DEF WorldAction

\* stop() says Disconnected, or nothing.
LEMMA StopVerified ==
  ASSUME ConnInv, NEW s \in Stops, StopAction(s)
  PROVE  ConnectedIsVerified'
<1> USE DEF ConnInv, TypeOK, ConnectedIsVerified, clientVars, worldVars, callVars
<1>1. CASE StopBegins(s)
  BY <1>1 DEF StopBegins, StopGoto
<1>2. CASE StopTakes(s)
  BY <1>2 DEF StopTakes, StopGoto
<1>3. CASE StopDropsBridge(s)
  BY <1>3 DEF StopDropsBridge, StopGoto
<1>4. CASE StopSignals(s)
  BY <1>4 DEF StopSignals, StopGoto
<1>5. CASE StopClosesPipes(s)
  BY <1>5 DEF StopClosesPipes, StopGoto
<1>6. CASE StopStopsRpc(s)
  BY <1>6 DEF StopStopsRpc, StopGoto
<1>7. CASE StopJoins(s)
  BY <1>7 DEF StopJoins, StopGoto
<1>8. CASE StopReleases(s)
  BY <1>8 DEF StopReleases, StopGoto
<1>9. QED
  BY <1>1, <1>2, <1>3, <1>4, <1>5, <1>6, <1>7, <1>8 DEF StopAction, StopStep

-----------------------------------------------------------------------------
(* The theorems.                                                           *)

\* Every step keeps the invariant.
LEMMA ConnStep == ConnInv /\ [Next]_vars => ConnInv'
<1> SUFFICES ASSUME ConnInv, [Next]_vars PROVE ConnInv'
  OBVIOUS
<1>1. ASSUME NEW c \in Starts, StartAction(c) PROVE ConnInv'
  BY <1>1, StartTypeOK, StartMutex, StartStages, StartVerified, StartLeaksNothing,
        StartJoins
  DEF ConnInv
<1>2. ASSUME NEW c \in Starts, WorldAction(c) PROVE ConnInv'
  BY <1>2, WorldKeeps
<1>3. ASSUME NEW s \in Stops, StopAction(s) PROVE ConnInv'
  <2>1. ConnectedIsVerified'
    BY <1>3, StopVerified
  <2>2. QED
    BY <1>3, <2>1, StopTypeOK, StopMutex, StopStages, StopLeaksNothing, StopJoinsReader
    DEF ConnInv
<1>4. CASE UNCHANGED vars
  BY <1>4
  DEF vars, clientVars, worldVars, callVars, ConnInv, TypeOK, MutexOfStart, Stages,
      ConnectedIsVerified, NoLeakedServer, ReaderHasItsClient
<1>5. QED
  BY <1>1, <1>2, <1>3, <1>4, NextActions

\* The invariant holds in every state of every behaviour.
THEOREM ConnInvariant == Spec => []ConnInv
  BY ConnInit, ConnStep, PTL DEF Spec

\* Every variable of the client, its processes and its calls stays in its type.
THEOREM ClientTyped == Spec => []TypeOK
<1>1. ConnInv => TypeOK
  BY DEF ConnInv
<1>2. QED
  BY <1>1, ConnInvariant, PTL

\* Client::state() says Connected only of the connection in rpc_ whose protocol version was
\* verified, however many start(), stop() and force_stop() calls interleave.
THEOREM Verified == Spec => []ConnectedIsVerified
<1>1. ConnInv => ConnectedIsVerified
  BY DEF ConnInv
<1>2. QED
  BY <1>1, ConnInvariant, PTL

\* The start() that makes a connection owns the client until it is done: it holds mutex_,
\* and nobody has said anything else or put another connection into rpc_.
THEOREM Owned == Spec => []StartOwnsItsConnection
<1>1. ConnInv => StartOwnsItsConnection
  <2> SUFFICES ASSUME ConnInv, NEW c \in Starts, starting[c] \in {"handshake", "configure"}
               PROVE  state = "Connecting" /\ rpc = c
    BY DEF StartOwnsItsConnection
  <2>1. holder = c /\ rpc = c
    BY DEF ConnInv, MutexOfStart, Making, Stages
  <2>2. state = "Connecting"
    BY <2>1, NoneIsNobody DEF ConnInv, MutexOfStart
  <2>3. QED
    BY <2>1, <2>2
<1>2. QED
  BY <1>1, ConnInvariant, PTL

\* A CLI that was spawned is never lost sight of, also when start() fails and is retried: it
\* is in process_, in the hands of a stop() that will signal it, or was sent a signal.
THEOREM NothingLeaks == Spec => []NoLeakedServer
<1>1. ConnInv => NoLeakedServer
  BY DEF ConnInv
<1>2. QED
  BY <1>1, ConnInvariant, PTL

\* No read thread outlives the JsonRpcClient it runs in: the client owns it, or a stop()
\* that has still to join it.
THEOREM ReadersJoined == Spec => []ReaderHasItsClient
<1>1. ConnInv => ReaderHasItsClient
  BY DEF ConnInv
<1>2. QED
  BY <1>1, ConnInvariant, PTL
-----------------------------------------------------------------------------
(* The pipes of a spawned CLI, when a client whose start failed is stopped   *)
(* before it is started again.                                               *)

\* A start() of mode "stdio" begins with a client that has nothing, and what it makes is
\* one process and one connection of the same name.
OneConnection ==
    /\ port = None
    /\ state = "Connecting" => holder # None
    /\ state = "Disconnected" => process = None /\ rpc = None
    /\ rpc # None => process = rpc
    /\ \A c \in Starts :
          /\ starting[c] \notin {"dropProcess", "announce", "dropRpc", "joinOld"}
          /\ starting[c] = "spawn" => process = None /\ rpc = None
          /\ starting[c] \in {"connect", "attach"} => process = c /\ rpc = None
          /\ starting[c] \in {"handshake", "configure"} => process = c

\* It has one owner: the client, or the stop() that took it.
OneOwner ==
    /\ \A c \in Starts : starting[c] \in {"idle", "spawn"} =>
          /\ process # c /\ pipes[c] = "none"
          /\ \A s \in Stops : taken[s].process # c
    /\ \A s \in Stops :
          /\ taken[s].rpc # None => taken[s].process = taken[s].rpc
          /\ taken[s].process # None =>
                /\ taken[s].process # process
                /\ \A r \in Stops : taken[r].process = taken[s].process => r = s

\* Its pipes go with the last step of the stop() that took it.
PipesGoLast ==
    \A c \in Starts : pipes[c] = "destroyed" =>
        /\ process # c
        /\ \A s \in Stops : taken[s].process = c => stopping[s] = "done"

PipesInv == mode = "stdio" => OneConnection /\ OneOwner /\ PipesGoLast

LEMMA PipesInit == Init => PipesInv
  BY NoneIsNobody DEF Init, PipesInv, OneConnection, OneOwner, PipesGoLast, Nothing

\* start() makes a process and a connection once.
LEMMA StartPipes ==
  ASSUME ~RetryFailed, ConnInv, PipesInv, NEW c \in Starts, StartAction(c)
  PROVE  PipesInv'
<1> USE NoneIsNobody DEF ConnInv, TypeOK, Maybe, StartPc, MutexOfStart, Making, Stages, Spawns,
        PipesInv, OneConnection, OneOwner, PipesGoLast, clientVars, worldVars, callVars
<1>1. CASE StartBegins(c)
  BY <1>1 DEF StartBegins, Goto
<1>2. CASE DropsProcess(c)
  BY <1>2 DEF DropsProcess, Goto
<1>3. CASE ProcessDropped(c)
  BY <1>3 DEF ProcessDropped, Goto
<1>4. CASE Spawn(c)
  BY <1>4 DEF Spawn, Fails, Goto
<1>5. CASE Announce(c)
  BY <1>5 DEF Announce, Goto
<1>6. CASE AnnounceFails(c)
  BY <1>6 DEF AnnounceFails, Fails, Goto
<1>7. CASE AnnounceGarbage(c)
  BY <1>7 DEF AnnounceGarbage, Fails, Goto
<1>8. CASE Connect(c)
  BY <1>8 DEF Connect, Goto
<1>9. CASE ConnectFails(c)
  BY <1>9 DEF ConnectFails, Fails, Goto
<1>10. CASE DropsRpc(c)
  BY <1>10 DEF DropsRpc, Goto
<1>11. CASE RpcDropped(c)
  BY <1>11 DEF RpcDropped, Goto
<1>12. CASE Attach(c)
  BY <1>12 DEF Attach, Goto
<1>13. CASE Handshake(c)
  BY <1>13 DEF Handshake, Goto
<1>14. CASE Configured(c)
  BY <1>14 DEF Configured, Goto
<1>15. CASE CallFails(c)
  BY <1>15 DEF CallFails, Fails, Goto
<1>16. QED
  BY <1>1, <1>2, <1>3, <1>4, <1>5, <1>6, <1>7, <1>8, <1>9, <1>10, <1>11, <1>12, <1>13,
     <1>14, <1>15
  DEF StartAction, StartStep

\* stop() takes both, and lets go of the process last.
LEMMA StopPipes ==
  ASSUME ConnInv, PipesInv, NEW s \in Stops, StopAction(s)
  PROVE  PipesInv'
<1> USE NoneIsNobody DEF ConnInv, TypeOK, Maybe, StartPc, MutexOfStart, Making, Stages,
        PipesInv, OneConnection, OneOwner, PipesGoLast, clientVars, worldVars, callVars
<1>1. CASE StopBegins(s)
  BY <1>1 DEF StopBegins, StopGoto
<1>2. CASE StopTakes(s)
  BY <1>2 DEF StopTakes, StopGoto
<1>3. CASE StopDropsBridge(s)
  BY <1>3 DEF StopDropsBridge, StopGoto
<1>4. CASE StopSignals(s)
  BY <1>4 DEF StopSignals, StopGoto
<1>5. CASE StopClosesPipes(s)
  BY <1>5 DEF StopClosesPipes, StopGoto
<1>6. CASE StopStopsRpc(s)
  BY <1>6 DEF StopStopsRpc, StopGoto
<1>7. CASE StopJoins(s)
  BY <1>7 DEF StopJoins, StopGoto
<1>8. CASE StopReleases(s)
  BY <1>8 DEF StopReleases, StopGoto
<1>9. QED
  BY <1>1, <1>2, <1>3, <1>4, <1>5, <1>6, <1>7, <1>8
  DEF StopAction, StopStep

\* The read threads and the servers leave pipes and owners alone.
LEMMA WorldPipes ==
  ASSUME PipesInv, NEW c \in Starts, WorldAction(c)
  PROVE  PipesInv'
  BY DEF WorldAction, ReaderEnds, ReaderNotices, ReaderGetsEvent, ReaderLooksUp, ChildExits,
         PeerHangsUp, PipesInv, OneConnection, OneOwner, PipesGoLast, clientVars, callVars

\* "The pipes must outlive this transport": unless a failed start() is followed by another
\* without a stop() in between, no read thread uses the pipes of a Process that is no more,
\* however start(), stop() and force_stop() overlap.
THEOREM PipesOutlive ==
  ASSUME ~RetryFailed
  PROVE  Spec => []PipesOutliveTransport
<1>1. ConnInv /\ PipesInv /\ [Next]_vars => PipesInv'
  <2> SUFFICES ASSUME ConnInv, PipesInv, [Next]_vars PROVE PipesInv'
    OBVIOUS
  <2>1. CASE UNCHANGED vars
    BY <2>1 DEF vars, clientVars, worldVars, callVars, PipesInv, OneConnection, OneOwner,
                PipesGoLast
  <2>2. QED
    BY <2>1, NextActions, StartPipes, StopPipes, WorldPipes
<1>2. ConnInv /\ PipesInv => PipesOutliveTransport
  <2> SUFFICES ASSUME ConnInv, PipesInv, mode = "stdio", NEW c \in Starts,
                      reader[c] \in {"reading", "locking"}
               PROVE  pipes[c] # "destroyed"
    BY DEF PipesOutliveTransport
  <2>1. CASE rpc = c
    BY <2>1, NoneIsNobody DEF PipesInv, OneConnection, PipesGoLast
  <2>2. CASE \E s \in Stops : taken[s].rpc = c /\ stopping[s] # "done"
    BY <2>2, NoneIsNobody DEF PipesInv, OneOwner, PipesGoLast
  <2>3. QED
    BY <2>1, <2>2 DEF ConnInv, ReaderHasItsClient
<1>3. QED
  BY <1>1, <1>2, PipesInit, ConnInvariant, PTL DEF Spec

-----------------------------------------------------------------------------
(* The client implements ClientPromise.                                    *)

\* A call is making a connection exactly while it holds mutex_.
LEMMA MakingIsHolding ==
  ASSUME TypeOK, MutexOfStart, NEW c \in Starts
  PROVE  (Outcome(c) = "making") <=> (holder = c)
<1>1. starting[c] \in StartPc
  BY DEF TypeOK
<1>2. (Outcome(c) = "making") <=> starting[c] \in Making
  BY <1>1 DEF Outcome, Making, StartPc
<1>3. QED
  BY <1>2 DEF MutexOfStart

\* Who moves one call and nothing else of it changes one outcome.
LEMMA OutcomeMoves ==
  ASSUME TypeOK, NEW c \in Starts, NEW pc, Goto(c, pc)
  PROVE  [d \in Starts |-> Outcome(d)]' =
             [[d \in Starts |-> Outcome(d)] EXCEPT
                 ![c] = CASE pc = "idle"   -> "idle"
                          [] pc = "done"   -> "returned"
                          [] pc = "failed" -> "threw"
                          [] OTHER         -> "making"]
<1>1. starting' = [starting EXCEPT ![c] = pc] /\ starting \in [Starts -> StartPc]
  BY DEF Goto, TypeOK
<1>2. \A d \in Starts : starting'[d] = IF d = c THEN pc ELSE starting[d]
  BY <1>1
<1>3. QED
  BY <1>2 DEF Outcome

\* A start() begins, goes on, succeeds or fails.
LEMMA StartRefines ==
  ASSUME ConnInv, NEW c \in Starts, StartAction(c)
  PROVE  [Promise!Next]_(Promise!vars)
<1> USE NoneIsNobody
<1>0. /\ TypeOK /\ MutexOfStart
      /\ Promise!Undisturbed <=> (holder = None)
      /\ starting[c] \in Making =>
            /\ state = "Connecting" /\ Outcome(c) = "making"
  <2>1. TypeOK /\ MutexOfStart /\ \A d \in Starts : (Outcome(d) = "making") <=> (holder = d)
    BY MakingIsHolding DEF ConnInv
  <2>2. holder \in Starts \cup {None}
    BY <2>1 DEF TypeOK, Maybe
  <2>3. QED
    BY <2>1, <2>2 DEF Promise!Undisturbed, MutexOfStart
<1>1. ASSUME NEW pc \in Making, Goto(c, pc), starting[c] \in Making, UNCHANGED state
      PROVE  [Promise!Next]_(Promise!vars)
  <2>1. [d \in Starts |-> Outcome(d)]' =
            [[d \in Starts |-> Outcome(d)] EXCEPT ![c] = "making"]
    BY <1>0, <1>1, OutcomeMoves DEF Making
  <2>2. UNCHANGED [d \in Starts |-> Outcome(d)]
    BY <1>0, <1>1, <2>1
  <2>3. QED
    BY <1>0, <1>1, <2>2 DEF Promise!vars
<1>2. ASSUME Fails(c), starting[c] \in Making
      PROVE  [Promise!Next]_(Promise!vars)
  <2>1. [d \in Starts |-> Outcome(d)]' =
            [[d \in Starts |-> Outcome(d)] EXCEPT ![c] = "threw"]
    BY <1>0, <1>2, OutcomeMoves DEF Fails
  <2>2. Promise!Fail(c)
    BY <1>0, <1>2, <2>1 DEF Fails, Promise!Fail
  <2>3. QED
    BY <2>2 DEF Promise!Next
<1>3. CASE StartBegins(c)
  <2>1. starting[c] = "idle" /\ holder = None /\ Outcome(c) = "idle"
    BY <1>3 DEF StartBegins, Outcome
  <2>2. CASE state = "Connected" /\ Goto(c, "done") /\ UNCHANGED <<state, rpc>>
    <3>1. [d \in Starts |-> Outcome(d)]' =
              [[d \in Starts |-> Outcome(d)] EXCEPT ![c] = "returned"]
      BY <1>0, <2>2, OutcomeMoves
    <3>2. Promise!FindsConnected(c)
      BY <2>1, <2>2, <3>1 DEF Promise!FindsConnected
    <3>3. QED
      BY <3>2 DEF Promise!Next
  <2>3. CASE /\ state # "Connected" /\ state' = "Connecting"
             /\ \E pc \in Making : Goto(c, pc)
    <3>1. [d \in Starts |-> Outcome(d)]' =
              [[d \in Starts |-> Outcome(d)] EXCEPT ![c] = "making"]
      <4>1. PICK pc \in Making : Goto(c, pc)
        BY <2>3
      <4>2. QED
        BY <1>0, <4>1, OutcomeMoves DEF Making
    <3>2. Promise!Begin(c)
      BY <1>0, <2>1, <2>3, <3>1 DEF Promise!Begin
    <3>3. QED
      BY <3>2 DEF Promise!Next
  <2>4. QED
    BY <1>3, <2>2, <2>3 DEF StartBegins, Making
<1>4. CASE Configured(c)
  <2>1. starting[c] = "configure" /\ rpc = c /\ UNCHANGED rpc
    BY <1>4 DEF Configured, ConnInv, Stages
  <2>2. [d \in Starts |-> Outcome(d)]' =
            [[d \in Starts |-> Outcome(d)] EXCEPT ![c] = "returned"]
    BY <1>0, <1>4, OutcomeMoves DEF Configured
  <2>3. Promise!Succeed(c)
    BY <1>0, <1>4, <2>1, <2>2 DEF Configured, Making, Promise!Succeed
  <2>4. QED
    BY <2>3 DEF Promise!Next
<1>5. CASE Spawn(c)
  BY <1>1, <1>2, <1>5 DEF Spawn, Making
<1>6. CASE AnnounceFails(c) \/ AnnounceGarbage(c) \/ ConnectFails(c) \/ CallFails(c)
  BY <1>2, <1>6 DEF AnnounceFails, AnnounceGarbage, ConnectFails, CallFails, Making
<1>7. CASE DropsProcess(c) \/ ProcessDropped(c) \/ Announce(c) \/ Connect(c) \/ DropsRpc(c)
           \/ RpcDropped(c) \/ Attach(c) \/ Handshake(c)
  <2>1. UNCHANGED state /\ starting[c] \in Making
    BY <1>7 DEF DropsProcess, ProcessDropped, Announce, Connect, DropsRpc, RpcDropped,
                Attach, Handshake, clientVars, Making
  <2>2. \E pc \in Making : Goto(c, pc)
    BY <1>7 DEF DropsProcess, ProcessDropped, Announce, Connect, DropsRpc, RpcDropped,
                Attach, Handshake, Making
  <2>3. QED
    BY <1>1, <2>1, <2>2
<1>8. QED
  BY <1>3, <1>4, <1>5, <1>6, <1>7 DEF StartAction, StartStep

\* The client is disconnected when a stop() takes everything out of it, and by no other
\* step of stop().
LEMMA StopRefines ==
  ASSUME ConnInv, NEW s \in Stops, StopAction(s)
  PROVE  [Promise!Next]_(Promise!vars)
<1>1. UNCHANGED starting /\ UNCHANGED [d \in Starts |-> Outcome(d)]
  <2>1. UNCHANGED starting
    BY DEF StopAction, StopBegins, StopStep, StopTakes, StopDropsBridge, StopSignals,
           StopClosesPipes, StopStopsRpc, StopJoins, StopReleases, callVars
  <2>2. QED
    BY <2>1 DEF Outcome
<1>2. CASE StopTakes(s)
  <2>1. Promise!Undisturbed
    BY <1>2, MakingIsHolding, NoneIsNobody DEF StopTakes, ConnInv, Promise!Undisturbed
  <2>2. Promise!Disconnect
    BY <1>1, <1>2, <2>1 DEF StopTakes, Promise!Disconnect
  <2>3. QED
    BY <2>2 DEF Promise!Next
<1>3. CASE ~StopTakes(s)
  <2>1. UNCHANGED <<state, rpc>>
    BY <1>3 DEF StopAction, StopBegins, StopStep, StopDropsBridge, StopSignals,
                StopClosesPipes, StopStopsRpc, StopJoins, StopReleases, clientVars
  <2>2. QED
    BY <1>1, <2>1 DEF Promise!vars
<1>4. QED
  BY <1>2, <1>3

\* However calls of start(), stop() and force_stop() overlap, each takes effect as if it
\* were alone, and Connected means the connection of the last successful start().
THEOREM KeepsItsPromise == Spec => ImplementsPromise
<1>1. Init => Promise!Init
  BY DEF Init, Promise!Init, Outcome
<1>2. ConnInv /\ [Next]_vars => [Promise!Next]_(Promise!vars)
  <2> SUFFICES ASSUME ConnInv, [Next]_vars
               PROVE  [Promise!Next]_(Promise!vars)
    OBVIOUS
  <2>1. CASE UNCHANGED vars
    BY <2>1 DEF vars, clientVars, callVars, Outcome, Promise!vars
  <2>2. ASSUME NEW c \in Starts, WorldAction(c)
        PROVE  [Promise!Next]_(Promise!vars)
    <3>1. UNCHANGED <<state, rpc, starting>>
      BY <2>2 DEF WorldAction, ReaderEnds, ReaderNotices, ReaderGetsEvent, ReaderLooksUp,
                  ChildExits, PeerHangsUp, clientVars, callVars
    <3>2. QED
      BY <3>1 DEF Outcome, Promise!vars
  <2>3. QED
    BY <2>1, <2>2, NextActions, StartRefines, StopRefines
<1>3. QED
  BY <1>1, <1>2, ConnInvariant, PTL DEF Spec, ImplementsPromise, Promise!Spec
=============================================================================
