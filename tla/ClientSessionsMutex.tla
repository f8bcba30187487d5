------------------------- MODULE ClientSessionsMutex -------------------------
(***************************************************************************)
(* Theorems about who waits for whom in ClientSessions: a thread that runs *)
(* ~Session with mutex_ held, the background tasks it waits for, the read  *)
(* threads that take their answers, and stop(), which joins those.  Nobody *)
(* waits on a connection that no thread will end, and mutex_ is let go of. *)
(***************************************************************************)
EXTENDS ClientSessionsProofs

\* A create that may be given another id than it asks for asks for one that nobody else
\* is given: the server has no events of it.
RenamedIds ==
    \A c \in Creates :
        Offered[c] \subseteq {Asked[c]} \/ \A m \in Makers \ {c} : Asked[c] \notin Offered[m]

\* The server has no events of the id that a create asks for.
Unserved(c) == \A n \in Conns : <<Asked[c], n>> \notin served

-----------------------------------------------------------------------------
(* The inductive invariant.                                                *)

\* No read thread has the session in hand and none has begun a task of it.
Untouched(c) ==
    /\ \A t \in Tasks : owner[t] # c
    /\ \A n \in Conns : reader[n].session # c

\* The call has not put its session into the map yet.
BeforeMap(c) ==
    call[c] \in IF c \in Creates THEN {"idle", "register"}
                                 ELSE {"idle", "call", "calling", "acted", "register"}

\* It may be given another id, or has been and has not put that into the map yet.
MayRename(c) ==
    /\ ~(Offered[c] \subseteq {Asked[c]})
    /\ call[c] \in Early \/ (call[c] \in {"acted", "rename"} /\ given[c] # Asked[c])

\* A session that gets into the map has no task then.
NewToMap ==
    /\ \A c \in Makers : BeforeMap(c) => Untouched(c)
    /\ \A c \in Creates :
          /\ call[c] \in {"acted", "rename"} => given[c] \in Offered[c]
          /\ call[c] = "rename" => given[c] # Asked[c]
          /\ MayRename(c) =>
                /\ Untouched(c) /\ Unserved(c) /\ idOf[c] = Asked[c]
                /\ \A n \in Conns : reader[n].at = "looking" => reader[n].id # Asked[c]

\* A connection that runs is rpc_ or has been moved out by one stop(), which is where
\* running_ says; a request is on a connection that was made.
Closing(s) == stop[s] \in {"close", "join"}

RpcRuns ==
    /\ rpc # 0 => connected /\ running[rpc] = "up"
    /\ \A s \in Stops : Closing(s) =>
          /\ stopRpc[s] \in Conns \ {rpc}
          /\ running[stopRpc[s]] = IF stop[s] = "close" THEN "up" ELSE "stopping"
          /\ \A r \in Stops : Closing(r) /\ stopRpc[r] = stopRpc[s] => r = s
    /\ \A n \in Conns : running[n] \in {"up", "stopping"} =>
          n = rpc \/ \E s \in Stops : Closing(s) /\ stopRpc[s] = n
    /\ \A n \in Awaited : n \in Conns /\ running[n] # "none"

\* Who holds mutex_ beyond one step is in ~Session, or a stop() that has cleared the map.
MutexHolder ==
    /\ holder \in Calls => /\ dying[holder] # {}
                           /\ call[holder] \in {"call", "interest", "unwind", "done"}
    /\ \A s \in Stops : stop[s] = "clear" <=> holder = s
    /\ holder \in Stops => InMap = {}

\* The tasks of the sessions in the map, and of those that go under mutex_, wait for rpc_.
TasksWaitForRpc ==
    \A t \in Tasks :
        task[t] = "answering" =>
            /\ taskRpc[t] \in Conns
            /\ owner[t] \in InMap => taskRpc[t] = rpc
            /\ holder # NoOne /\ owner[t] \in dying[holder] => taskRpc[t] = rpc

MutexInv == NewToMap /\ RpcRuns /\ MutexHolder /\ TasksWaitForRpc

LEMMA MutexInit == Init => MutexInv
<1> SUFFICES ASSUME Init PROVE MutexInv
    OBVIOUS
<1>1. /\ NoOne \notin Calls \cup Stops /\ MaxConn \in Nat \ {0}
      /\ \A n \in Conns : reader[n].session = NoOne /\ reader[n].at = "reading"
    BY Constants DEF Init, Idle
<1>2. NewToMap
  <2>1. \A c \in Makers : c \in Calls /\ c # NoOne /\ Untouched(c)
    BY <1>1 DEF Init, Untouched, Calls
  <2> QED BY <1>1, <2>1 DEF Init, NewToMap, Unserved, Makers
<1>3. RpcRuns
    BY <1>1 DEF Init, RpcRuns, Closing, Awaited, Conns
<1>4. MutexHolder /\ TasksWaitForRpc
    BY <1>1 DEF Init, MutexHolder, TasksWaitForRpc
<1> QED BY <1>2, <1>3, <1>4 DEF MutexInv

-----------------------------------------------------------------------------
(* Steps, by what they leave alone.                                        *)

CallAction(c) == Begins(c) \/ ServerActs(c) \/ CallStep(c)
ReaderAction(n) == ReaderStep(n) \/ \E t \in Tasks \cup {NoOne} : Reads(n, t)
StopAction(s) == StopBegins(s) \/ StopStep(s)

LEMMA StepKinds ==
    ASSUME [Next]_vars
    PROVE  \/ \E c \in Calls : CallAction(c)
           \/ \E n \in Conns : ReaderAction(n)
           \/ \E t \in Tasks : TaskStep(t)
           \/ \E s \in Stops : StopAction(s)
           \/ \E th \in Threads : Destroyed(th)
           \/ \E c \in Makers : UserDrops(c)
           \/ \E n \in Conns \ {1} : Starts(n)
           \/ UNCHANGED vars
BY DEF Next, Steps, CallAction, ReaderAction, StopAction

LEMMA ThreadsDiffer ==
    /\ Calls \cap Stops = {} /\ NoOne \notin Calls \cup Stops /\ User \notin Calls \cup Stops
    /\ \A n \in Conns : n \notin Calls \cup Stops
    /\ Calls \subseteq Threads /\ Stops \subseteq Threads /\ Makers \subseteq Calls
BY SessionAssumption DEF SessionAssumption, Threads, Calls

\* A thread that lets go of a session destroys in its own name.
LEMMA OthersDying ==
    ASSUME TypeOK, NEW th \in Threads, dying' = dying \/ Drops(th)
    PROVE  \A x \in Threads : x # th => dying'[x] = dying[x]
BY DEF Drops, TypeOK

\* A read thread that goes round has nothing in hand.
LEMMA RoundIsEmpty ==
    ASSUME TypeOK, NEW n \in Conns, GoesRound(n)
    PROVE  reader'[n].at \in {"reading", "ended"} /\ reader'[n].session = NoOne
BY DEF GoesRound, Idle, TypeOK

\* One that finds the session goes on with it.
LEMMA LooksUpKeeps ==
    ASSUME TypeOK, NEW n \in Conns, LooksUp(n), sessions[reader[n].id] # NoOne
    PROVE  reader'[n].at = "dispatching" /\ reader'[n].session = sessions[reader[n].id]
BY DEF LooksUp, TypeOK

LEMMA CallFrame ==
    ASSUME NEW c \in Calls, CallAction(c)
    PROVE  UNCHANGED <<connected, rpc, running, reader, taskVars, stopVars, dead>>
BY DEF CallAction, Begins, ServerActs, CallStep, Registers, Asks, Answered, Renames, Refused,
       Erases, Unwinds, AsksInterest, InterestAnswered, InterestRefused, connVars

LEMMA ReaderFrame ==
    ASSUME NEW n \in Conns, ReaderAction(n)
    PROVE  UNCHANGED <<connVars, mapVars, callVars, taskRpc, stopVars, served>>
BY DEF ReaderAction, ReaderStep, Reads, LooksUp, Dispatches, ReaderEnds, taskVars

LEMMA TaskFrame ==
    ASSUME NEW t \in Tasks, TaskStep(t)
    PROVE  UNCHANGED <<connVars, reader, mapVars, callVars, owner, dying, stopVars, served>>
BY DEF TaskStep, HandlerReturns, Answers, AnswerTaken, AnswerRefused

LEMMA StopFrame ==
    ASSUME NEW s \in Stops, StopAction(s)
    PROVE  UNCHANGED <<reader, idOf, user, callVars, taskVars>> /\ served' \subseteq served
BY DEF StopAction, StopBegins, StopStep, StopDestroys, StopDestroyed, StopClears, StopTakes,
       StopCloses, StopJoins, StopReleases, mapVars

-----------------------------------------------------------------------------
(* A session has no task before it is in the map.                          *)

LEMMA NewByCall ==
    ASSUME RenamedIds, SessionInv, NewToMap, NEW x \in Calls, CallAction(x)
    PROVE  NewToMap'
<1> USE DEF connVars, mapVars, callVars, taskVars, stopVars, CallGoto
<1>0. /\ TypeOK /\ Kinds /\ Makers \subseteq Calls /\ AllDisjoint
      /\ \A d \in Calls : d # x => call'[d] = call[d]
      /\ call \in [Calls -> CallPc]
    BY CallMoves, ThreadsDiffer, Constants DEF SessionInv, CallAction
<1>1. \A c \in Makers : Untouched(c)' <=> Untouched(c)
    BY CallFrame DEF Untouched, taskVars
<1>2. ASSUME NEW c \in Makers, BeforeMap(c)'
      PROVE  BeforeMap(c)
  <2>1. CASE c # x
    BY <1>0, <1>2, <2>1 DEF BeforeMap
  <2>2. CASE c = x
    BY <1>0, <1>2, <2>2
       DEF CallAction, Begins, ServerActs, CallStep, Registers, Asks, Sends, Answered, Renames,
           Refused, Erases, Unwinds, AsksInterest, InterestAnswered, InterestRefused,
           AfterAnswer, AfterRegister, BeforeMap, Kinds, AllDisjoint, Makers
  <2> QED BY <2>1, <2>2
<1>3. \A c \in Makers : c # x => given'[c] = given[c] /\ idOf'[c] = idOf[c]
    BY <1>0 DEF CallAction, Begins, ServerActs, CallStep, Registers, Asks, Answered, Renames,
                Refused, Erases, Unwinds, AsksInterest, InterestAnswered, InterestRefused,
                TypeOK
<1>4. ASSUME NEW c \in Creates
      PROVE  /\ call'[c] \in {"acted", "rename"} => given'[c] \in Offered[c]
             /\ call'[c] = "rename" => given'[c] # Asked[c]
  <2>0. c \in Makers /\ c \notin Resumes /\ c \notin Deletes
    BY <1>0 DEF AllDisjoint, Makers
  <2>1. CASE c # x
    BY <1>0, <1>3, <2>0, <2>1 DEF NewToMap
  <2>2. CASE c = x /\ ServerActs(x)
    BY <1>0, <2>0, <2>2 DEF ServerActs, TypeOK
  <2>3. CASE c = x /\ ~ServerActs(x)
    <3>1. given' = given
        BY <2>3 DEF CallAction, Begins, CallStep, Registers, Asks, Answered, Renames, Refused,
                    Erases, Unwinds, AsksInterest, InterestAnswered, InterestRefused
    <3>2. call'[c] \in {"acted", "rename"} =>
              call[c] = "acted" /\ (call'[c] = "rename" => given[c] # Asked[c])
        BY <1>0, <2>0, <2>3
           DEF CallAction, Begins, CallStep, Registers, Asks, Sends, Answered, Renames, Refused,
               Erases, Unwinds, AsksInterest, InterestAnswered, InterestRefused, AfterAnswer,
               AfterRegister
    <3> QED BY <3>1, <3>2 DEF NewToMap
  <2> QED BY <2>1, <2>2, <2>3
<1>5. ASSUME NEW c \in Creates, MayRename(c)'
      PROVE  MayRename(c) /\ idOf'[c] = Asked[c] /\ Unserved(c)'
  <2>0. c \in Makers /\ c \notin Resumes /\ c \notin Deletes
    BY <1>0 DEF AllDisjoint, Makers
  <2>1. MayRename(c)
    <3>1. CASE c # x
        BY <1>0, <1>3, <1>5, <2>0, <3>1 DEF MayRename
    <3>2. CASE c = x
        BY <1>0, <1>5, <2>0, <3>2
           DEF CallAction, Begins, ServerActs, CallStep, Registers, Asks, Sends, Answered,
               Renames, Refused, Erases, Unwinds, AsksInterest, InterestAnswered,
               InterestRefused, AfterAnswer, AfterRegister, MayRename, Early
    <3> QED BY <3>1, <3>2
  <2>2. idOf[c] = Asked[c] /\ Unserved(c)
    BY <2>1 DEF NewToMap
  <2>3. idOf'[c] = Asked[c]
    <3>1. CASE c # x
        BY <1>3, <2>0, <2>2, <3>1
    <3>2. CASE c = x /\ Renames(x)
        BY <1>0, <1>5, <2>0, <3>2 DEF Renames, MayRename, Early
    <3>3. CASE c = x /\ ~Renames(x)
        BY <1>0, <2>0, <2>2, <3>3
           DEF CallAction, Begins, ServerActs, CallStep, Registers, Asks, Answered, Refused,
               Erases, Unwinds, AsksInterest, InterestAnswered, InterestRefused, TypeOK
    <3> QED BY <3>1, <3>2, <3>3
  <2>4. Unserved(c)'
    <3>1. CASE ~ServerActs(x)
        BY <2>2, <3>1
           DEF CallAction, Begins, CallStep, Registers, Asks, Answered, Renames, Refused,
               Erases, Unwinds, AsksInterest, InterestAnswered, InterestRefused, Unserved
    <3>2. CASE ServerActs(x) /\ x \in Deletes
        BY <1>0, <2>2, <3>2 DEF ServerActs, Unserved, AllDisjoint
    <3>3. CASE ServerActs(x) /\ x \in Makers
      <4>1. PICK i \in Offered[x] : /\ given' = [given EXCEPT ![x] = i]
                                    /\ served' = served \cup {<<i, callRpc[x]>>}
        BY <1>0, <3>3 DEF ServerActs, AllDisjoint
      <4>2. i # Asked[c]
        <5>1. CASE x = c
            BY <1>0, <1>5, <3>3, <4>1, <5>1 DEF ServerActs, MayRename, Early, TypeOK
        <5>2. CASE x # c
            BY <2>1, <3>3, <4>1, <5>2 DEF RenamedIds, MayRename
        <5> QED BY <5>1, <5>2
      <4> QED BY <2>2, <4>1, <4>2 DEF Unserved
    <3> QED BY <3>1, <3>2, <3>3 DEF Calls
  <2> QED BY <2>1, <2>3, <2>4
<1>6. reader' = reader
    BY CallFrame
<1> QED BY <1>1, <1>2, <1>4, <1>5, <1>6 DEF NewToMap, Makers


\* A read thread finds only sessions that are in the map under the id it looks for.
LEMMA NewByReader ==
    ASSUME SessionInv, NewToMap, NEW n \in Conns, ReaderAction(n)
    PROVE  NewToMap'
<1> USE DEF connVars, mapVars, callVars, taskVars, stopVars
<1>0. /\ TypeOK /\ Hands /\ Named /\ Makers \subseteq Calls /\ NoOne \notin Makers
      /\ UNCHANGED <<call, given, idOf, served>>
      /\ \A m \in Conns : m # n => reader'[m] = reader[m]
  <2>1. \A m \in Conns : m # n => reader'[m] = reader[m]
    BY DEF SessionInv, TypeOK, ReaderAction, ReaderStep, Reads, LooksUp, Dispatches,
           ReaderEnds, GoesRound
  <2> QED BY <2>1, ThreadsDiffer, ReaderFrame DEF SessionInv
<1>1. ASSUME NEW c \in Makers, Untouched(c),
             reader[n].at = "looking" => sessions[reader[n].id] # c
      PROVE  Untouched(c)'
  <2>1. reader'[n].session # c
    <3>1. reader[n].session # c
        BY <1>1 DEF Untouched
    <3>2. CASE LooksUp(n)
      <4>1. CASE sessions[reader[n].id] = NoOne
        BY <1>0, <3>2, <4>1, RoundIsEmpty DEF LooksUp
      <4>2. CASE sessions[reader[n].id] # NoOne
        <5> QED BY <1>0, <1>1, <3>2, <4>2, LooksUpKeeps DEF LooksUp
      <4> QED BY <4>1, <4>2
    <3>3. CASE Dispatches(n)
        BY <1>0, <3>3, RoundIsEmpty DEF Dispatches
    <3>4. CASE ReaderEnds(n)
        BY <1>0, <3>1, <3>4 DEF ReaderEnds, TypeOK
    <3>5. CASE \E t \in Tasks \cup {NoOne} : Reads(n, t)
        BY <1>0, <3>5 DEF Reads, TypeOK
    <3> QED BY <3>2, <3>3, <3>4, <3>5 DEF ReaderAction, ReaderStep
  <2>2. \A t \in Tasks : owner'[t] # c
    <3>1. \/ owner' = owner
          \/ owner' = [owner EXCEPT ![reader[n].task] = reader[n].session]
        BY DEF ReaderAction, ReaderStep, Reads, LooksUp, Dispatches, ReaderEnds
    <3> QED BY <1>0, <1>1, <3>1 DEF Untouched, TypeOK
  <2> QED BY <1>0, <1>1, <2>1, <2>2 DEF Untouched
<1>2. ASSUME NEW c \in Makers, BeforeMap(c)
      PROVE  Untouched(c)'
  <2>1. \A i \in Ids : sessions[i] # c
    BY <1>0, <1>2 DEF Named, Listed, BeforeMap
  <2> QED BY <1>0, <1>1, <1>2, <2>1 DEF NewToMap, Hands
<1>3. ASSUME NEW c \in Creates, MayRename(c)
      PROVE  /\ Untouched(c)'
             /\ \A m \in Conns : reader'[m].at = "looking" => reader'[m].id # Asked[c]
  <2>1. /\ Unserved(c) /\ idOf[c] = Asked[c] /\ Untouched(c) /\ c \in Makers
        /\ \A m \in Conns : reader[m].at = "looking" => reader[m].id # Asked[c]
    BY <1>3 DEF NewToMap, Makers
  <2>2. Untouched(c)'
    BY <1>0, <1>1, <2>1 DEF Named, Hands
  <2>3. reader'[n].at = "looking" => reader'[n].id # Asked[c]
    <3>1. CASE \E t \in Tasks \cup {NoOne} : Reads(n, t)
        BY <1>0, <2>1, <3>1 DEF Reads, Unserved, TypeOK
    <3>2. CASE Dispatches(n) \/ (LooksUp(n) /\ sessions[reader[n].id] = NoOne)
        BY <1>0, <3>2, RoundIsEmpty DEF Dispatches, LooksUp
    <3>3. CASE LooksUp(n) /\ sessions[reader[n].id] # NoOne
        BY <1>0, <3>3, LooksUpKeeps
    <3>4. CASE ReaderEnds(n)
        BY <1>0, <3>4 DEF ReaderEnds, TypeOK
    <3> QED BY <3>1, <3>2, <3>3, <3>4 DEF ReaderAction, ReaderStep
  <2> QED BY <1>0, <2>1, <2>2, <2>3
<1> QED BY <1>0, <1>2, <1>3 DEF NewToMap, BeforeMap, MayRename, Unserved

LEMMA NewStep ==
    ASSUME RenamedIds, SessionInv, NewToMap, [Next]_vars
    PROVE  NewToMap'
<1>1. CASE \/ \E t \in Tasks : TaskStep(t)
           \/ \E s \in Stops : StopAction(s)
           \/ \E th \in Threads : Destroyed(th)
           \/ \E c \in Makers : UserDrops(c)
           \/ \E n \in Conns \ {1} : Starts(n)
           \/ UNCHANGED vars
  <2> USE DEF connVars, mapVars, callVars, taskVars, stopVars
  <2>1. UNCHANGED <<reader, owner, call, given, idOf>> /\ served' \subseteq served
    BY <1>1, TaskFrame, StopFrame DEF Destroyed, UserDrops, Starts, vars
  <2> QED BY <2>1 DEF NewToMap, BeforeMap, MayRename, Untouched, Unserved
<1> QED BY <1>1, StepKinds, NewByCall, NewByReader

-----------------------------------------------------------------------------
(* rpc_ and its threads.                                                   *)

\* A new request is on rpc_, which runs; the others stay where they are.
LEMMA AwaitedStep ==
    ASSUME TypeOK, RpcRuns, [Next]_vars
    PROVE  \A n \in Awaited' : n \in Awaited \/ (n = rpc /\ n \in Conns /\ running[n] = "up")
<1> USE DEF connVars, mapVars, callVars, taskVars, stopVars, CallGoto, TaskGoto, StopGoto
<1>0. (rpc # 0 => rpc \in Conns) /\ 0 \notin Conns
    BY Constants DEF TypeOK, Conns
<1>1. ASSUME NEW c \in Calls, CallAction(c)
      PROVE  \A n \in Awaited' : n \in Awaited \/ (n = rpc /\ n \in Conns /\ running[n] = "up")
  <2>1. UNCHANGED <<task, taskRpc, stop, stopRpc>>
    BY <1>1, CallFrame
  <2>2. \A d \in Calls : d # c => call'[d] = call[d] /\ callRpc'[d] = callRpc[d]
    BY <1>1 DEF CallAction, Begins, ServerActs, CallStep, Registers, Asks, Sends, Answered,
                Renames, Refused, Erases, Unwinds, AsksInterest, InterestAnswered,
                InterestRefused, TypeOK
  <2>3. call'[c] \in {"calling", "acted", "interesting"} =>
            \/ call[c] \in {"calling", "acted", "interesting"} /\ callRpc'[c] = callRpc[c]
            \/ callRpc'[c] = rpc /\ rpc # 0 /\ running[rpc] = "up"
    <3>1. CASE Asks(c) \/ AsksInterest(c)
        BY <3>1 DEF Asks, AsksInterest, Sends, TypeOK
    <3>2. CASE ~Asks(c) /\ ~AsksInterest(c)
        BY <1>1, <3>2
           DEF CallAction, Begins, ServerActs, CallStep, Registers, Answered, Renames,
               Refused, Erases, Unwinds, InterestAnswered, InterestRefused, AfterAnswer,
               AfterRegister, TypeOK
    <3> QED BY <3>1, <3>2
  <2> QED BY <1>0, <2>1, <2>2, <2>3 DEF Awaited
<1>2. ASSUME NEW t \in Tasks, TaskStep(t)
      PROVE  \A n \in Awaited' : n \in Awaited \/ (n = rpc /\ n \in Conns /\ running[n] = "up")
  <2>1. UNCHANGED <<call, callRpc, stop, stopRpc>>
    BY <1>2, TaskFrame
  <2>2. \A u \in Tasks : u # t => task'[u] = task[u] /\ taskRpc'[u] = taskRpc[u]
    BY <1>2 DEF TaskStep, HandlerReturns, Answers, AnswerTaken, AnswerRefused, AnswerFails,
                TypeOK
  <2>3. task'[t] = "answering" => taskRpc'[t] = rpc /\ rpc # 0 /\ running[rpc] = "up"
    BY <1>2 DEF TaskStep, HandlerReturns, Answers, AnswerTaken, AnswerRefused, AnswerFails,
                TypeOK
  <2> QED BY <1>0, <2>1, <2>2, <2>3 DEF Awaited
<1>3. ASSUME NEW s \in Stops, StopAction(s)
      PROVE  \A n \in Awaited' : n \in Awaited \/ (n = rpc /\ n \in Conns /\ running[n] = "up")
  <2>1. UNCHANGED <<call, callRpc, task, taskRpc>>
    BY <1>3, StopFrame
  <2>2. \A r \in Stops : r # s => stop'[r] = stop[r] /\ stopRpc'[r] = stopRpc[r]
    BY <1>3 DEF StopAction, StopBegins, StopStep, StopDestroys, StopDestroyed, StopClears,
                StopTakes, StopCloses, StopJoins, StopReleases, TypeOK
  <2>3. stop'[s] = "destroying" => stopRpc'[s] = rpc /\ rpc # 0 /\ running[rpc] = "up"
    BY <1>3 DEF StopAction, StopBegins, StopStep, StopDestroys, StopDestroyed, StopClears,
                StopTakes, StopCloses, StopJoins, StopReleases, TypeOK
  <2> QED BY <1>0, <2>1, <2>2, <2>3 DEF Awaited
<1>4. ASSUME NEW n \in Conns, ReaderAction(n)
      PROVE  Awaited' \subseteq Awaited
  <2>1. UNCHANGED <<call, callRpc, taskRpc, stop, stopRpc>>
    BY <1>4, ReaderFrame
  <2>2. \A u \in Tasks : task'[u] = "answering" => task[u] = "answering"
    BY <1>4 DEF ReaderAction, ReaderStep, Reads, LooksUp, Dispatches, ReaderEnds, TypeOK
  <2> QED BY <2>1, <2>2 DEF Awaited
<1>5. CASE \/ \E th \in Threads : Destroyed(th)
           \/ \E c \in Makers : UserDrops(c)
           \/ \E n \in Conns \ {1} : Starts(n)
           \/ UNCHANGED vars
    BY <1>5 DEF Awaited, Destroyed, UserDrops, Starts, vars
<1> QED BY <1>1, <1>2, <1>3, <1>4, <1>5, StepKinds

LEMMA RpcStep ==
    ASSUME TypeOK, RpcRuns, [Next]_vars
    PROVE  RpcRuns'
<1> USE DEF connVars, mapVars, callVars, taskVars, stopVars
<1>0. /\ rpc # 0 => rpc \in Conns
      /\ 0 \notin Conns
      /\ \A n \in Awaited' : n \in Conns /\ running[n] # "none"
  <2>1. \A n \in Awaited' : n \in Conns /\ running[n] # "none"
    BY AwaitedStep DEF RpcRuns
  <2> QED BY <2>1, Constants DEF TypeOK, Conns
<1>1. CASE \/ \E c \in Calls : CallAction(c)
           \/ \E n \in Conns : ReaderAction(n)
           \/ \E t \in Tasks : TaskStep(t)
           \/ \E th \in Threads : Destroyed(th)
           \/ \E c \in Makers : UserDrops(c)
           \/ UNCHANGED vars
  <2>1. UNCHANGED <<connected, rpc, running, stop, stopRpc>>
    BY <1>1, CallFrame, ReaderFrame, TaskFrame DEF Destroyed, UserDrops, vars
  <2> QED BY <1>0, <2>1 DEF RpcRuns, Closing
<1>2. ASSUME NEW n \in Conns \ {1}, Starts(n)
      PROVE  RpcRuns'
  <2>1. /\ rpc' = n /\ connected' = TRUE /\ running' = [running EXCEPT ![n] = "up"]
        /\ running[n] = "none" /\ ~connected /\ UNCHANGED <<stop, stopRpc>>
    BY <1>2 DEF Starts
  <2>2. rpc = 0
    BY <2>1 DEF RpcRuns
  <2>3. running'[n] = "up" /\ \A m \in Conns : m # n => running'[m] = running[m]
    BY <2>1 DEF TypeOK
  <2>4. \A s \in Stops : Closing(s) => stopRpc[s] # n
    BY <2>1 DEF RpcRuns
  <2> QED BY <1>0, <2>1, <2>2, <2>3, <2>4 DEF RpcRuns, Closing
<1>3. ASSUME NEW s \in Stops, StopAction(s)
      PROVE  RpcRuns'
  <2>1. CASE StopTakes(s)
    <3>1. /\ rpc' = 0 /\ UNCHANGED running /\ stopRpc' = [stopRpc EXCEPT ![s] = rpc]
          /\ stop' = [stop EXCEPT ![s] = IF rpc = 0 THEN "release" ELSE "close"]
          /\ ~Closing(s)
        BY <2>1 DEF StopTakes, StopGoto, Closing
    <3>2. /\ stopRpc'[s] = rpc /\ stop'[s] = IF rpc = 0 THEN "release" ELSE "close"
          /\ \A r \in Stops : r # s => stop'[r] = stop[r] /\ stopRpc'[r] = stopRpc[r]
        BY <3>1 DEF TypeOK
    <3>3. \A r \in Stops : Closing(r)' => (r = s /\ rpc # 0) \/ (r # s /\ Closing(r))
      <4> SUFFICES ASSUME NEW r \in Stops, stop'[r] \in {"close", "join"}
                   PROVE  (r = s /\ rpc # 0) \/ (r # s /\ Closing(r))
        BY DEF Closing
      <4>1. CASE r = s
        BY <3>2, <4>1
      <4>2. CASE r # s
        BY <3>2, <4>2 DEF Closing
      <4> QED BY <4>1, <4>2
    <3>4. \A r \in Stops : Closing(r)' =>
              /\ stopRpc'[r] \in Conns \ {rpc'}
              /\ running'[stopRpc'[r]] = IF stop'[r] = "close" THEN "up" ELSE "stopping"
        BY <1>0, <3>1, <3>2, <3>3 DEF RpcRuns
    <3>5. \A r, q \in Stops : Closing(r)' /\ Closing(q)' /\ stopRpc'[q] = stopRpc'[r] => q = r
        BY <3>2, <3>3 DEF RpcRuns
    <3>6. \A n \in Conns : running[n] \in {"up", "stopping"} =>
              \E r \in Stops : Closing(r)' /\ stopRpc'[r] = n
        BY <1>0, <3>1, <3>2 DEF RpcRuns, Closing
    <3> QED BY <1>0, <3>1, <3>4, <3>5, <3>6 DEF RpcRuns
  <2>2. CASE StopCloses(s) \/ StopJoins(s)
    <3> DEFINE closes == StopCloses(s)
    <3>1. /\ Closing(s) /\ UNCHANGED <<connected, rpc, stopRpc>>
          /\ \A r \in Stops : r # s => stop'[r] = stop[r]
          /\ running' = [running EXCEPT ![stopRpc[s]] = IF stop[s] = "close" THEN "stopping"
                                                        ELSE "stopped"]
          /\ stop'[s] = IF stop[s] = "close" THEN "join" ELSE "release"
        BY <2>2 DEF StopCloses, StopJoins, StopGoto, Closing, TypeOK
    <3>2. stopRpc[s] \in Conns \ {rpc}
        BY <3>1 DEF RpcRuns
    <3>3. /\ \A n \in Conns : n # stopRpc[s] => running'[n] = running[n]
          /\ running'[stopRpc[s]] = IF stop[s] = "close" THEN "stopping" ELSE "stopped"
        BY <3>1, <3>2 DEF TypeOK
    <3>4. \A r \in Stops : Closing(r)' => Closing(r) /\ (r = s => stop[s] = "close")
        BY <3>1 DEF Closing
    <3>5. \A r \in Stops : r # s /\ Closing(r) => stopRpc[r] # stopRpc[s]
        BY <3>1 DEF RpcRuns
    <3>6. \A r \in Stops : Closing(r)' =>
              /\ stopRpc[r] \in Conns \ {rpc}
              /\ running'[stopRpc[r]] = IF stop'[r] = "close" THEN "up" ELSE "stopping"
        BY <3>1, <3>2, <3>3, <3>4, <3>5 DEF RpcRuns
    <3>7. \A n \in Conns : running'[n] \in {"up", "stopping"} =>
              n = rpc \/ \E r \in Stops : Closing(r)' /\ stopRpc[r] = n
      <4> SUFFICES ASSUME NEW n \in Conns, running'[n] \in {"up", "stopping"}, n # rpc
                   PROVE  \E r \in Stops : Closing(r)' /\ stopRpc[r] = n
        OBVIOUS
      <4>1. CASE n = stopRpc[s]
        BY <3>1, <3>3, <4>1 DEF Closing
      <4>2. CASE n # stopRpc[s]
        <5>1. PICK r \in Stops : Closing(r) /\ stopRpc[r] = n
            BY <3>3, <4>2 DEF RpcRuns
        <5> QED BY <3>1, <4>2, <5>1 DEF Closing
      <4> QED BY <4>1, <4>2
    <3>8. rpc # 0 => connected /\ running'[rpc] = "up"
        BY <1>0, <3>2, <3>3 DEF RpcRuns
    <3>9. \A r, q \in Stops : Closing(r)' /\ Closing(q)' /\ stopRpc[q] = stopRpc[r] => q = r
        BY <3>4 DEF RpcRuns
    <3>10. \A n \in Conns : running[n] # "none" => running'[n] # "none"
        BY <3>3
    <3> QED BY <1>0, <3>1, <3>6, <3>7, <3>8, <3>9, <3>10 DEF RpcRuns
  <2>3. CASE ~StopTakes(s) /\ ~StopCloses(s) /\ ~StopJoins(s)
    <3>1. /\ UNCHANGED <<connected, rpc, running>>
          /\ \A r \in Stops : r # s => stop'[r] = stop[r] /\ stopRpc'[r] = stopRpc[r]
          /\ stop[s] \notin {"close", "join"} /\ stop'[s] \notin {"close", "join"}
        BY <1>3, <2>3 DEF StopAction, StopStep, StopBegins, StopDestroys, StopDestroyed,
                          StopClears, StopReleases, StopGoto, TypeOK
    <3>2. \A r \in Stops : /\ Closing(r)' <=> Closing(r)
                           /\ Closing(r) => stop'[r] = stop[r] /\ stopRpc'[r] = stopRpc[r]
        BY <3>1 DEF Closing
    <3> QED BY <1>0, <3>1, <3>2 DEF RpcRuns
  <2> QED BY <2>1, <2>2, <2>3
<1> QED BY <1>1, <1>2, <1>3, StepKinds

-----------------------------------------------------------------------------
(* Who has mutex_.                                                         *)

\* A call takes mutex_ in three steps, and keeps it for the destructors they leave to it.
LEMMA CallHolds ==
    ASSUME SessionInv, MutexHolder, NEW x \in Calls, CallAction(x)
    PROVE  /\ \A c \in Calls : c # x => call'[c] = call[c]
           /\ \/ /\ Registers(x) \/ Renames(x) \/ Erases(x)
                 /\ holder = NoOne /\ InMutex(x) /\ Drops(x)
                 /\ call'[x] \in {"call", "interest", "unwind", "done"}
              \/ /\ UNCHANGED <<holder, sessions>> /\ holder # x
                 /\ dying' = dying \/ Drops(x)
<1> USE DEF connVars, mapVars, callVars, taskVars, stopVars, CallGoto
<1>0. /\ TypeOK /\ Kinds /\ call \in [Calls -> CallPc]
      /\ \A c \in Calls : c # x => call'[c] = call[c]
      /\ dying' = dying \/ Drops(x)
  <2>1. TypeOK /\ Kinds
    BY DEF SessionInv
  <2> QED BY <2>1, CallMoves DEF CallAction
<1>1. CASE Registers(x) \/ Renames(x) \/ Erases(x)
  <2>1. holder = NoOne /\ InMutex(x) /\ Drops(x)
    BY <1>1 DEF Registers, Renames, Erases
  <2>2. call'[x] \in {"call", "interest", "unwind", "done"}
    BY <1>0, <1>1 DEF Registers, Renames, Erases, AfterRegister
  <2> QED BY <1>0, <1>1, <2>1, <2>2
<1>2. CASE ~(Registers(x) \/ Renames(x) \/ Erases(x))
  <2>1. UNCHANGED <<holder, sessions>>
    BY <1>2 DEF CallAction, Begins, ServerActs, CallStep, Asks, Answered, Refused, Unwinds,
                AsksInterest, InterestAnswered, InterestRefused
  <2>2. call[x] \in {"call", "interest", "unwind", "done"} => Free(x)
    BY <1>0, <1>2 DEF CallAction, Begins, ServerActs, CallStep, Asks, Answered, Refused,
                      Unwinds, AsksInterest, InterestAnswered, InterestRefused
  <2> QED BY <1>0, <2>1, <2>2 DEF MutexHolder, Free
<1> QED BY <1>1, <1>2

LEMMA HolderByCall ==
    ASSUME SessionInv, MutexHolder, NEW x \in Calls, CallAction(x)
    PROVE  MutexHolder'
<1>0. TypeOK /\ UNCHANGED stop
    BY CallFrame DEF SessionInv, stopVars
<1>1. CASE /\ holder = NoOne /\ InMutex(x)
           /\ call'[x] \in {"call", "interest", "unwind", "done"}
  <2>1. holder' \in {NoOne, x} /\ (holder' = x => dying'[x] # {})
    BY <1>1, ThreadsDiffer DEF InMutex
  <2>2. \A s \in Stops : stop[s] # "clear" /\ holder' # s
    BY <1>1, <2>1, ThreadsDiffer DEF MutexHolder
  <2> QED BY <1>0, <1>1, <2>1, <2>2, ThreadsDiffer DEF MutexHolder
<1>2. CASE /\ UNCHANGED <<holder, sessions>> /\ holder # x
           /\ dying' = dying \/ Drops(x)
           /\ \A c \in Calls : c # x => call'[c] = call[c]
  <2>1. \A c \in Calls : c # x => dying'[c] = dying[c]
    BY <1>0, <1>2, OthersDying, ThreadsDiffer
  <2> QED BY <1>0, <1>2, <2>1 DEF MutexHolder, InMap
<1> QED BY <1>1, <1>2, CallHolds

LEMMA HolderByStop ==
    ASSUME SessionInv, MutexHolder, NEW s \in Stops, StopAction(s)
    PROVE  MutexHolder'
<1> USE DEF connVars, mapVars, callVars, taskVars, stopVars, StopGoto
<1>0. TypeOK /\ UNCHANGED call /\ s \notin Calls /\ s \in Threads
  <2>1. UNCHANGED call
    BY StopFrame
  <2> QED BY <2>1, ThreadsDiffer DEF SessionInv
<1>1. CASE StopClears(s)
  <2>1. /\ holder' = s /\ holder = NoOne /\ stop' = [stop EXCEPT ![s] = "clear"]
        /\ sessions' = [i \in Ids |-> NoOne]
    BY <1>1 DEF StopClears
  <2>2. \A r \in Stops : stop[r] # "clear"
    BY <2>1, ThreadsDiffer DEF MutexHolder
  <2>3. \A r \in Stops : stop'[r] = "clear" <=> r = s
    BY <1>0, <2>1, <2>2 DEF TypeOK
  <2>4. InMap' = {}
    BY <2>1 DEF InMap
  <2> QED BY <1>0, <2>1, <2>3, <2>4 DEF MutexHolder
<1>2. CASE StopTakes(s)
  <2>1. /\ stop[s] = "clear" /\ holder' = NoOne
        /\ \E pc \in {"release", "close"} : stop' = [stop EXCEPT ![s] = pc]
    BY <1>2 DEF StopTakes
  <2>2. \A r \in Stops : stop'[r] # "clear"
    BY <1>0, <2>1 DEF MutexHolder, TypeOK
  <2> QED BY <2>1, <2>2, ThreadsDiffer DEF MutexHolder
<1>3. CASE ~StopClears(s) /\ ~StopTakes(s)
  <2>1. /\ UNCHANGED <<holder, sessions>> /\ stop[s] # "clear" /\ stop'[s] # "clear"
        /\ \A r \in Stops : r # s => stop'[r] = stop[r]
        /\ dying' = dying \/ Drops(s)
    BY <1>0, <1>3 DEF StopAction, StopStep, StopBegins, StopDestroys, StopDestroyed,
                      StopCloses, StopJoins, StopReleases, TypeOK
  <2>2. \A c \in Calls : dying'[c] = dying[c]
    BY <1>0, <2>1, OthersDying, ThreadsDiffer
  <2> QED BY <1>0, <2>1, <2>2 DEF MutexHolder, InMap
<1> QED BY <1>1, <1>2, <1>3

LEMMA HolderByDestructor ==
    ASSUME TypeOK, MutexHolder, NEW th \in Threads, Destroyed(th)
    PROVE  MutexHolder'
<1>1. /\ UNCHANGED <<call, sessions, stop>>
      /\ dying' = [dying EXCEPT ![th] = {}]
      /\ holder' = IF holder = th /\ th \notin Stops THEN NoOne ELSE holder
    BY DEF Destroyed, connVars, mapVars, callVars, taskVars, stopVars
<1>2. CASE holder = th /\ th \notin Stops
  <2>1. holder' = NoOne /\ \A s \in Stops : stop[s] # "clear"
    BY <1>1, <1>2 DEF MutexHolder
  <2> QED BY <1>1, <2>1, ThreadsDiffer DEF MutexHolder
<1>3. CASE ~(holder = th /\ th \notin Stops)
  <2>1. holder' = holder /\ (holder \in Calls => holder # th)
    BY <1>1, <1>3, ThreadsDiffer
  <2>2. \A c \in Calls : c # th => dying'[c] = dying[c]
    BY <1>1, ThreadsDiffer DEF TypeOK
  <2> QED BY <1>1, <2>1, <2>2 DEF MutexHolder, InMap
<1> QED BY <1>2, <1>3

LEMMA HolderStep ==
    ASSUME SessionInv, MutexHolder, [Next]_vars
    PROVE  MutexHolder'
<1> USE DEF connVars, mapVars, callVars, taskVars, stopVars
<1>0. TypeOK
    BY DEF SessionInv
<1>1. ASSUME UNCHANGED <<holder, call, sessions, stop>>,
             \A c \in Calls : dying'[c] = dying[c]
      PROVE  MutexHolder'
    BY <1>1 DEF MutexHolder, InMap
<1>2. ASSUME NEW n \in Conns, ReaderAction(n)
      PROVE  MutexHolder'
  <2>1. UNCHANGED <<holder, call, sessions, stop>> /\ (dying' = dying \/ Drops(n))
    BY <1>2, ReaderFrame DEF ReaderAction, ReaderStep, Reads, LooksUp, Dispatches, ReaderEnds
  <2> QED BY <1>0, <1>1, <2>1, OthersDying, ThreadsDiffer DEF Threads
<1>3. CASE \E t \in Tasks : TaskStep(t)
    BY <1>1, <1>3, TaskFrame
<1>4. ASSUME NEW c \in Makers, UserDrops(c)
      PROVE  MutexHolder'
  <2>1. UNCHANGED <<holder, call, sessions, stop>> /\ Drops(User) /\ User \in Threads
    BY <1>4 DEF UserDrops, Threads
  <2> QED BY <1>0, <1>1, <2>1, OthersDying, ThreadsDiffer
<1>5. CASE (\E n \in Conns \ {1} : Starts(n)) \/ UNCHANGED vars
    BY <1>1, <1>5 DEF Starts, vars
<1> QED BY <1>0, <1>2, <1>3, <1>4, <1>5, StepKinds, HolderByCall, HolderByStop,
           HolderByDestructor

-----------------------------------------------------------------------------
(* Whom its tasks wait for.                                                *)

\* What goes while its thread has mutex_ was in the map.
LEMMA CallDropsFromMap ==
    ASSUME SessionInv, NEW x \in Calls, Registers(x) \/ Renames(x) \/ Erases(x),
           NEW c \in Makers, Held(c), ~Held(c)'
    PROVE  c \in InMap
<1> USE DEF connVars, mapVars, callVars, taskVars, stopVars, CallGoto
<1>0. /\ TypeOK /\ Kinds /\ NoOne \notin Makers /\ c \in Calls
      /\ call \in [Calls -> CallPc]
  <2>1. TypeOK /\ Kinds
    BY DEF SessionInv
  <2> QED BY <2>1, ThreadsDiffer DEF TypeOK
<1>1. UNCHANGED <<reader, snapshot>> /\ user \subseteq user'
    BY DEF Registers, Renames, Erases
<1>2. CASE c # x
  <2>1. call'[c] = call[c]
    BY <1>0, <1>2 DEF Registers, Renames, Erases
  <2>2. HeldByCall(c)' <=> HeldByCall(c)
    BY <2>1 DEF HeldByCall
  <2> QED BY <1>1, <2>2 DEF Held
<1>3. CASE c = x /\ (Registers(x) \/ Renames(x))
  <2>1. PICK i \in Ids : sessions'[i] = x
    <3>1. CASE Registers(x)
        BY <1>0, <1>3, <3>1, Constants DEF Registers, TypeOK
    <3>2. CASE Renames(x)
        BY <1>0, <1>3, <3>2 DEF Renames, TypeOK
    <3> QED BY <1>3, <3>1, <3>2
  <2>2. c \in InMap'
    BY <1>0, <1>3, <2>1 DEF InMap
  <2> QED BY <2>2 DEF Held
<1>4. CASE c = x /\ Erases(x)
  <2>1. c \in Creates
    BY <1>4 DEF Erases, Kinds, Makers, SessionInv
  <2>2. call'[c] = "unwind"
    BY <1>0, <1>4, <2>1 DEF Erases
  <2> QED BY <2>2 DEF Held, HeldByCall
<1> QED BY <1>2, <1>3, <1>4

LEMMA StopDropsFromMap ==
    ASSUME NEW s \in Stops, StopClears(s), NEW c \in Makers, Held(c), ~Held(c)'
    PROVE  c \in InMap
BY DEF StopClears, Held, HeldByCall, callVars

\* What a call puts into the map has no task yet.
LEMMA CallPutsUntouched ==
    ASSUME SessionInv, NewToMap, NEW x \in Calls, CallAction(x),
           NEW c \in Makers, c \in InMap', c \notin InMap
    PROVE  Untouched(c)
<1> USE DEF connVars, mapVars, callVars, taskVars, stopVars, CallGoto
<1>0. TypeOK /\ Kinds /\ NoOne \notin Makers /\ Makers \subseteq Calls
    BY ThreadsDiffer DEF SessionInv
<1>1. CASE Registers(x)
  <2>1. x \in Makers /\ BeforeMap(x)
    BY <1>0, <1>1 DEF Registers, Kinds, Calls, BeforeMap
  <2>2. PICK i \in Ids : sessions' = [sessions EXCEPT ![i] = x]
    BY <1>0, <1>1, <2>1, Constants DEF Registers, TypeOK
  <2>3. c = x
    BY <1>0, <2>2, MapAfter
  <2> QED BY <2>1, <2>3 DEF NewToMap
<1>2. CASE Renames(x)
  <2>1. x \in Creates /\ x \in Makers
    BY <1>0, <1>2 DEF Renames, Kinds, Calls, Makers
  <2>2. PICK i \in Ids, j \in Ids : sessions' = [sessions EXCEPT ![i] = NoOne, ![j] = x]
    BY <1>0, <1>2, <2>1 DEF Renames, TypeOK
  <2>3. c = x
    BY <1>0, <2>2, MapAfterTwo
  <2>4. MayRename(x)
    BY <1>2, <2>1 DEF Renames, NewToMap, MayRename
  <2> QED BY <2>1, <2>3, <2>4 DEF NewToMap
<1>3. CASE Erases(x)
  <2>1. PICK i \in Ids : sessions' = [sessions EXCEPT ![i] = NoOne]
    BY <1>0, <1>3, Constants DEF Erases, TypeOK, Calls, Makers
  <2> QED BY <1>0, <2>1, MapAfter
<1>4. CASE ~(Registers(x) \/ Renames(x) \/ Erases(x))
  <2>1. UNCHANGED sessions
    BY <1>4 DEF CallAction, Begins, ServerActs, CallStep, Asks, Answered, Refused, Unwinds,
                AsksInterest, InterestAnswered, InterestRefused
  <2> QED BY <2>1 DEF InMap
<1> QED BY <1>1, <1>2, <1>3, <1>4

LEMMA WaitByCall ==
    ASSUME SessionInv, NewToMap, MutexHolder, TasksWaitForRpc, NEW x \in Calls, CallAction(x)
    PROVE  TasksWaitForRpc'
<1>0. TypeOK /\ UNCHANGED <<rpc, task, taskRpc, owner>> /\ InMap' \subseteq Makers
  <2>1. TypeOK /\ TypeOK'
    BY CallTyped DEF SessionInv, CallAction
  <2> QED BY <2>1, CallFrame DEF taskVars, TypeOK, InMap
<1>1. \A t \in Tasks : owner[t] \in InMap' => owner[t] \in InMap
    BY <1>0, CallPutsUntouched DEF Untouched
<1>2. \A t \in Tasks : holder' # NoOne /\ owner[t] \in dying'[holder'] =>
          \/ owner[t] \in InMap
          \/ holder # NoOne /\ owner[t] \in dying[holder]
  <2>1. CASE (Registers(x) \/ Renames(x) \/ Erases(x)) /\ InMutex(x) /\ Drops(x)
    <3>1. holder' # NoOne => holder' = x
        BY <2>1 DEF InMutex
    <3>2. dying'[x] = {c \in Makers : Held(c) /\ ~Held(c)'}
        BY <1>0, <2>1, ThreadsDiffer DEF Drops, TypeOK
    <3> QED BY <2>1, <3>1, <3>2, CallDropsFromMap
  <2>2. CASE UNCHANGED <<holder, sessions>> /\ holder # x /\ (dying' = dying \/ Drops(x))
    <3>1. holder # NoOne => holder \in Threads
        BY <1>0, ThreadsDiffer DEF TypeOK
    <3>2. holder # NoOne => dying'[holder] = dying[holder]
        BY <1>0, <2>2, <3>1, OthersDying, ThreadsDiffer
    <3> QED BY <2>2, <3>2
  <2> QED BY <2>1, <2>2, CallHolds
<1> QED BY <1>0, <1>1, <1>2 DEF TasksWaitForRpc

LEMMA WaitByStop ==
    ASSUME SessionInv, MutexHolder, TasksWaitForRpc, NEW s \in Stops, StopAction(s)
    PROVE  TasksWaitForRpc'
<1> USE DEF connVars, mapVars, callVars, taskVars, stopVars, StopGoto
<1>0. /\ TypeOK /\ UNCHANGED <<task, taskRpc, owner>> /\ s \in Threads
      /\ holder # NoOne => holder \in Threads
  <2>1. TypeOK /\ UNCHANGED <<task, taskRpc, owner>>
    BY StopFrame DEF SessionInv
  <2> QED BY <2>1, ThreadsDiffer DEF TypeOK
<1>1. CASE StopClears(s)
  <2>1. holder' = s /\ InMap' = {} /\ UNCHANGED rpc
    BY <1>1 DEF StopClears, InMap
  <2>2. dying'[s] = {c \in Makers : Held(c) /\ ~Held(c)'}
    BY <1>0, <1>1 DEF StopClears, Drops, TypeOK
  <2>3. dying'[s] \subseteq InMap
    BY <1>1, <2>2, StopDropsFromMap
  <2> QED BY <1>0, <2>1, <2>3 DEF TasksWaitForRpc
<1>2. CASE StopTakes(s)
  <2>1. holder' = NoOne /\ UNCHANGED sessions /\ stop[s] = "clear"
    BY <1>2 DEF StopTakes
  <2>2. InMap' = {}
    BY <2>1 DEF MutexHolder, InMap
  <2> QED BY <1>0, <2>1, <2>2 DEF TasksWaitForRpc
<1>3. CASE ~StopClears(s) /\ ~StopTakes(s)
  <2>1. UNCHANGED <<holder, sessions, rpc>> /\ stop[s] # stop'[s]
    BY <1>0, <1>3 DEF StopAction, StopStep, StopBegins, StopDestroys, StopDestroyed,
                      StopCloses, StopJoins, StopReleases, TypeOK
  <2>2. stop[s] # "clear" /\ (dying' = dying \/ Drops(s))
    BY <1>3 DEF StopAction, StopStep, StopBegins, StopDestroys, StopDestroyed, StopCloses,
                StopJoins, StopReleases
  <2>3. holder # s
    BY <2>2 DEF MutexHolder
  <2>4. holder # NoOne => dying'[holder] = dying[holder]
    BY <1>0, <2>2, <2>3, OthersDying
  <2> QED BY <1>0, <2>1, <2>4 DEF TasksWaitForRpc, InMap
<1> QED BY <1>1, <1>2, <1>3

LEMMA WaitByTask ==
    ASSUME TypeOK, TasksWaitForRpc, NEW t \in Tasks, TaskStep(t)
    PROVE  TasksWaitForRpc'
<1> USE DEF connVars, mapVars, callVars, taskVars, stopVars, TaskGoto
<1>1. UNCHANGED <<holder, rpc, sessions, dying, owner>>
    BY TaskFrame
<1>2. \A u \in Tasks : u # t => task'[u] = task[u] /\ taskRpc'[u] = taskRpc[u]
    BY DEF TaskStep, HandlerReturns, Answers, AnswerTaken, AnswerRefused, AnswerFails, TypeOK
<1>3. task'[t] = "answering" => rpc # 0 /\ taskRpc'[t] = rpc
    BY DEF TaskStep, HandlerReturns, Answers, AnswerTaken, AnswerRefused, AnswerFails, TypeOK
<1>4. rpc # 0 => rpc \in Conns
    BY DEF TypeOK, Conns
<1> QED BY <1>1, <1>2, <1>3, <1>4 DEF TasksWaitForRpc, InMap

LEMMA WaitByReader ==
    ASSUME TypeOK, Hands, TasksWaitForRpc, NEW n \in Conns, ReaderAction(n)
    PROVE  TasksWaitForRpc'
<1> USE DEF connVars, mapVars, callVars, taskVars, stopVars
<1>1. UNCHANGED <<holder, rpc, sessions, taskRpc>> /\ (dying' = dying \/ Drops(n))
    BY ReaderFrame DEF ReaderAction, ReaderStep, Reads, LooksUp, Dispatches, ReaderEnds
<1>2. \A u \in Tasks : task'[u] = "answering" => task[u] = "answering" /\ owner'[u] = owner[u]
    BY DEF ReaderAction, ReaderStep, Reads, LooksUp, Dispatches, ReaderEnds, TypeOK
<1>3. holder # NoOne => dying'[holder] = dying[holder]
  <2>1. holder # NoOne => holder \in Threads /\ holder # n
    BY ThreadsDiffer DEF TypeOK
  <2> QED BY <1>1, <2>1, OthersDying DEF Threads
<1> QED BY <1>1, <1>2, <1>3 DEF TasksWaitForRpc, InMap

LEMMA WaitStep ==
    ASSUME SessionInv, NewToMap, RpcRuns, MutexHolder, TasksWaitForRpc, [Next]_vars
    PROVE  TasksWaitForRpc'
<1> USE DEF connVars, mapVars, callVars, taskVars, stopVars
<1>0. TypeOK /\ Hands /\ (holder # NoOne => holder \in Threads)
  <2>1. TypeOK /\ Hands
    BY DEF SessionInv
  <2> QED BY <2>1, ThreadsDiffer DEF TypeOK
<1>1. ASSUME NEW th \in Threads, Destroyed(th)
      PROVE  TasksWaitForRpc'
  <2>1. /\ UNCHANGED <<task, taskRpc, owner, rpc, sessions>> /\ holder' \in {holder, NoOne}
        /\ dying' = [dying EXCEPT ![th] = {}]
    BY <1>1 DEF Destroyed
  <2>2. \A x \in Threads : dying'[x] \subseteq dying[x]
    BY <1>0, <2>1 DEF TypeOK
  <2> QED BY <1>0, <2>1, <2>2 DEF TasksWaitForRpc, InMap
<1>2. ASSUME NEW c \in Makers, UserDrops(c)
      PROVE  TasksWaitForRpc'
  <2>1. UNCHANGED <<task, taskRpc, owner, rpc, sessions, holder>> /\ Drops(User)
    BY <1>2 DEF UserDrops
  <2>2. holder # NoOne => holder # User
    BY <1>0, ThreadsDiffer DEF TypeOK
  <2>3. holder # NoOne => dying'[holder] = dying[holder]
    BY <1>0, <2>1, <2>2, OthersDying DEF Threads
  <2> QED BY <2>1, <2>3 DEF TasksWaitForRpc, InMap
<1>3. ASSUME NEW n \in Conns \ {1}, Starts(n)
      PROVE  TasksWaitForRpc'
  <2>1. /\ UNCHANGED <<task, taskRpc, owner, sessions, holder>> /\ holder = NoOne
        /\ ~connected
    BY <1>3 DEF Starts
  <2>2. rpc = 0 /\ 0 \notin Conns
    BY <2>1, Constants DEF RpcRuns, Conns
  <2> QED BY <2>1, <2>2 DEF TasksWaitForRpc, InMap
<1>4. CASE UNCHANGED vars
    BY <1>4 DEF TasksWaitForRpc, InMap, vars
<1> QED BY <1>0, <1>1, <1>2, <1>3, <1>4, StepKinds, WaitByCall, WaitByStop, WaitByTask,
           WaitByReader

-----------------------------------------------------------------------------
(* The theorems.                                                           *)

\* A call, a background task or a stop() waits for its answer on rpc_, on a connection whose
\* requests were failed, or on one that exactly one stop() is closing and will do that to.
THEOREM NobodyIsForgotten == Spec => []RequestsHaveAnEnd
<1>1. Init => RpcRuns
    BY MutexInit DEF MutexInv
<1>2. TypeOK /\ RpcRuns /\ [Next]_vars => RpcRuns'
    BY RpcStep
<1>3. TypeOK /\ RpcRuns => RequestsHaveAnEnd
  <2> SUFFICES ASSUME TypeOK, RpcRuns, NEW n \in Awaited, n # rpc, running[n] # "stopped"
               PROVE  \E s \in Stops :
                         /\ Closing(s) /\ stopRpc[s] = n
                         /\ \A r \in Stops \ {s} : Closing(r) => stopRpc[r] # n
    BY DEF RequestsHaveAnEnd, Closing
  <2>1. n \in Conns /\ running[n] \in {"up", "stopping"}
    BY DEF RpcRuns, TypeOK
  <2>2. PICK s \in Stops : Closing(s) /\ stopRpc[s] = n
    BY <2>1 DEF RpcRuns
  <2> QED BY <2>2 DEF RpcRuns
<1> QED BY <1>1, <1>2, <1>3, SessionsTyped, PTL DEF Spec

\* A thread in ~Session that has mutex_ waits only for answers of tasks over a running
\* rpc_, whatever the calls, the stops and the events of the server do meanwhile.
THEOREM MutexIsLetGo ==
    ASSUME RenamedIds
    PROVE  Spec => []HolderGetsItsAnswers
<1>1. Init => MutexInv
    BY MutexInit
<1>2. SessionInv /\ MutexInv /\ [Next]_vars => MutexInv'
  <2> SUFFICES ASSUME SessionInv, MutexInv, [Next]_vars
               PROVE  MutexInv'
    OBVIOUS
  <2>1. TypeOK /\ NewToMap /\ RpcRuns /\ MutexHolder /\ TasksWaitForRpc
    BY DEF SessionInv, MutexInv
  <2> QED BY <2>1, NewStep, RpcStep, HolderStep, WaitStep DEF MutexInv
<1>3. MutexInv => HolderGetsItsAnswers
  <2>1. 0 \notin Conns
    BY Constants DEF Conns
  <2> QED BY <2>1 DEF MutexInv, RpcRuns, TasksWaitForRpc, HolderGetsItsAnswers
<1> QED BY <1>1, <1>2, <1>3, Invariance, PTL DEF Spec

\* So the thread that has mutex_ for ~Session is in no circle with a stop() that it waits
\* for, by way of a task and the read thread.
THEOREM NoCircleOfWaits ==
    ASSUME RenamedIds
    PROVE  Spec => []NoCircle
<1>1. RpcRuns /\ HolderGetsItsAnswers => NoCircle
  <2> SUFFICES ASSUME RpcRuns, HolderGetsItsAnswers, NEW s \in Stops, NEW t \in Tasks,
                      holder # NoOne, owner[t] \in dying[holder], task[t] = "answering",
                      taskRpc[t] = stopRpc[s], stop[s] = "join"
               PROVE  FALSE
    BY DEF NoCircle
  <2>1. running[stopRpc[s]] = "stopping"
    BY DEF RpcRuns, Closing
  <2>2. running[taskRpc[t]] = "up"
    BY DEF HolderGetsItsAnswers
  <2> QED BY <2>1, <2>2
<1>2. Init => RpcRuns
    BY MutexInit DEF MutexInv
<1>3. TypeOK /\ RpcRuns /\ [Next]_vars => RpcRuns'
    BY RpcStep
<1> QED BY <1>1, <1>2, <1>3, SessionsTyped, MutexIsLetGo, PTL DEF Spec

=============================================================================
