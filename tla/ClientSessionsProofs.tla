------------------------ MODULE ClientSessionsProofs ------------------------
(***************************************************************************)
(* Theorems about the sessions of a client, for any number of calls,       *)
(* stops, background tasks and connections: the types, that a background   *)
(* task never outlives its session, what a tool overtaken by stop() sends, *)
(* and which sessions are in the map.                                      *)
(***************************************************************************)
EXTENDS ClientSessions, TLAPS

\* What only a create or a resume goes through; a request is on a connection.
Kinds ==
    /\ \A c \in Calls : call[c] = "calling" => callRpc[c] \in Conns
    /\ \A c \in Deletes : call[c] \notin {"register", "rename", "unwind", "interest",
                                         "interesting"}
    /\ \A c \in Resumes : call[c] \notin {"rename", "erase", "unwind"}

\* What a read thread has in hand: a session id, then its session; and a task that no
\* other thread has, and that has not begun.
Hands ==
    /\ \A n \in Conns : reader[n].at = "looking" => reader[n].id \in Ids
    /\ \A n \in Conns : reader[n].at = "dispatching" => reader[n].session \in Makers
    /\ \A n \in Conns : reader[n].task \in Tasks => task[reader[n].task] = "idle"
    /\ \A m, n \in Conns : reader[m].task = reader[n].task => m = n \/ reader[n].task = NoOne

AllDisjoint == Creates \cap Resumes = {} /\ Deletes \cap Makers = {}

-----------------------------------------------------------------------------
(* Types.                                                                  *)

LEMMA Constants ==
    /\ AllDisjoint /\ MaxConn \in Nat \ {0}
    /\ \A c \in Calls : Asked[c] \in Ids
    /\ \A c \in Makers : Offered[c] \subseteq Ids
    /\ NoOne \notin Calls \cup Stops \cup Tasks \cup Ids
BY SessionAssumption DEF SessionAssumption, AllDisjoint, Ids, Calls

LEMMA MapTyped ==
    ASSUME TypeOK
    PROVE  InMap \subseteq Makers
BY DEF TypeOK, InMap

LEMMA DropsTyped ==
    ASSUME TypeOK, NEW th, Drops(th)
    PROVE  dying' \in [Threads -> SUBSET Makers]
BY DEF TypeOK, Drops

LEMMA TypedInit == Init => TypeOK
<1> SUFFICES ASSUME Init PROVE TypeOK
    OBVIOUS
<1>1. /\ MaxConn \in Nat \ {0} /\ \A c \in Makers : Asked[c] \in Ids
    BY Constants DEF Calls
<1>2. connected \in BOOLEAN /\ holder = NoOne /\ rpc \in 0..MaxConn
    BY <1>1 DEF Init
<1>3. running \in [Conns -> {"none", "up", "stopping", "stopped"}]
    BY DEF Init
<1>4. reader \in [Conns -> [at : {"reading", "looking", "dispatching", "ended"},
                            task : Tasks \cup {NoOne}, id : Ids \cup {NoOne},
                            session : Makers \cup {NoOne}]]
    BY DEF Init, Idle
<1>5. /\ call \in [Calls -> CallPc] /\ callRpc \in [Calls -> 0..MaxConn]
      /\ task \in [Tasks -> TaskPc] /\ taskRpc \in [Tasks -> 0..MaxConn]
      /\ stop \in [Stops -> StopPc] /\ stopRpc \in [Stops -> 0..MaxConn]
    BY <1>1 DEF Init, CallPc, TaskPc, StopPc
<1> QED BY <1>1, <1>2, <1>3, <1>4, <1>5 DEF Init, TypeOK

LEMMA CallTyped ==
    ASSUME TypeOK, Kinds, NEW c \in Calls, Begins(c) \/ ServerActs(c) \/ CallStep(c)
    PROVE  TypeOK'
<1> USE DEF connVars, mapVars, callVars, taskVars, stopVars, CallGoto
<1>1. CASE Begins(c)
  <2>1. call' \in [Calls -> CallPc]
    BY <1>1 DEF Begins, TypeOK, CallPc
  <2> QED BY <1>1, <2>1 DEF Begins, TypeOK
<1>2. CASE ServerActs(c)
  <2>1. given' \in [Makers -> Ids] /\ served' \subseteq Ids \X Conns
    <3>1. CASE c \in Makers
      <4>1. callRpc[c] \in Conns /\ Offered[c] \subseteq Ids /\ c \notin Deletes
        BY <1>2, <3>1, Constants DEF ServerActs, Kinds, AllDisjoint
      <4>2. PICK i \in Offered[c] : /\ given' = [given EXCEPT ![c] = i]
                                    /\ served' = served \cup {<<i, callRpc[c]>>}
        BY <1>2, <4>1 DEF ServerActs
      <4> QED BY <3>1, <4>1, <4>2 DEF TypeOK
    <3>2. CASE c \in Deletes
        BY <1>2, <3>2, Constants DEF ServerActs, TypeOK, AllDisjoint
    <3> QED BY <3>1, <3>2 DEF Calls
  <2> QED BY <1>2, <2>1 DEF ServerActs, TypeOK, CallPc
<1>3. CASE Registers(c)
  <2>1. c \in Makers /\ Asked[c] \in Ids
    BY <1>3, Constants DEF Registers, Kinds, Calls
  <2>2. sessions' \in [Ids -> Makers \cup {NoOne}] /\ idOf' \in [Makers -> Ids]
    BY <1>3, <2>1 DEF Registers, TypeOK
  <2>3. call' \in [Calls -> CallPc] /\ user' \subseteq Makers
    BY <1>3, <2>1 DEF Registers, TypeOK, CallPc, AfterRegister
  <2>4. dying' \in [Threads -> SUBSET Makers] /\ holder' \in Calls \cup Stops \cup {NoOne}
    BY <1>3, DropsTyped DEF Registers, InMutex
  <2> QED BY <1>3, <2>2, <2>3, <2>4 DEF Registers, TypeOK
<1>4. CASE Asks(c)
    BY <1>4 DEF Asks, Sends, TypeOK, CallPc
<1>5. CASE Answered(c)
  <2>1. AfterAnswer(c) \in CallPc /\ (AfterAnswer(c) = "done" => c \in Makers)
    BY Constants DEF AfterAnswer, AllDisjoint, Calls, Makers, CallPc
  <2>2. call' \in [Calls -> CallPc] /\ user' \subseteq Makers
    BY <1>5, <2>1 DEF Answered, TypeOK
  <2>3. dying' \in [Threads -> SUBSET Makers]
    BY <1>5, DropsTyped DEF Answered
  <2> QED BY <1>5, <2>2, <2>3 DEF Answered, TypeOK
<1>6. CASE Renames(c)
  <2>1. c \in Makers
    BY <1>6 DEF Renames, Kinds, Calls
  <2>2. sessions' \in [Ids -> Makers \cup {NoOne}] /\ idOf' \in [Makers -> Ids]
    BY <1>6, <2>1 DEF Renames, TypeOK
  <2>3. call' \in [Calls -> CallPc] /\ user' \subseteq Makers
    BY <1>6, <2>1 DEF Renames, TypeOK, CallPc
  <2>4. dying' \in [Threads -> SUBSET Makers] /\ holder' \in Calls \cup Stops \cup {NoOne}
    BY <1>6, DropsTyped DEF Renames, InMutex
  <2> QED BY <1>6, <2>2, <2>3, <2>4 DEF Renames, TypeOK
<1>7. CASE Refused(c)
    BY <1>7 DEF Refused, TypeOK, CallPc
<1>8. CASE Erases(c)
    BY <1>8, DropsTyped DEF Erases, InMutex, TypeOK, CallPc
<1>9. CASE Unwinds(c)
    BY <1>9, DropsTyped DEF Unwinds, TypeOK, CallPc
<1>10. CASE AsksInterest(c)
    BY <1>10, DropsTyped DEF AsksInterest, Sends, TypeOK, CallPc
<1>11. CASE InterestAnswered(c)
  <2>1. c \in Makers
    BY <1>11 DEF InterestAnswered, Kinds, Calls
  <2> QED BY <1>11, <2>1 DEF InterestAnswered, TypeOK, CallPc
<1>12. CASE InterestRefused(c)
    BY <1>12, DropsTyped DEF InterestRefused, TypeOK, CallPc
<1> QED BY <1>1, <1>2, <1>3, <1>4, <1>5, <1>6, <1>7, <1>8, <1>9, <1>10, <1>11, <1>12
        DEF CallStep

LEMMA ReaderTyped ==
    ASSUME TypeOK, Hands, NEW n \in Conns, ReaderStep(n) \/ \E t \in Tasks \cup {NoOne} : Reads(n, t)
    PROVE  TypeOK'
<1> USE DEF connVars, mapVars, callVars, taskVars, stopVars, GoesRound, Idle
<1>1. ASSUME NEW t \in Tasks \cup {NoOne}, Reads(n, t)
      PROVE  TypeOK'
    BY <1>1 DEF Reads, TypeOK
<1>2. CASE LooksUp(n)
  <2>1. sessions[reader[n].id] \in Makers \cup {NoOne}
    BY <1>2 DEF LooksUp, Hands, TypeOK
  <2>2. CASE sessions[reader[n].id] = NoOne
    BY <1>2, <2>2 DEF LooksUp, TypeOK, TaskPc
  <2>3. CASE sessions[reader[n].id] # NoOne
    <3>1. reader' = [reader EXCEPT ![n] = [@ EXCEPT !.at = "dispatching",
                                                    !.session = sessions[reader[n].id]]]
        BY <1>2, <2>3 DEF LooksUp
    <3> DEFINE R == [at : {"reading", "looking", "dispatching", "ended"},
                     task : Tasks \cup {NoOne}, id : Ids \cup {NoOne},
                     session : Makers \cup {NoOne}]
               r == [reader[n] EXCEPT !.at = "dispatching",
                                      !.session = sessions[reader[n].id]]
    <3>2. reader \in [Conns -> R]
        BY DEF TypeOK
    <3>3. r \in R
      <4>1. reader[n] \in R
        BY <3>2
      <4> QED BY <2>1, <4>1
    <3>4. reader' = [reader EXCEPT ![n] = r]
        BY <3>1
    <3>5. reader' \in [Conns -> R]
      <4> HIDE DEF R, r
      <4> QED BY <3>2, <3>3, <3>4
    <3> QED BY <1>2, <2>3, <3>5 DEF LooksUp, TypeOK
  <2> QED BY <2>2, <2>3
<1>3. CASE Dispatches(n)
    BY <1>3, DropsTyped DEF Dispatches, TypeOK, TaskPc
<1>4. CASE ReaderEnds(n)
    BY <1>4 DEF ReaderEnds, TypeOK
<1> QED BY <1>1, <1>2, <1>3, <1>4 DEF ReaderStep

LEMMA TaskTyped ==
    ASSUME TypeOK, NEW t \in Tasks, TaskStep(t)
    PROVE  TypeOK'
<1> USE DEF connVars, mapVars, callVars, taskVars, stopVars, TaskGoto, TaskPc
<1>1. CASE HandlerReturns(t)
    BY <1>1 DEF HandlerReturns, TypeOK
<1>2. CASE Answers(t)
    BY <1>2 DEF Answers, AnswerFails, TypeOK
<1>3. CASE AnswerTaken(t)
    BY <1>3 DEF AnswerTaken, TypeOK
<1>4. CASE AnswerRefused(t)
    BY <1>4 DEF AnswerRefused, AnswerFails, TypeOK
<1> QED BY <1>1, <1>2, <1>3, <1>4 DEF TaskStep

LEMMA StopTyped ==
    ASSUME TypeOK, NEW s \in Stops, StopBegins(s) \/ StopStep(s)
    PROVE  TypeOK'
<1> USE DEF connVars, mapVars, callVars, taskVars, stopVars, StopGoto, StopPc
<1>1. CASE StopBegins(s)
    BY <1>1, MapTyped DEF StopBegins, TypeOK
<1>2. CASE StopDestroys(s)
    BY <1>2 DEF StopDestroys, TypeOK
<1>3. CASE StopDestroyed(s)
    BY <1>3 DEF StopDestroyed, TypeOK
<1>4. CASE StopClears(s)
    BY <1>4, MapTyped, DropsTyped DEF StopClears, TypeOK
<1>5. CASE StopTakes(s)
  <2>1. 0 \in 0..MaxConn
    BY Constants
  <2>2. rpc' \in 0..MaxConn /\ stopRpc' \in [Stops -> 0..MaxConn]
    BY <1>5, <2>1 DEF StopTakes, TypeOK
  <2>3. stop' \in [Stops -> StopPc]
    BY <1>5 DEF StopTakes, TypeOK
  <2> QED BY <1>5, <2>2, <2>3 DEF StopTakes, TypeOK
<1>6. CASE StopCloses(s)
    BY <1>6 DEF StopCloses, TypeOK
<1>7. CASE StopJoins(s)
    BY <1>7 DEF StopJoins, TypeOK
<1>8. CASE StopReleases(s)
    BY <1>8, DropsTyped DEF StopReleases, TypeOK
<1> QED BY <1>1, <1>2, <1>3, <1>4, <1>5, <1>6, <1>7, <1>8 DEF StopStep

LEMMA OtherTyped ==
    ASSUME TypeOK,
           \/ \E c \in Makers : UserDrops(c)
           \/ \E n \in Conns \ {1} : Starts(n)
           \/ \E th \in Threads : Destroyed(th)
    PROVE  TypeOK'
<1> USE DEF connVars, mapVars, callVars, taskVars, stopVars
<1>1. ASSUME NEW c \in Makers, UserDrops(c)
      PROVE  TypeOK'
    BY <1>1, DropsTyped DEF UserDrops, TypeOK
<1>2. ASSUME NEW n \in Conns \ {1}, Starts(n)
      PROVE  TypeOK'
    BY <1>2, Constants DEF Starts, TypeOK, Conns
<1>3. ASSUME NEW th \in Threads, Destroyed(th)
      PROVE  TypeOK'
    BY <1>3 DEF Destroyed, TypeOK
<1> QED BY <1>1, <1>2, <1>3

LEMMA TypedStep == TypeOK /\ Kinds /\ Hands /\ [Next]_vars => TypeOK'
<1> SUFFICES ASSUME TypeOK, Kinds, Hands, [Next]_vars PROVE TypeOK'
    OBVIOUS
<1>1. CASE UNCHANGED vars
    BY <1>1 DEF vars, connVars, mapVars, callVars, taskVars, stopVars, TypeOK
<1>2. CASE Steps
    BY <1>2, CallTyped, ReaderTyped, TaskTyped, StopTyped, OtherTyped DEF Steps
<1> QED BY <1>1, <1>2 DEF Next

-----------------------------------------------------------------------------
(* Kinds and Hands.                                                        *)

LEMMA KindsStep ==
    ASSUME TypeOK, Kinds, [Next]_vars
    PROVE  Kinds'
<1> USE DEF connVars, mapVars, callVars, taskVars, stopVars, CallGoto
<1>1. ASSUME NEW c \in Calls, Begins(c) \/ ServerActs(c) \/ CallStep(c)
      PROVE  Kinds'
  <2>1. /\ \A d \in Calls : d # c => call'[d] = call[d] /\ callRpc'[d] = callRpc[d]
        /\ c \in Calls /\ call \in [Calls -> CallPc]
    BY <1>1 DEF Begins, ServerActs, CallStep, Registers, Asks, Sends, Answered, Renames,
                Refused, Erases, Unwinds, AsksInterest, InterestAnswered, InterestRefused,
                TypeOK
  <2>2. call'[c] = "calling" => callRpc'[c] \in Conns
    <3>1. CASE Asks(c)
        BY <3>1 DEF Asks, Sends, TypeOK, Conns
    <3>2. CASE ~Asks(c)
        BY <1>1, <2>1, <3>2
           DEF Begins, ServerActs, CallStep, Registers, Sends, Answered, Renames, Refused,
               Erases, Unwinds, AsksInterest, InterestAnswered, InterestRefused, AfterAnswer,
               AfterRegister
    <3> QED BY <3>1, <3>2
  <2>3. c \in Deletes => call'[c] \notin {"register", "rename", "unwind", "interest",
                                          "interesting"}
    BY <1>1, <2>1, Constants
       DEF Begins, ServerActs, CallStep, Registers, Asks, Sends, Answered, Renames, Refused,
           Erases, Unwinds, AsksInterest, InterestAnswered, InterestRefused, AfterAnswer,
           AllDisjoint, Makers, Kinds
  <2>4. c \in Resumes => call'[c] \notin {"rename", "erase", "unwind"}
    BY <1>1, <2>1, Constants
       DEF Begins, ServerActs, CallStep, Registers, Asks, Sends, Answered, Renames, Refused,
           Erases, Unwinds, AsksInterest, InterestAnswered, InterestRefused, AfterAnswer,
           AfterRegister, AllDisjoint, Makers, Kinds
  <2> QED BY <2>1, <2>2, <2>3, <2>4 DEF Kinds, Calls, Makers
<1>2. CASE UNCHANGED <<call, callRpc>>
    BY <1>2 DEF Kinds
<1>3. Steps => UNCHANGED <<call, callRpc>>
               \/ \E c \in Calls : Begins(c) \/ ServerActs(c) \/ CallStep(c)
  <2>1. ASSUME NEW n \in Conns, ReaderStep(n) \/ \E t \in Tasks \cup {NoOne} : Reads(n, t)
        PROVE  UNCHANGED <<call, callRpc>>
    BY <2>1 DEF ReaderStep, Reads, LooksUp, Dispatches, ReaderEnds
  <2>2. ASSUME NEW t \in Tasks, TaskStep(t)
        PROVE  UNCHANGED <<call, callRpc>>
    BY <2>2 DEF TaskStep, HandlerReturns, Answers, AnswerTaken, AnswerRefused
  <2>3. ASSUME NEW s \in Stops, StopBegins(s) \/ StopStep(s)
        PROVE  UNCHANGED <<call, callRpc>>
    BY <2>3 DEF StopBegins, StopStep, StopDestroys, StopDestroyed, StopClears, StopTakes,
                StopCloses, StopJoins, StopReleases
  <2> QED BY <2>1, <2>2, <2>3 DEF Steps, UserDrops, Starts, Destroyed
<1> QED BY <1>1, <1>2, <1>3 DEF Next, vars

LEMMA HandsStep ==
    ASSUME TypeOK, Hands, [Next]_vars
    PROVE  Hands'
<1> USE DEF connVars, mapVars, callVars, taskVars, stopVars, Idle
<1>0. NoOne \notin Tasks
    BY Constants
<1>1. ASSUME NEW n \in Conns, NEW t \in Tasks \cup {NoOne}, Reads(n, t)
      PROVE  Hands'
  <2>1. PICK i \in Ids : reader' = [reader EXCEPT ![n] = [at |-> "looking", task |-> t,
                                                         id |-> i, session |-> NoOne]]
    BY <1>1 DEF Reads
  <2>2. /\ reader'[n].at = "looking" /\ reader'[n].id \in Ids /\ reader'[n].task = t
        /\ \A m \in Conns : m # n => reader'[m] = reader[m]
    BY <2>1 DEF TypeOK
  <2>3. t # NoOne => task[t] = "idle" /\ \A m \in Conns : reader[m].task # t
    BY <1>1 DEF Reads
  <2>4. task' = task
    BY <1>1 DEF Reads
  <2> QED BY <1>0, <2>2, <2>3, <2>4 DEF Hands
<1>2. ASSUME NEW n \in Conns, ReaderStep(n)
      PROVE  Hands'
  <2>1. \A m \in Conns : m # n => reader'[m] = reader[m]
    BY <1>2 DEF ReaderStep, LooksUp, Dispatches, ReaderEnds, GoesRound, TypeOK
  <2>2. CASE ReaderEnds(n)
    <3>1. reader'[n].at = "ended" /\ reader'[n].task = reader[n].task /\ task' = task
        BY <2>2 DEF ReaderEnds, TypeOK
    <3> QED BY <2>1, <3>1 DEF Hands
  <2>3. CASE LooksUp(n) /\ sessions[reader[n].id] # NoOne
    <3>1. /\ reader'[n].at = "dispatching" /\ reader'[n].task = reader[n].task
          /\ reader'[n].session = sessions[reader[n].id] /\ task' = task
        BY <2>3 DEF LooksUp, TypeOK
    <3>2. reader'[n].session \in Makers
        BY <2>3, <3>1 DEF LooksUp, Hands, TypeOK
    <3> QED BY <2>1, <3>1, <3>2 DEF Hands
  <2>4. CASE Dispatches(n) \/ (LooksUp(n) /\ sessions[reader[n].id] = NoOne)
    <3>1. reader'[n].at \in {"reading", "ended"} /\ reader'[n].task = NoOne
        BY <2>4 DEF LooksUp, Dispatches, GoesRound, TypeOK
    <3>2. \A t \in Tasks : t # reader[n].task => task'[t] = task[t]
        BY <2>4 DEF LooksUp, Dispatches, TypeOK
    <3> QED BY <1>0, <2>1, <3>1, <3>2 DEF Hands
  <2> QED BY <1>2, <2>2, <2>3, <2>4 DEF ReaderStep
<1>3. ASSUME NEW t \in Tasks, TaskStep(t)
      PROVE  Hands'
  <2>1. reader' = reader /\ task[t] # "idle"
    BY <1>3 DEF TaskStep, HandlerReturns, Answers, AnswerTaken, AnswerRefused
  <2>2. \A u \in Tasks : u # t => task'[u] = task[u]
    BY <1>3 DEF TaskStep, HandlerReturns, Answers, AnswerTaken, AnswerRefused, AnswerFails,
                TaskGoto, TypeOK
  <2> QED BY <2>1, <2>2 DEF Hands
<1>4. CASE UNCHANGED <<reader, task>>
    BY <1>4 DEF Hands
<1>5. Steps => \/ \E n \in Conns : ReaderStep(n) \/ \E t \in Tasks \cup {NoOne} : Reads(n, t)
               \/ \E t \in Tasks : TaskStep(t)
               \/ UNCHANGED <<reader, task>>
  <2>1. ASSUME NEW c \in Calls, Begins(c) \/ ServerActs(c) \/ CallStep(c)
        PROVE  UNCHANGED <<reader, task>>
    BY <2>1 DEF Begins, ServerActs, CallStep, Registers, Asks, Answered, Renames, Refused,
                Erases, Unwinds, AsksInterest, InterestAnswered, InterestRefused
  <2>2. ASSUME NEW s \in Stops, StopBegins(s) \/ StopStep(s)
        PROVE  UNCHANGED <<reader, task>>
    BY <2>2 DEF StopBegins, StopStep, StopDestroys, StopDestroyed, StopClears, StopTakes,
                StopCloses, StopJoins, StopReleases
  <2> QED BY <2>1, <2>2 DEF Steps, UserDrops, Starts, Destroyed
<1> QED BY <1>1, <1>2, <1>3, <1>4, <1>5 DEF Next, vars

-----------------------------------------------------------------------------
(* The life of a session.                                                  *)

\* The call has made its session.
Born(c) == IF c \in Creates THEN call[c] # "idle"
                            ELSE call[c] \notin {"idle", "call", "calling", "acted", "erase"}

Gone(c) == c \in dead \/ \E th \in Threads : c \in dying[th]

\* Held by somebody else than its call.
HeldElse(c) ==
    \/ c \in InMap \/ c \in user
    \/ \E n \in Conns : reader[n].session = c
    \/ \E s \in Stops : c \in snapshot[s]

\* A session that somebody holds has been made; one that is being destroyed, or has been,
\* is held by nobody, and its call is over.
SessionsLive ==
    \A c \in Makers : /\ Held(c) => Born(c)
                      /\ Gone(c) => ~Held(c) /\ call[c] \in {"done", "failed"}

\* What every step does: it takes hold only of sessions that are held, its call makes a
\* session once, and the sessions it drops last are those that it destroys.
Keeps ==
    \A c \in Makers :
        /\ HeldElse(c)' => Held(c)
        /\ Born(c) => Born(c)'
        /\ call[c] \in {"done", "failed"} => call'[c] = call[c]
        /\ HeldByCall(c)' => HeldByCall(c) \/ (call[c] \notin {"done", "failed"} /\ Born(c)')
        /\ Gone(c)' => Gone(c) \/ (Held(c) /\ ~Held(c)')

LEMMA HeldParts == \A c : Held(c) <=> HeldByCall(c) \/ HeldElse(c)
BY DEF Held, HeldElse

LEMMA LiveFromKeeps ==
    ASSUME TypeOK', Kinds', SessionsLive, Keeps
    PROVE  SessionsLive'
<1> SUFFICES ASSUME NEW c \in Makers
             PROVE  /\ Held(c)' => Born(c)'
                    /\ Gone(c)' => ~Held(c)' /\ call'[c] \in {"done", "failed"}
    BY DEF SessionsLive
<1>1. Held(c)' <=> HeldByCall(c)' \/ HeldElse(c)'
    BY DEF Held, HeldElse
<1>2. Held(c)' => Held(c) \/ (call[c] \notin {"done", "failed"} /\ Born(c)')
    BY <1>1, HeldParts DEF Keeps
<1>3. Held(c)' => Born(c)'
    BY <1>2 DEF Keeps, SessionsLive
<1>4. CASE Gone(c)
    BY <1>2, <1>4 DEF Keeps, SessionsLive
<1>5. CASE Held(c) /\ ~Held(c)'
  <2>1. Born(c)' /\ ~HeldByCall(c)'
    BY <1>1, <1>5 DEF Keeps, SessionsLive
  <2>2. call'[c] \in CallPc /\ c \in Creates \cup Resumes
    BY DEF TypeOK, Calls, Makers
  <2>3. call'[c] \in {"done", "failed"}
    BY <2>1, <2>2 DEF Born, HeldByCall, CallPc
  <2> QED BY <1>5, <2>3
<1> QED BY <1>3, <1>4, <1>5 DEF Keeps

\* One place of the map is written.
LEMMA MapAfter ==
    ASSUME TypeOK, NEW i \in Ids, NEW x, sessions' = [sessions EXCEPT ![i] = x]
    PROVE  \A c \in Makers : c \in InMap' => c \in InMap \/ c = x
BY DEF TypeOK, InMap

LEMMA MapAfterTwo ==
    ASSUME TypeOK, NEW i \in Ids, NEW j \in Ids, NEW x,
           sessions' = [sessions EXCEPT ![i] = NoOne, ![j] = x]
    PROVE  \A c \in Makers : c \in InMap' => c \in InMap \/ c = x
BY DEF TypeOK, InMap

LEMMA GoneByDrops ==
    ASSUME TypeOK, NEW th \in Threads, Drops(th), dead' = dead, NEW c \in Makers, Gone(c)'
    PROVE  Gone(c) \/ (Held(c) /\ ~Held(c)')
BY DEF TypeOK, Drops, Gone

\* The steps of the calls.
LEMMA CallMoves ==
    ASSUME TypeOK, Kinds, NEW c \in Calls, Begins(c) \/ ServerActs(c) \/ CallStep(c)
    PROVE  /\ \A d \in Calls : d # c => call'[d] = call[d]
           /\ call[c] \notin {"done", "failed"} /\ call \in [Calls -> CallPc]
           /\ c \in Makers => (Born(c) => Born(c)')
           /\ c \in Makers => (HeldByCall(c)' => HeldByCall(c) \/ Born(c)')
           /\ reader' = reader /\ snapshot' = snapshot /\ dead' = dead
           /\ dying' = dying \/ Drops(c)
<1> USE DEF connVars, mapVars, callVars, taskVars, stopVars, CallGoto
<1>1. /\ \A d \in Calls : d # c => call'[d] = call[d]
      /\ call[c] \notin {"done", "failed"} /\ call \in [Calls -> CallPc]
    BY DEF Begins, ServerActs, CallStep, Registers, Asks, Sends, Answered, Renames,
           Refused, Erases, Unwinds, AsksInterest, InterestAnswered, InterestRefused, TypeOK
<1>2. /\ reader' = reader /\ snapshot' = snapshot /\ dead' = dead
      /\ dying' = dying \/ Drops(c)
    BY DEF Begins, ServerActs, CallStep, Registers, Asks, Sends, Answered, Renames,
           Refused, Erases, Unwinds, AsksInterest, InterestAnswered, InterestRefused
<1>3. c \in Makers => (Born(c) => Born(c)')
    BY Constants
       DEF Begins, ServerActs, CallStep, Registers, Asks, Sends, Answered, Renames, Refused,
           Erases, Unwinds, AsksInterest, InterestAnswered, InterestRefused, TypeOK, Born,
           AfterAnswer, AfterRegister, AllDisjoint, Makers, Kinds, CallPc
<1>4. c \in Makers => (HeldByCall(c)' => HeldByCall(c) \/ Born(c)')
    BY Constants
       DEF Begins, ServerActs, CallStep, Registers, Asks, Sends, Answered, Renames, Refused,
           Erases, Unwinds, AsksInterest, InterestAnswered, InterestRefused, TypeOK, Born,
           AfterAnswer, AfterRegister, AllDisjoint, Makers, Kinds, CallPc, HeldByCall
<1> QED BY <1>1, <1>2, <1>3, <1>4

\* A call puts into the map, and gives to the application, the session it holds.
LEMMA CallTakes ==
    ASSUME TypeOK, Kinds, NEW c \in Calls, Begins(c) \/ ServerActs(c) \/ CallStep(c),
           NEW d \in Makers, d \in InMap' \/ d \in user'
    PROVE  d \in InMap \/ d \in user \/ (d = c /\ HeldByCall(c))
<1> USE DEF connVars, mapVars, callVars, taskVars, stopVars, CallGoto
<1>1. CASE Begins(c) \/ ServerActs(c) \/ Asks(c) \/ Refused(c) \/ Unwinds(c)
           \/ AsksInterest(c) \/ InterestRefused(c)
    BY <1>1 DEF Begins, ServerActs, Asks, Refused, Unwinds, AsksInterest, InterestRefused,
                InMap
<1>2. CASE InterestAnswered(c)
    BY <1>2 DEF InterestAnswered, InMap, HeldByCall
<1>3. CASE Answered(c)
  <2>1. AfterAnswer(c) = "done" => c \in Creates
    BY Constants DEF AfterAnswer, AllDisjoint, Calls, Makers
  <2> QED BY <1>3, <2>1 DEF Answered, InMap, HeldByCall
<1>4. CASE Registers(c)
  <2>1. c \in Makers /\ HeldByCall(c)
    BY <1>4 DEF Registers, Kinds, Calls, HeldByCall
  <2>2. PICK i \in Ids : sessions' = [sessions EXCEPT ![i] = c]
    BY <1>4, <2>1, Constants DEF Registers, TypeOK, Calls
  <2>3. user' \subseteq user \cup {c}
    BY <1>4 DEF Registers
  <2> QED BY <2>1, <2>2, <2>3, MapAfter
<1>5. CASE Renames(c)
  <2>1. c \in Makers /\ HeldByCall(c)
    BY <1>5 DEF Renames, Kinds, Calls, HeldByCall
  <2>2. PICK i \in Ids, j \in Ids : sessions' = [sessions EXCEPT ![i] = NoOne, ![j] = c]
    BY <1>5, <2>1 DEF Renames, TypeOK
  <2>3. user' \subseteq user \cup {c}
    BY <1>5 DEF Renames
  <2> QED BY <2>1, <2>2, <2>3, MapAfterTwo
<1>6. CASE Erases(c)
  <2>1. PICK i \in Ids : sessions' = [sessions EXCEPT ![i] = NoOne]
    BY <1>6, Constants DEF Erases, TypeOK, Calls, Makers
  <2>2. d = NoOne => FALSE
    BY Constants DEF Calls
  <2> QED BY <1>6, <2>1, <2>2, MapAfter DEF Erases
<1> QED BY <1>1, <1>2, <1>3, <1>4, <1>5, <1>6 DEF CallStep

LEMMA CallKeeps ==
    ASSUME TypeOK, Kinds, NEW c \in Calls, Begins(c) \/ ServerActs(c) \/ CallStep(c)
    PROVE  Keeps
<1> SUFFICES ASSUME NEW d \in Makers
             PROVE  /\ HeldElse(d)' => Held(d)
                    /\ Born(d) => Born(d)'
                    /\ call[d] \in {"done", "failed"} => call'[d] = call[d]
                    /\ HeldByCall(d)' => \/ HeldByCall(d)
                                         \/ call[d] \notin {"done", "failed"} /\ Born(d)'
                    /\ Gone(d)' => Gone(d) \/ (Held(d) /\ ~Held(d)')
    BY DEF Keeps
<1>1. HeldElse(d)' => Held(d)
  <2>1. UNCHANGED <<reader, snapshot>>
    BY CallMoves
  <2>2. d \in InMap' \/ d \in user' => Held(d)
    BY CallTakes DEF Held
  <2> QED BY <2>1, <2>2 DEF HeldElse, Held
<1>2. Gone(d)' => Gone(d) \/ (Held(d) /\ ~Held(d)')
  <2>1. CASE dying' = dying
    BY <2>1, CallMoves DEF Gone
  <2>2. CASE Drops(c)
    BY <2>2, CallMoves, GoneByDrops DEF Threads
  <2> QED BY <2>1, <2>2, CallMoves
<1>3. CASE d = c
  <2>1. /\ Born(d) => Born(d)'
        /\ HeldByCall(d)' => HeldByCall(d) \/ Born(d)'
        /\ call[d] \notin {"done", "failed"}
    BY <1>3, CallMoves
  <2> QED BY <1>1, <1>2, <2>1
<1>4. CASE d # c
  <2>1. call'[d] = call[d]
    BY <1>4, CallMoves DEF Calls
  <2>2. (Born(d)' <=> Born(d)) /\ (HeldByCall(d)' <=> HeldByCall(d))
    BY <2>1 DEF Born, HeldByCall
  <2> QED BY <1>1, <1>2, <2>1, <2>2
<1> QED BY <1>3, <1>4

\* The steps of everybody else: no call moves.
LEMMA OthersKeep ==
    ASSUME TypeOK, UNCHANGED call,
           \A c \in Makers : HeldElse(c)' => Held(c),
           \A c \in Makers : Gone(c)' => Gone(c) \/ (Held(c) /\ ~Held(c)')
    PROVE  Keeps
BY DEF Keeps, Born, HeldByCall

LEMMA ReaderKeeps ==
    ASSUME TypeOK, Hands, NEW n \in Conns,
           ReaderStep(n) \/ \E t \in Tasks \cup {NoOne} : Reads(n, t)
    PROVE  Keeps
<1> USE DEF connVars, mapVars, callVars, taskVars, stopVars
<1>1. UNCHANGED <<call, sessions, user, snapshot, dead>>
    BY DEF ReaderStep, Reads, LooksUp, Dispatches, ReaderEnds
<1>2. \A m \in Conns : m # n => reader'[m] = reader[m]
    BY DEF ReaderStep, Reads, LooksUp, Dispatches, ReaderEnds, GoesRound, TypeOK
<1>3. /\ reader'[n].session \in {NoOne, reader[n].session} \/ reader'[n].session \in InMap
  <2>1. CASE LooksUp(n) /\ sessions[reader[n].id] # NoOne
    <3>1. reader'[n].session = sessions[reader[n].id]
        BY <2>1 DEF LooksUp, TypeOK
    <3>2. sessions[reader[n].id] \in InMap
        BY <2>1 DEF LooksUp, Hands, InMap
    <3> QED BY <3>1, <3>2
  <2>2. CASE Dispatches(n) \/ (LooksUp(n) /\ sessions[reader[n].id] = NoOne)
    BY <2>2 DEF LooksUp, Dispatches, GoesRound, Idle, TypeOK
  <2>3. CASE ReaderEnds(n)
    BY <2>3 DEF ReaderEnds, TypeOK
  <2>4. CASE \E t \in Tasks \cup {NoOne} : Reads(n, t)
    BY <2>4 DEF Reads, TypeOK
  <2> QED BY <2>1, <2>2, <2>3, <2>4 DEF ReaderStep
<1>4. \A c \in Makers : c # NoOne
    BY Constants DEF Calls
<1>5. \A c \in Makers : HeldElse(c)' => Held(c)
    BY <1>1, <1>2, <1>3, <1>4 DEF HeldElse, Held, InMap
<1>6. dying' = dying \/ Drops(n)
    BY DEF ReaderStep, Reads, LooksUp, Dispatches, ReaderEnds
<1>7. \A c \in Makers : Gone(c)' => Gone(c) \/ (Held(c) /\ ~Held(c)')
  <2>1. CASE dying' = dying
    BY <1>1, <2>1 DEF Gone
  <2>2. CASE Drops(n)
    BY <1>1, <2>2, GoneByDrops DEF Threads
  <2> QED BY <1>6, <2>1, <2>2
<1> QED BY <1>1, <1>5, <1>7, OthersKeep

LEMMA StopKeeps ==
    ASSUME TypeOK, NEW s \in Stops, StopBegins(s) \/ StopStep(s)
    PROVE  Keeps
<1> USE DEF connVars, mapVars, callVars, taskVars, stopVars
<1>1. UNCHANGED <<call, reader, user, dead>>
    BY DEF StopBegins, StopStep, StopDestroys, StopDestroyed, StopClears, StopTakes,
           StopCloses, StopJoins, StopReleases
<1>2. \A c \in Makers : c \in InMap' => c \in InMap
  <2>1. CASE StopClears(s)
    BY <2>1, Constants DEF StopClears, InMap, Calls
  <2>2. CASE ~StopClears(s)
    <3>1. sessions' = sessions
        BY <2>2 DEF StopBegins, StopStep, StopDestroys, StopDestroyed, StopTakes, StopCloses,
                    StopJoins, StopReleases
    <3> QED BY <3>1 DEF InMap
  <2> QED BY <2>1, <2>2
<1>3. \A r \in Stops : snapshot'[r] \in {snapshot[r], InMap, {}}
    BY DEF StopBegins, StopStep, StopDestroys, StopDestroyed, StopClears, StopTakes,
           StopCloses, StopJoins, StopReleases, TypeOK
<1>4. \A c \in Makers : HeldElse(c)' => Held(c)
    BY <1>1, <1>2, <1>3 DEF HeldElse, Held
<1>5. dying' = dying \/ Drops(s)
    BY DEF StopBegins, StopStep, StopDestroys, StopDestroyed, StopClears, StopTakes,
           StopCloses, StopJoins, StopReleases
<1>6. \A c \in Makers : Gone(c)' => Gone(c) \/ (Held(c) /\ ~Held(c)')
  <2>1. CASE dying' = dying
    BY <1>1, <2>1 DEF Gone
  <2>2. CASE Drops(s)
    BY <1>1, <2>2, GoneByDrops DEF Threads
  <2> QED BY <1>5, <2>1, <2>2
<1> QED BY <1>1, <1>4, <1>6, OthersKeep

LEMMA RestKeeps ==
    ASSUME TypeOK,
           \/ \E c \in Makers : UserDrops(c)
           \/ \E n \in Conns \ {1} : Starts(n)
           \/ \E t \in Tasks : TaskStep(t)
           \/ \E th \in Threads : Destroyed(th)
    PROVE  Keeps
<1> USE DEF connVars, mapVars, callVars, taskVars, stopVars
<1>1. UNCHANGED <<call, reader, sessions, snapshot>> /\ user' \subseteq user
    BY DEF UserDrops, Starts, Destroyed, TaskStep, HandlerReturns, Answers, AnswerTaken,
           AnswerRefused
<1>2. \A c \in Makers : HeldElse(c)' => Held(c)
    BY <1>1 DEF HeldElse, Held, InMap
<1>3. ASSUME NEW c \in Makers, Gone(c)'
      PROVE  Gone(c) \/ (Held(c) /\ ~Held(c)')
  <2>1. CASE \E d \in Makers : UserDrops(d)
    <3>1. Drops(User) /\ dead' = dead
        BY <2>1 DEF UserDrops
    <3> QED BY <1>3, <3>1, GoneByDrops DEF Threads
  <2>2. ASSUME NEW th \in Threads, Destroyed(th)
        PROVE  Gone(c)
    BY <1>3, <2>2 DEF Destroyed, Gone, TypeOK
  <2>3. CASE \/ \E n \in Conns \ {1} : Starts(n)
             \/ \E t \in Tasks : TaskStep(t)
    <3>1. UNCHANGED <<dying, dead>>
        BY <2>3 DEF Starts, TaskStep, HandlerReturns, Answers, AnswerTaken, AnswerRefused
    <3> QED BY <1>3, <3>1 DEF Gone
  <2> QED BY <2>1, <2>2, <2>3
<1> QED BY <1>1, <1>2, <1>3, OthersKeep

LEMMA LiveStep ==
    ASSUME TypeOK, TypeOK', Kinds, Kinds', Hands, SessionsLive, [Next]_vars
    PROVE  SessionsLive'
<1>1. CASE UNCHANGED vars
    BY <1>1 DEF vars, connVars, mapVars, callVars, taskVars, stopVars, SessionsLive, Held,
                HeldByCall, InMap, Gone, Born
<1>2. CASE Steps
  <2>1. Keeps
    BY <1>2, CallKeeps, ReaderKeeps, StopKeeps, RestKeeps DEF Steps
  <2> QED BY <2>1, LiveFromKeeps
<1> QED BY <1>1, <1>2 DEF Next

-----------------------------------------------------------------------------
(* The background tasks.                                                   *)

\* A tool that was overtaken belongs to a session that is cancelled.
OvertakenIsCancelled ==
    \A t \in overtaken :
        Kind[t] = "tool" => owner[t] \in cancelled /\ task[t] \in {"handler", "dropped"}

\* What a step may do to a task: begin it, with a session that is held, or let it go on;
\* a tool whose session is cancelled goes from its handler to its end.
TaskMoves ==
    \A t \in Tasks :
        \/ task'[t] = task[t] /\ owner'[t] = owner[t]
        \/ task[t] = "idle" /\ task'[t] = "unheard" /\ owner'[t] = owner[t]
        \/ /\ task[t] = "idle" /\ task'[t] = "handler"
           /\ owner'[t] \in Makers /\ Held(owner'[t])
        \/ /\ Active(t) /\ owner'[t] = owner[t]
           /\ task[t] = "handler" /\ ToolIsCancelled(t) => task'[t] = "dropped"

LEMMA TasksMove ==
    ASSUME TypeOK, Hands, [Next]_vars
    PROVE  TaskMoves
<1> USE DEF connVars, mapVars, callVars, taskVars, stopVars
<1>1. ASSUME NEW n \in Conns, ReaderStep(n)
      PROVE  TaskMoves
  <2>1. CASE LooksUp(n)
    <3>1. task' = task \/ (/\ task' = [task EXCEPT ![reader[n].task] = "unheard"]
                           /\ reader[n].task # NoOne)
        BY <2>1 DEF LooksUp
    <3>2. reader[n].task # NoOne => task[reader[n].task] = "idle"
        BY DEF Hands, TypeOK
    <3>3. owner' = owner
        BY <2>1 DEF LooksUp
    <3> QED BY <3>1, <3>2, <3>3 DEF TaskMoves, TypeOK
  <2>2. CASE Dispatches(n)
    <3> DEFINE c == reader[n].session
               u == reader[n].task
    <3>1. c \in Makers /\ Held(c)
        BY <2>2 DEF Dispatches, Hands, Held
    <3>2. \/ task' = task /\ owner' = owner
          \/ /\ task' = [task EXCEPT ![u] = "handler"]
             /\ owner' = [owner EXCEPT ![u] = c] /\ u # NoOne
        BY <2>2 DEF Dispatches
    <3>3. u # NoOne => u \in Tasks /\ task[u] = "idle"
        BY DEF Hands, TypeOK
    <3> HIDE DEF c, u
    <3> QED BY <3>1, <3>2, <3>3 DEF TaskMoves, TypeOK
  <2>3. CASE ReaderEnds(n)
    BY <2>3 DEF ReaderEnds, TaskMoves
  <2> QED BY <1>1, <2>1, <2>2, <2>3 DEF ReaderStep
<1>2. ASSUME NEW t \in Tasks, TaskStep(t)
      PROVE  TaskMoves
  <2>1. Active(t) /\ owner' = owner
    BY <1>2 DEF TaskStep, HandlerReturns, Answers, AnswerTaken, AnswerRefused, Active
  <2>2. \A u \in Tasks : u # t => task'[u] = task[u]
    BY <1>2 DEF TaskStep, HandlerReturns, Answers, AnswerTaken, AnswerRefused, AnswerFails,
                TaskGoto, TypeOK
  <2>3. task[t] = "handler" /\ ToolIsCancelled(t) => task'[t] = "dropped"
    BY <1>2 DEF TaskStep, HandlerReturns, Answers, AnswerTaken, AnswerRefused, TaskGoto,
                TypeOK, ToolIsCancelled
  <2> QED BY <2>1, <2>2, <2>3 DEF TaskMoves
<1>3. CASE UNCHANGED <<task, owner>>
    BY <1>3 DEF TaskMoves
<1>4. Steps => \/ \E n \in Conns : ReaderStep(n)
               \/ \E t \in Tasks : TaskStep(t)
               \/ UNCHANGED <<task, owner>>
  <2>1. ASSUME NEW c \in Calls, Begins(c) \/ ServerActs(c) \/ CallStep(c)
        PROVE  UNCHANGED <<task, owner>>
    BY <2>1 DEF Begins, ServerActs, CallStep, Registers, Asks, Answered, Renames, Refused,
                Erases, Unwinds, AsksInterest, InterestAnswered, InterestRefused
  <2>2. ASSUME NEW s \in Stops, StopBegins(s) \/ StopStep(s)
        PROVE  UNCHANGED <<task, owner>>
    BY <2>2 DEF StopBegins, StopStep, StopDestroys, StopDestroyed, StopClears, StopTakes,
                StopCloses, StopJoins, StopReleases
  <2> QED BY <2>1, <2>2 DEF Steps, UserDrops, Starts, Destroyed, Reads
<1> QED BY <1>1, <1>2, <1>3, <1>4 DEF Next, vars

LEMMA OwnersStep ==
    ASSUME TypeOK, Hands, SessionsLive, TasksHaveTheirSession, [Next]_vars
    PROVE  TasksHaveTheirSession'
<1>1. TaskMoves
    BY TasksMove
<1>2. \A t \in Tasks : task'[t] \in {"handler", "ready", "answering"}
                       => /\ owner'[t] \in Makers \ dead
                          /\ Active(t) => owner'[t] = owner[t]
                          /\ ~Active(t) => Held(owner'[t])
  <2> SUFFICES ASSUME NEW t \in Tasks, task'[t] \in {"handler", "ready", "answering"}
               PROVE  /\ owner'[t] \in Makers \ dead
                      /\ Active(t) => owner'[t] = owner[t]
                      /\ ~Active(t) => Held(owner'[t])
    OBVIOUS
  <2>1. CASE task'[t] = task[t] /\ owner'[t] = owner[t]
    BY <2>1 DEF TasksHaveTheirSession, Active
  <2>2. CASE task[t] = "idle" /\ owner'[t] \in Makers /\ Held(owner'[t])
    BY <2>2 DEF SessionsLive, Gone, Active
  <2>3. CASE Active(t) /\ owner'[t] = owner[t]
    BY <2>3 DEF TasksHaveTheirSession
  <2> QED BY <1>1, <2>1, <2>2, <2>3 DEF TaskMoves
<1>3. CASE \E th \in Threads : Destroyed(th)
  <2>1. PICK th \in Threads : Destroyed(th)
    BY <1>3
  <2>2. UNCHANGED <<task, owner>> /\ dead' = dead \cup dying[th]
    BY <2>1 DEF Destroyed, taskVars
  <2>3. \A t \in Tasks : Active(t) => owner[t] \notin dying[th]
    BY <2>1 DEF Destroyed, Active
  <2> QED BY <2>2, <2>3 DEF TasksHaveTheirSession, Active
<1>4. CASE ~\E th \in Threads : Destroyed(th)
  <2>1. dead' = dead
    <3> USE DEF connVars, mapVars, callVars, taskVars, stopVars
    <3>1. CASE UNCHANGED vars
        BY <3>1 DEF vars
    <3>2. CASE Steps
      <4>1. ASSUME NEW c \in Calls, Begins(c) \/ ServerActs(c) \/ CallStep(c)
            PROVE  dead' = dead
        BY <4>1 DEF Begins, ServerActs, CallStep, Registers, Asks, Answered, Renames, Refused,
                    Erases, Unwinds, AsksInterest, InterestAnswered, InterestRefused
      <4>2. ASSUME NEW s \in Stops, StopBegins(s) \/ StopStep(s)
            PROVE  dead' = dead
        BY <4>2 DEF StopBegins, StopStep, StopDestroys, StopDestroyed, StopClears, StopTakes,
                    StopCloses, StopJoins, StopReleases
      <4>3. ASSUME NEW n \in Conns,
                   ReaderStep(n) \/ \E t \in Tasks \cup {NoOne} : Reads(n, t)
            PROVE  dead' = dead
        BY <4>3 DEF ReaderStep, Reads, LooksUp, Dispatches, ReaderEnds
      <4>4. ASSUME NEW t \in Tasks, TaskStep(t)
            PROVE  dead' = dead
        BY <4>4 DEF TaskStep, HandlerReturns, Answers, AnswerTaken, AnswerRefused
      <4> QED BY <1>4, <3>2, <4>1, <4>2, <4>3, <4>4 DEF Steps, UserDrops, Starts
    <3> QED BY <3>1, <3>2 DEF Next
  <2> QED BY <1>2, <2>1 DEF TasksHaveTheirSession, Active
<1> QED BY <1>3, <1>4

LEMMA OvertakenStep ==
    ASSUME TypeOK, Hands, OvertakenIsCancelled, [Next]_vars
    PROVE  OvertakenIsCancelled'
<1>1. TaskMoves
    BY TasksMove
<1>2. \A t \in overtaken : Kind[t] = "tool"
                           => /\ owner'[t] = owner[t]
                              /\ task'[t] \in {"handler", "dropped"}
    BY <1>1 DEF TaskMoves, OvertakenIsCancelled, ToolIsCancelled, Active, TypeOK
<1>3. CASE \E s \in Stops : StopClears(s)
  <2>1. /\ overtaken' = overtaken \cup {t \in Tasks : task[t] = "handler"
                                                      /\ owner[t] \in InMap}
        /\ cancelled' = cancelled \cup InMap /\ task' = task /\ owner' = owner
    BY <1>3 DEF StopClears, taskVars
  <2> QED BY <2>1 DEF OvertakenIsCancelled
<1>4. CASE ~\E s \in Stops : StopClears(s)
  <2>1. UNCHANGED <<overtaken, cancelled>>
    <3> USE DEF connVars, mapVars, callVars, taskVars, stopVars
    <3>1. CASE UNCHANGED vars
        BY <3>1 DEF vars
    <3>2. CASE Steps
      <4>1. ASSUME NEW c \in Calls, Begins(c) \/ ServerActs(c) \/ CallStep(c)
            PROVE  UNCHANGED <<overtaken, cancelled>>
        BY <4>1 DEF Begins, ServerActs, CallStep, Registers, Asks, Answered, Renames, Refused,
                    Erases, Unwinds, AsksInterest, InterestAnswered, InterestRefused
      <4>2. ASSUME NEW s \in Stops, StopBegins(s) \/ StopStep(s), ~StopClears(s)
            PROVE  UNCHANGED <<overtaken, cancelled>>
        BY <4>2 DEF StopBegins, StopStep, StopDestroys, StopDestroyed, StopTakes, StopCloses,
                    StopJoins, StopReleases
      <4>3. ASSUME NEW n \in Conns,
                   ReaderStep(n) \/ \E t \in Tasks \cup {NoOne} : Reads(n, t)
            PROVE  UNCHANGED <<overtaken, cancelled>>
        BY <4>3 DEF ReaderStep, Reads, LooksUp, Dispatches, ReaderEnds
      <4>4. ASSUME NEW t \in Tasks, TaskStep(t)
            PROVE  UNCHANGED <<overtaken, cancelled>>
        BY <4>4 DEF TaskStep, HandlerReturns, Answers, AnswerTaken, AnswerRefused
      <4> QED BY <1>4, <3>2, <4>1, <4>2, <4>3, <4>4 DEF Steps, UserDrops, Starts, Destroyed
    <3> QED BY <3>1, <3>2 DEF Next
  <2> QED BY <1>2, <2>1 DEF OvertakenIsCancelled
<1> QED BY <1>3, <1>4

\* What is neither idle nor at its handler only goes on by itself.
LEMMA OnlyTaskSteps ==
    ASSUME TypeOK, Hands, [Next]_vars, ~\E t \in Tasks : TaskStep(t), NEW u \in Tasks,
           task[u] # "idle"
    PROVE  task'[u] = task[u] /\ owner'[u] = owner[u]
<1> USE DEF connVars, mapVars, callVars, taskVars, stopVars
<1>1. ASSUME NEW n \in Conns, ReaderStep(n)
      PROVE  task'[u] = task[u] /\ owner'[u] = owner[u]
  <2>1. u # reader[n].task
    BY DEF Hands
  <2> QED BY <1>1, <2>1 DEF ReaderStep, LooksUp, Dispatches, ReaderEnds, TypeOK
<1>2. \/ \E n \in Conns : ReaderStep(n)
      \/ UNCHANGED <<task, owner>>
  <2>1. ASSUME NEW c \in Calls, Begins(c) \/ ServerActs(c) \/ CallStep(c)
        PROVE  UNCHANGED <<task, owner>>
    BY <2>1 DEF Begins, ServerActs, CallStep, Registers, Asks, Answered, Renames, Refused,
                Erases, Unwinds, AsksInterest, InterestAnswered, InterestRefused
  <2>2. ASSUME NEW s \in Stops, StopBegins(s) \/ StopStep(s)
        PROVE  UNCHANGED <<task, owner>>
    BY <2>2 DEF StopBegins, StopStep, StopDestroys, StopDestroyed, StopClears, StopTakes,
                StopCloses, StopJoins, StopReleases
  <2> QED BY <2>1, <2>2 DEF Next, Steps, UserDrops, Starts, Destroyed, Reads, vars
<1> QED BY <1>1, <1>2

\* A tool that sent its result too late belongs to a session that is cancelled.
LateIsCancelled ==
    \A t \in late : /\ ToolIsCancelled(t)
                    /\ task[t] \in {"answering", "done", "dropped", "crashed"}

LEMMA LateStep ==
    ASSUME TypeOK, Hands, LateIsCancelled, [Next]_vars
    PROVE  LateIsCancelled'
<1> USE DEF connVars, mapVars, callVars, taskVars, stopVars, TaskGoto
<1>1. TaskMoves
    BY TasksMove
<1>2. ASSUME NEW t \in Tasks, TaskStep(t)
      PROVE  LateIsCancelled'
  <2>1. UNCHANGED <<owner, cancelled>> /\ late' \subseteq late \cup {t}
    BY <1>2 DEF TaskStep, HandlerReturns, Answers, AnswerTaken, AnswerRefused
  <2>2. \A u \in Tasks : u # t => task'[u] = task[u]
    BY <1>2 DEF TaskStep, HandlerReturns, Answers, AnswerTaken, AnswerRefused, AnswerFails,
                TypeOK
  <2>3. t \in late' => ToolIsCancelled(t) /\ task[t] # "handler"
    BY <1>2 DEF TaskStep, HandlerReturns, Answers, AnswerTaken, AnswerRefused,
                LateIsCancelled
  <2>4. t \in late' => task'[t] \in {"answering", "done", "dropped", "crashed"}
    <3>1. CASE AnswerTaken(t) \/ AnswerRefused(t) \/ Answers(t)
        BY <2>3, <3>1 DEF Answers, AnswerTaken, AnswerRefused, AnswerFails, TypeOK
    <3>2. CASE HandlerReturns(t)
        BY <2>3, <3>2 DEF HandlerReturns
    <3> QED BY <1>2, <3>1, <3>2 DEF TaskStep
  <2>5. \A u \in Tasks : ToolIsCancelled(u)' <=> ToolIsCancelled(u)
    BY <2>1 DEF ToolIsCancelled
  <2> QED BY <2>1, <2>2, <2>3, <2>4, <2>5 DEF LateIsCancelled, TypeOK
<1>3. CASE UNCHANGED late /\ cancelled \subseteq cancelled' /\ ~\E t \in Tasks : TaskStep(t)
  <2>1. \A t \in late : task'[t] = task[t] /\ owner'[t] = owner[t]
    BY <1>1, <1>3, OnlyTaskSteps DEF LateIsCancelled, TypeOK
  <2> QED BY <1>3, <2>1 DEF LateIsCancelled, ToolIsCancelled
<1>4. [Next]_vars => \/ \E t \in Tasks : TaskStep(t)
                     \/ UNCHANGED late /\ cancelled \subseteq cancelled'
  <2>1. ASSUME NEW c \in Calls, Begins(c) \/ ServerActs(c) \/ CallStep(c)
        PROVE  UNCHANGED <<late, cancelled>>
    BY <2>1 DEF Begins, ServerActs, CallStep, Registers, Asks, Answered, Renames, Refused,
                Erases, Unwinds, AsksInterest, InterestAnswered, InterestRefused
  <2>2. ASSUME NEW s \in Stops, StopBegins(s) \/ StopStep(s)
        PROVE  UNCHANGED late /\ cancelled \subseteq cancelled'
    BY <2>2 DEF StopBegins, StopStep, StopDestroys, StopDestroyed, StopClears, StopTakes,
                StopCloses, StopJoins, StopReleases
  <2>3. ASSUME NEW n \in Conns, ReaderStep(n) \/ \E t \in Tasks \cup {NoOne} : Reads(n, t)
        PROVE  UNCHANGED <<late, cancelled>>
    BY <2>3 DEF ReaderStep, Reads, LooksUp, Dispatches, ReaderEnds
  <2> QED BY <2>1, <2>2, <2>3 DEF Next, Steps, UserDrops, Starts, Destroyed, vars
<1> QED BY <1>2, <1>3, <1>4

-----------------------------------------------------------------------------
(* The map and the ids.                                                    *)

\* Where a call is when its session may be in the map.
Listed(c) == IF c \in Creates
             THEN /\ call[c] \notin {"idle", "register", "unwind"}
                  /\ call[c] = "failed" => c \in Interested
             ELSE call[c] \notin {"idle", "call", "calling", "acted", "register"}

\* A session is in the map under its own id and no other.
Named ==
    \A c \in Makers :
        /\ \A i \in Ids : sessions[i] = c => idOf[c] = i /\ Listed(c)
        /\ call[c] \in {"interest", "interesting"} => c \in Interested

LEMMA NamedByCall ==
    ASSUME TypeOK, Kinds, Named, NEW c \in Calls, Begins(c) \/ ServerActs(c) \/ CallStep(c)
    PROVE  Named'
<1> USE DEF connVars, mapVars, callVars, taskVars, stopVars, CallGoto
<1>1. /\ \A d \in Makers : d # c => call'[d] = call[d] /\ (Listed(d)' <=> Listed(d))
      /\ call \in [Calls -> CallPc] /\ idOf \in [Makers -> Ids]
      /\ sessions \in [Ids -> Makers \cup {NoOne}]
    BY CallMoves DEF Listed, Calls, TypeOK
<1>2. c \in Makers => (call'[c] \in {"interest", "interesting"} => c \in Interested)
    BY Constants
       DEF Begins, ServerActs, CallStep, Registers, Asks, Sends, Answered, Renames, Refused,
           Erases, Unwinds, AsksInterest, InterestAnswered, InterestRefused, TypeOK,
           AfterAnswer, AfterRegister, AllDisjoint, Makers, Named
<1>3. CASE Registers(c)
  <2>1. c \in Makers /\ \A i \in Ids : sessions[i] # c
    BY <1>3 DEF Registers, Kinds, Calls, Named, Listed
  <2>2. PICK i \in Ids : /\ sessions' = [sessions EXCEPT ![i] = c]
                         /\ idOf' = [idOf EXCEPT ![c] = i]
    BY <1>3, <2>1, Constants DEF Registers, TypeOK, Calls
  <2>3. Listed(c)'
    BY <1>1, <1>3, Constants DEF Registers, Listed, AfterRegister, AllDisjoint
  <2> QED BY <1>1, <1>2, <2>1, <2>2, <2>3 DEF Named
<1>4. CASE Renames(c)
  <2>1. c \in Creates
    BY <1>4 DEF Renames, Kinds, Calls, Makers
  <2>2. given[c] \in Ids /\ idOf[c] \in Ids /\ \A i \in Ids : sessions[i] = c => i = idOf[c]
    BY <2>1 DEF TypeOK, Named, Makers
  <2>3. /\ sessions' = [sessions EXCEPT ![idOf[c]] = NoOne, ![given[c]] = c]
        /\ idOf' = [idOf EXCEPT ![c] = given[c]]
    BY <1>4 DEF Renames
  <2>4. Listed(c)'
    BY <1>1, <1>4, <2>1 DEF Renames, Listed
  <2>5. \A i \in Ids : sessions'[i] = c => i = given[c]
    BY <1>1, <2>2, <2>3, Constants DEF Calls
  <2>6. \A i \in Ids, d \in Makers : d # c /\ sessions'[i] = d => sessions[i] = d
    BY <1>1, <2>2, <2>3, Constants DEF Calls
  <2> QED BY <1>1, <1>2, <2>1, <2>2, <2>3, <2>4, <2>5, <2>6 DEF Named, Makers
<1>5. CASE Erases(c)
  <2>1. idOf' = idOf
    BY <1>5 DEF Erases
  <2>2. \A i \in Ids : sessions'[i] \in {sessions[i], NoOne}
    BY <1>1, <1>5 DEF Erases
  <2>3. c \in Creates => \A i \in Ids : sessions'[i] # c
    BY <1>1, <1>5, Constants DEF Erases, Named, Makers, Calls
  <2>4. c \in Makers => c \in Creates
    BY <1>5 DEF Erases, Kinds, Makers
  <2> QED BY <1>1, <1>2, <2>1, <2>2, <2>3, <2>4, Constants DEF Named, Calls
<1>6. CASE ~Registers(c) /\ ~Renames(c) /\ ~Erases(c)
  <2>1. UNCHANGED <<sessions, idOf>>
    BY <1>6 DEF Begins, ServerActs, CallStep, Asks, Answered, Refused, Unwinds, AsksInterest,
                InterestAnswered, InterestRefused
  <2>2. ASSUME c \in Makers, Listed(c)
        PROVE  Listed(c)'
    BY <1>1, <1>6, <2>2, Constants
       DEF Begins, ServerActs, CallStep, Asks, Sends, Answered, Refused, Unwinds,
           AsksInterest, InterestAnswered, InterestRefused, AfterAnswer, AllDisjoint, Makers,
           Listed, Named, Kinds
  <2> QED BY <1>1, <1>2, <2>1, <2>2 DEF Named
<1> QED BY <1>3, <1>4, <1>5, <1>6

LEMMA NamedStep ==
    ASSUME TypeOK, Kinds, Named, [Next]_vars
    PROVE  Named'
<1> USE DEF connVars, mapVars, callVars, taskVars, stopVars
<1>1. ASSUME NEW s \in Stops, StopClears(s)
      PROVE  Named'
    BY <1>1, Constants DEF StopClears, Named, Calls
<1>2. CASE UNCHANGED <<sessions, idOf, call>>
    BY <1>2 DEF Named, Listed
<1>3. Steps => \/ \E c \in Calls : Begins(c) \/ ServerActs(c) \/ CallStep(c)
               \/ \E s \in Stops : StopClears(s)
               \/ UNCHANGED <<sessions, idOf, call>>
  <2>1. ASSUME NEW s \in Stops, StopBegins(s) \/ StopStep(s), ~StopClears(s)
        PROVE  UNCHANGED <<sessions, idOf, call>>
    BY <2>1 DEF StopBegins, StopStep, StopDestroys, StopDestroyed, StopTakes, StopCloses,
                StopJoins, StopReleases
  <2>2. ASSUME NEW n \in Conns, ReaderStep(n) \/ \E t \in Tasks \cup {NoOne} : Reads(n, t)
        PROVE  UNCHANGED <<sessions, idOf, call>>
    BY <2>2 DEF ReaderStep, Reads, LooksUp, Dispatches, ReaderEnds
  <2>3. ASSUME NEW t \in Tasks, TaskStep(t)
        PROVE  UNCHANGED <<sessions, idOf, call>>
    BY <2>3 DEF TaskStep, HandlerReturns, Answers, AnswerTaken, AnswerRefused
  <2> QED BY <2>1, <2>2, <2>3 DEF Steps, UserDrops, Starts, Destroyed
<1>4. UNCHANGED vars => UNCHANGED <<sessions, idOf, call>>
    BY DEF vars
<1> QED BY <1>1, <1>2, <1>3, <1>4, NamedByCall DEF Next

-----------------------------------------------------------------------------
(* The invariant and the theorems.                                         *)

SessionInv == TypeOK /\ Kinds /\ Hands /\ SessionsLive /\ TasksHaveTheirSession
                     /\ OvertakenIsCancelled /\ LateIsCancelled /\ Named

LEMMA InvInit == Init => SessionInv
<1> SUFFICES ASSUME Init PROVE SessionInv
    OBVIOUS
<1>1. TypeOK
    BY TypedInit
<1>2. \A n \in Conns : /\ reader[n].at = "reading" /\ reader[n].task = NoOne
                       /\ reader[n].session = NoOne
    BY DEF Init, Idle
<1>3. NoOne \notin Tasks /\ NoOne \notin Makers
    BY Constants DEF Calls
<1>4. Kinds /\ Hands
    BY <1>2, <1>3 DEF Init, Kinds, Hands, Calls, Makers
<1>5. SessionsLive
  <2>1. \A c \in Makers : ~Held(c)
    BY <1>2, <1>3 DEF Init, Held, HeldByCall, InMap, Calls, Makers
  <2>2. \A c \in Makers : ~Gone(c)
    BY DEF Init, Gone
  <2> QED BY <2>1, <2>2 DEF SessionsLive
<1>6. TasksHaveTheirSession /\ OvertakenIsCancelled /\ LateIsCancelled
    BY DEF Init, TasksHaveTheirSession, Active, OvertakenIsCancelled, LateIsCancelled
<1>7. Named
    BY <1>3 DEF Init, Named, Calls, Makers
<1> QED BY <1>1, <1>4, <1>5, <1>6, <1>7 DEF SessionInv

LEMMA InvStep == SessionInv /\ [Next]_vars => SessionInv'
<1> SUFFICES ASSUME SessionInv, [Next]_vars PROVE SessionInv'
    OBVIOUS
<1>1. TypeOK' /\ Kinds' /\ Hands'
    BY TypedStep, KindsStep, HandsStep DEF SessionInv
<1>2. SessionsLive'
    BY <1>1, LiveStep DEF SessionInv
<1>3. TasksHaveTheirSession' /\ OvertakenIsCancelled' /\ LateIsCancelled'
    BY OwnersStep, OvertakenStep, LateStep DEF SessionInv
<1>4. Named'
    BY NamedStep DEF SessionInv
<1> QED BY <1>1, <1>2, <1>3, <1>4 DEF SessionInv

LEMMA Invariance == Spec => []SessionInv
<1>1. Init => SessionInv
    BY InvInit
<1>2. SessionInv /\ [Next]_vars => SessionInv'
    BY InvStep
<1> QED BY <1>1, <1>2, PTL DEF Spec

\* Every variable of the client's sessions keeps its type: the map holds sessions, and the
\* read threads dispatch to sessions, whatever calls and stops overlap.
THEOREM SessionsTyped == Spec => []TypeOK
<1>1. SessionInv => TypeOK
    BY DEF SessionInv
<1> QED BY <1>1, Invariance, PTL

\* A background task of a session, which captures a bare this, has it for as long as it
\* runs: whichever thread drops the session last is the one that waits in ~Session.
THEOREM TasksKeepTheirSession == Spec => []TasksHaveTheirSession
<1>1. SessionInv => TasksHaveTheirSession
    BY DEF SessionInv
<1> QED BY <1>1, Invariance, PTL

\* A tool whose handler was running when stop() or force_stop() cancelled its session
\* sends nothing any more.
THEOREM OvertakenSendNothing == Spec => []OvertakenToolsAreDropped
<1>1. SessionInv => OvertakenToolsAreDropped
    BY DEF SessionInv, OvertakenIsCancelled, OvertakenToolsAreDropped
<1> QED BY <1>1, Invariance, PTL

\* A tool that had passed the test of the flag before its session was cancelled sends that
\* one result and nothing after it, also when the answer fails or a new connection is there.
THEOREM LateToolsEnd == Spec => []LateAnswersAreLast
<1>1. SessionInv => LateAnswersAreLast
    BY DEF SessionInv, LateIsCancelled, LateAnswersAreLast
<1> QED BY <1>1, Invariance, PTL

\* A create_session that threw because its request failed, or that was never made, left
\* nothing in sessions_, under the id it asked for or the one the server chose.
THEOREM FailuresLeaveNothing == Spec => []FailedCreateLeavesNothing
<1>1. SessionInv => FailedCreateLeavesNothing
    BY DEF SessionInv, FailedCreateLeavesNothing, Named, Listed, InMap, Makers
<1> QED BY <1>1, Invariance, PTL

-----------------------------------------------------------------------------
(* Events of a session find it, when nobody else uses its ids.             *)

\* No other create goes by an id that a create may go by, and a resume only if it names it.
OwnIds ==
    \A c \in Creates, m \in Makers :
        m # c /\ NewIds(c) \cap NewIds(m) # {} => m \in Resumes /\ Asked[m] \in NewIds(c)

Unresumed(c) == \A r \in Resumes : Asked[r] \in NewIds(c) => call[r] = "idle"
Absent(i)    == \A n \in Conns : <<i, n>> \notin served
Early        == {"idle", "register", "call", "calling"}
Deleting(i)  == {d \in Deletes : Asked[d] = i}

\* The places where the map has the session under the id that it will keep.
Settles(c) ==
    \/ call[c] \in {"interest", "interesting", "done"}
    \/ call[c] \in {"call", "calling", "acted"} /\ given[c] = Asked[c]

\* The server has the session only after it has acted, and no more when it has deleted it;
\* the map has it, under the id that stays, until after the second.
Kept(c) ==
    /\ call[c] \in Early => given[c] = Asked[c] /\ \A i \in NewIds(c) : Absent(i)
    /\ \A i \in NewIds(c) : \A d \in Deleting(i) :
          call[d] \in {"acted", "erase", "done"} => call[c] \notin Early /\ Absent(i)
    /\ c \notin cancelled /\ Settles(c) /\ (\A d \in Deleting(given[c]) : call[d] # "done")
          => sessions[given[c]] = c

Origins == \A m \in Makers : {idOf[m], given[m]} \subseteq NewIds(m)

FoundInv == Origins /\ \A c \in Creates : Unresumed(c) => Kept(c)

LEMMA FoundInit == Init => FoundInv
<1> SUFFICES ASSUME Init PROVE FoundInv
    OBVIOUS
<1>1. Origins
    BY DEF Init, Origins, NewIds
<1>2. ASSUME NEW c \in Creates
      PROVE  Kept(c)
  <2>1. call[c] = "idle" /\ given[c] = Asked[c] /\ \A i \in NewIds(c) : Absent(i)
    BY DEF Init, Absent, Calls, Makers
  <2>2. \A i \in NewIds(c) : \A d \in Deleting(i) : call[d] = "idle"
    BY DEF Init, Deleting, Calls
  <2> QED BY <2>1, <2>2 DEF Kept, Settles
<1> QED BY <1>1, <1>2 DEF FoundInv

\* The calls leave each other's ids alone.
LEMMA OriginsByCall ==
    ASSUME TypeOK, Kinds, Origins, NEW c \in Calls, Begins(c) \/ ServerActs(c) \/ CallStep(c)
    PROVE  Origins'
<1>1. CASE Registers(c)
  <2>1. c \in Makers
    BY <1>1 DEF Registers, Kinds, Calls
  <2> QED BY <1>1, <2>1 DEF Registers, Origins, NewIds, TypeOK
<1>2. CASE Renames(c)
  <2>1. c \in Makers
    BY <1>2 DEF Renames, Kinds, Calls
  <2> QED BY <1>2, <2>1 DEF Renames, Origins, TypeOK, callVars
<1>3. CASE ServerActs(c)
  BY <1>3 DEF ServerActs, Origins, NewIds, TypeOK, mapVars
<1>4. CASE ~Registers(c) /\ ~Renames(c) /\ ~ServerActs(c)
  <2>1. UNCHANGED <<idOf, given>>
    BY <1>4 DEF Begins, CallStep, Asks, Answered, Refused, Erases, Unwinds, AsksInterest,
                InterestAnswered, InterestRefused, mapVars, callVars
  <2> QED BY <2>1 DEF Origins
<1> QED BY <1>1, <1>2, <1>3, <1>4

\* A call that has begun stays so.
LEMMA NotIdle ==
    ASSUME TypeOK, NEW c \in Calls, Begins(c) \/ ServerActs(c) \/ CallStep(c)
    PROVE  call'[c] # "idle"
BY DEF TypeOK, Begins, ServerActs, CallStep, Registers, Asks, Sends, Answered, Renames, Refused,
       Erases, Unwinds, AsksInterest, InterestAnswered, InterestRefused, CallGoto,
       AfterAnswer, AfterRegister

\* The steps of the create itself.
LEMMA KeptByItself ==
    ASSUME TypeOK, Kinds, Origins, NEW c \in Creates, Kept(c),
           Begins(c) \/ ServerActs(c) \/ CallStep(c)
    PROVE  Kept(c)'
<1> USE DEF connVars, mapVars, callVars, taskVars, stopVars, CallGoto
<1>1. /\ c \in Calls /\ c \in Makers /\ c \notin Resumes /\ c \notin Deletes
      /\ Asked[c] \in Ids /\ given[c] \in Ids /\ {Asked[c], given[c]} \subseteq NewIds(c)
    BY Constants DEF AllDisjoint, Makers, Calls, TypeOK, Origins, NewIds
<1>2. /\ call \in [Calls -> CallPc] /\ given \in [Makers -> Ids]
      /\ sessions \in [Ids -> Makers \cup {NoOne}]
    BY DEF TypeOK
<1>3. \A i : \A d \in Deleting(i) : call'[d] = call[d]
    BY <1>1, CallMoves DEF Deleting, Calls
<1>4. cancelled' = cancelled
    BY DEF Begins, ServerActs, CallStep, Registers, Asks, Answered, Renames, Refused, Erases,
           Unwinds, AsksInterest, InterestAnswered, InterestRefused
<1> USE <1>1, <1>2, <1>3, <1>4 DEF Kept, Early, Absent, Settles
<1>5. CASE Begins(c)
    BY <1>5 DEF Begins
<1>6. CASE ServerActs(c)
  <2>1. /\ call[c] = "calling" /\ call'[c] = "acted" /\ sessions' = sessions
        /\ given[c] = Asked[c]
    BY <1>6 DEF ServerActs
  <2>2. \A i \in NewIds(c) : \A d \in Deleting(i) : call[d] \notin {"acted", "erase", "done"}
    BY <2>1
  <2>3. given'[c] \in NewIds(c)
    BY <1>6 DEF ServerActs, NewIds
  <2> QED BY <2>1, <2>2, <2>3
<1>7. CASE Registers(c)
    BY <1>7 DEF Registers, AfterRegister
<1>8. CASE Asks(c)
    BY <1>8 DEF Asks, Sends
<1>9. CASE Answered(c)
    BY <1>9 DEF Answered, AfterAnswer
<1>10. CASE Renames(c)
    BY <1>10 DEF Renames
<1>11. CASE Refused(c) \/ Erases(c) \/ Unwinds(c)
    BY <1>11 DEF Refused, Erases, Unwinds
<1>12. CASE AsksInterest(c) \/ InterestAnswered(c) \/ InterestRefused(c)
    BY <1>12 DEF AsksInterest, Sends, InterestAnswered, InterestRefused
<1> QED BY <1>5, <1>6, <1>7, <1>8, <1>9, <1>10, <1>11, <1>12 DEF CallStep

\* The steps of another call.
LEMMA KeptByOther ==
    ASSUME TypeOK, Kinds, Origins, OwnIds, NEW c \in Creates, Unresumed(c)', Kept(c),
           NEW x \in Calls, x # c, Begins(x) \/ ServerActs(x) \/ CallStep(x)
    PROVE  Kept(c)'
<1> USE DEF connVars, mapVars, callVars, taskVars, stopVars, CallGoto
<1>1. c \in Calls /\ c \in Makers /\ Asked[c] \in Ids /\ Asked[x] \in Ids
    BY Constants DEF Makers, Calls
<1>2. \A d \in Calls : d # x => call'[d] = call[d]
    BY CallMoves
<1>3. call'[c] = call[c] /\ cancelled' = cancelled
    BY <1>1, <1>2
       DEF Begins, ServerActs, CallStep, Registers, Asks, Answered, Renames, Refused, Erases,
           Unwinds, AsksInterest, InterestAnswered, InterestRefused
<1>4. x \in Makers => NewIds(c) \cap NewIds(x) = {} /\ {idOf[x], given[x]} \subseteq NewIds(x)
  <2>1. SUFFICES ASSUME x \in Makers, NewIds(c) \cap NewIds(x) # {}
                 PROVE  FALSE
    BY DEF Origins
  <2>2. x \in Resumes /\ Asked[x] \in NewIds(c)
    BY <2>1 DEF OwnIds
  <2> QED BY <2>2, NotIdle DEF Unresumed
<1>5. x \in Makers \/ x \in Deletes
    BY DEF Calls
<1>6. given'[c] = given[c] /\ given[c] \in NewIds(c) /\ given[c] \in Ids
    BY <1>1 DEF TypeOK, Origins, Begins, ServerActs, CallStep, Registers, Asks, Answered,
           Renames, Refused, Erases, Unwinds, AsksInterest, InterestAnswered, InterestRefused
<1>7. \A i \in NewIds(c) : Absent(i) => Absent(i)'
  <2>1. CASE ServerActs(x)
    BY <1>4, <2>1 DEF ServerActs, Absent, NewIds
  <2>2. CASE ~ServerActs(x)
    BY <2>2 DEF Begins, CallStep, Registers, Asks, Answered, Renames, Refused, Erases,
                Unwinds, AsksInterest, InterestAnswered, InterestRefused, Absent
  <2> QED BY <2>1, <2>2
<1>8. CASE x \in Deletes /\ Asked[x] \in NewIds(c) /\ ServerActs(x)
  <2>1. x \notin Makers
    BY <1>8, Constants DEF AllDisjoint
  <2>2. call[c] \notin Early
    BY <1>8, <2>1 DEF ServerActs, Kept, Absent, Kinds, Calls
  <2>3. Absent(Asked[x])'
    BY <1>8, <2>1 DEF ServerActs, Absent
  <2>4. sessions' = sessions /\ call[x] = "calling" /\ call'[x] = "acted"
    BY <1>8 DEF ServerActs, TypeOK
  <2>5. ASSUME NEW i \in NewIds(c), NEW d \in Deleting(i),
               call'[d] \in {"acted", "erase", "done"}
        PROVE  Absent(i)'
    BY <1>2, <1>7, <2>3, <2>5 DEF Kept, Deleting, Calls
  <2>6. Settles(c)' => Settles(c)
    BY <1>3, <1>6 DEF Settles
  <2>7. \A d \in Deleting(given[c]) : call[d] = "done" => call'[d] = "done"
    BY <1>2, <2>4 DEF Deleting, Calls
  <2> QED BY <1>3, <1>6, <2>2, <2>4, <2>5, <2>6, <2>7 DEF Kept
<1>9. CASE ~(x \in Deletes /\ Asked[x] \in NewIds(c) /\ ServerActs(x))
  <2>1. \A i \in NewIds(c) : \A d \in Deleting(i) :
            call'[d] \in {"acted", "erase", "done"} => call[d] \in {"acted", "erase", "done"}
    <3>1. SUFFICES ASSUME NEW i \in NewIds(c), NEW d \in Deleting(i), d = x,
                          call'[x] \in {"acted", "erase", "done"}
                   PROVE  call[x] \in {"acted", "erase", "done"}
      BY <1>2 DEF Deleting, Calls
    <3>2. x \in Deletes /\ x \notin Makers /\ Asked[x] \in NewIds(c)
      BY <3>1, Constants DEF Deleting, AllDisjoint
    <3> QED BY <1>9, <3>1, <3>2
           DEF Begins, CallStep, Registers, Asks, Sends, Answered, Renames, Refused, Erases,
               Unwinds, AsksInterest, InterestAnswered, InterestRefused, AfterAnswer, TypeOK,
               Kinds, Makers
  <2>2. \A i : \A d \in Deleting(i) : call[d] = "done" => call'[d] = "done"
    BY <1>2, CallMoves DEF Deleting, Calls
  <2>3. \/ sessions'[given[c]] = sessions[given[c]]
        \/ x \in Deleting(given[c]) /\ call'[x] = "done"
    <3>1. CASE Erases(x)
      <4>1. call'[x] = "done" \/ x \in Creates
        BY <3>1 DEF Erases, TypeOK
      <4>2. x \in Creates => idOf[x] # given[c]
        BY <1>4, <1>6 DEF Makers
      <4> QED BY <1>1, <1>5, <1>6, <3>1, <4>1, <4>2 DEF Erases, TypeOK, Deleting, Makers, Kinds
    <3>2. CASE Registers(x)
      <4>1. x \in Makers
        BY <3>2 DEF Registers, Kinds, Calls
      <4>2. Asked[x] # given[c] /\ given[x] # given[c]
        BY <1>4, <1>6, <4>1 DEF NewIds
      <4> QED BY <1>6, <3>2, <4>2 DEF Registers, TypeOK
    <3>3. CASE Renames(x)
      <4>1. x \in Makers
        BY <3>3 DEF Renames, Kinds, Calls
      <4>2. idOf[x] # given[c] /\ given[x] # given[c]
        BY <1>4, <1>6, <4>1
      <4> QED BY <1>6, <3>3, <4>2 DEF Renames, TypeOK
    <3>4. CASE ~Erases(x) /\ ~Registers(x) /\ ~Renames(x)
      BY <3>4 DEF Begins, ServerActs, CallStep, Asks, Answered, Refused, Unwinds,
                  AsksInterest, InterestAnswered, InterestRefused
    <3> QED BY <3>1, <3>2, <3>3, <3>4
  <2>4. Settles(c)' => Settles(c)
    BY <1>3, <1>6 DEF Settles
  <2> QED BY <1>3, <1>6, <1>7, <2>1, <2>2, <2>3, <2>4 DEF Kept
<1> QED BY <1>8, <1>9

\* The other threads take from the server and cancel what they take from the map.
Leaves ==
    /\ UNCHANGED <<idOf, given, call>> /\ served' \subseteq served
    /\ cancelled \subseteq cancelled'
    /\ \A i \in Ids : sessions'[i] = sessions[i] \/ sessions[i] \in cancelled' \cup {NoOne}

LEMMA OthersLeave ==
    ASSUME TypeOK, Steps
    PROVE  Leaves \/ \E c \in Calls : Begins(c) \/ ServerActs(c) \/ CallStep(c)
<1> USE DEF connVars, mapVars, callVars, taskVars, stopVars
<1>1. ASSUME NEW s \in Stops, StopBegins(s) \/ StopStep(s)
      PROVE  Leaves
  <2>1. CASE StopClears(s)
    BY <2>1 DEF StopClears, Leaves, InMap
  <2>2. CASE StopDestroyed(s)
    BY <2>2 DEF StopDestroyed, Leaves
  <2>3. CASE ~StopClears(s) /\ ~StopDestroyed(s)
    BY <1>1, <2>3 DEF StopBegins, StopStep, StopDestroys, StopTakes, StopCloses, StopJoins,
                      StopReleases, Leaves
  <2> QED BY <2>1, <2>2, <2>3
<1>2. ASSUME NEW n \in Conns, ReaderStep(n) \/ \E t \in Tasks \cup {NoOne} : Reads(n, t)
      PROVE  Leaves
    BY <1>2 DEF ReaderStep, Reads, LooksUp, Dispatches, ReaderEnds, Leaves
<1>3. ASSUME NEW t \in Tasks, TaskStep(t)
      PROVE  Leaves
    BY <1>3 DEF TaskStep, HandlerReturns, Answers, AnswerTaken, AnswerRefused, Leaves
<1>4. ASSUME NEW c \in Makers, UserDrops(c)
      PROVE  Leaves
    BY <1>4 DEF UserDrops, Leaves
<1>5. ASSUME NEW n \in Conns, Starts(n)
      PROVE  Leaves
    BY <1>5 DEF Starts, Leaves
<1>6. ASSUME NEW th \in Threads, Destroyed(th)
      PROVE  Leaves
    BY <1>6 DEF Destroyed, Leaves
<1> QED BY <1>1, <1>2, <1>3, <1>4, <1>5, <1>6 DEF Steps

LEMMA FoundStep ==
    ASSUME OwnIds, TypeOK, Kinds, FoundInv, [Next]_vars
    PROVE  FoundInv'
<1>1. CASE Leaves
  <2>1. Origins'
    BY <1>1 DEF Leaves, FoundInv, Origins
  <2>2. ASSUME NEW c \in Creates, Unresumed(c)'
        PROVE  Kept(c)'
    <3>1. Kept(c) /\ c # NoOne /\ given[c] \in Ids
      BY <1>1, <2>2, Constants DEF Leaves, Unresumed, FoundInv, Calls, Makers, TypeOK
    <3>2. Settles(c)' <=> Settles(c)
      BY <1>1 DEF Leaves, Settles
    <3>3. \A i \in NewIds(c) : Absent(i) => Absent(i)'
      BY <1>1 DEF Leaves, Absent
    <3> QED BY <1>1, <3>1, <3>2, <3>3 DEF Leaves, Kept
  <2> QED BY <2>1, <2>2 DEF FoundInv
<1>2. ASSUME NEW x \in Calls, Begins(x) \/ ServerActs(x) \/ CallStep(x)
      PROVE  FoundInv'
  <2>1. Origins'
    BY <1>2, OriginsByCall DEF FoundInv
  <2>2. ASSUME NEW c \in Creates, Unresumed(c)'
        PROVE  Kept(c)'
    <3>1. \A r \in Resumes : r \in Calls /\ (call[r] = "idle" \/ call'[r] # "idle")
      BY <1>2, CallMoves, NotIdle DEF Calls, Makers
    <3>2. Kept(c)
      BY <2>2, <3>1 DEF Unresumed, FoundInv
    <3> QED BY <1>2, <2>2, <3>2, KeptByItself, KeptByOther DEF FoundInv
  <2> QED BY <2>1, <2>2 DEF FoundInv
<1>3. UNCHANGED vars => Leaves
    BY DEF vars, mapVars, callVars, stopVars, Leaves
<1> QED BY <1>1, <1>2, <1>3, OthersLeave DEF Next

\* An event of a session that create_session is making or has made finds it, on every
\* connection and whatever stops and deletes overlap with the call, if the ids of the
\* sessions differ: from the server's act on if it keeps the id that was asked for, from the
\* renaming on if it does not.
THEOREM EventsFindTheirSession ==
    ASSUME OwnIds
    PROVE  Spec => []CreatedIsFound
<1>1. SessionInv /\ FoundInv /\ [Next]_vars => FoundInv'
    BY FoundStep DEF SessionInv
<1>2. SessionInv /\ FoundInv => CreatedIsFound
  <2> SUFFICES ASSUME SessionInv, FoundInv, NEW c \in Creates \ cancelled,
                      Settles(c), call[c] \in {"acted", "interest", "interesting", "done"},
                      <<given[c], rpc>> \in served,
                      \A r \in Resumes : Asked[r] \in NewIds(c) => call[r] = "idle"
               PROVE  sessions[given[c]] = c
    BY DEF CreatedIsFound, Settles
  <2>1. Kept(c) /\ rpc \in Conns /\ given[c] \in NewIds(c)
    BY DEF FoundInv, Unresumed, SessionInv, TypeOK, Origins, Makers
  <2> QED BY <2>1 DEF Kept, Absent
<1> QED BY <1>1, <1>2, FoundInit, Invariance, PTL DEF Spec
=============================================================================
