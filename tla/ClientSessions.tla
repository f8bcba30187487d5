--------------------------- MODULE ClientSessions ---------------------------
(***************************************************************************)
(* The sessions of a Client (src/client.cpp, src/session.cpp): the map     *)
(* sessions_ and mutex_, create_session, resume_session, delete_session,   *)
(* stop and force_stop, the events and requests that the read thread       *)
(* dispatches to a session, the background tasks that answer them through  *)
(* the client, and ~Session, which waits for those tasks.                  *)
(*                                                                         *)
(* A Session object carries the name of the call that made it.  It is      *)
(* destroyed by whichever thread drops the last shared_ptr to it.  start() *)
(* is one step here (ClientConn has its insides), and so is the sending of *)
(* a request; that a request ends by an answer, by its 30 s limit while    *)
(* the connection runs, or when stop() has joined the threads, is what     *)
(* JsonRpc shows.  A handler of the application runs on its task and       *)
(* returns.                                                                *)
(*                                                                         *)
(* A definition named ...Bug is a faulty variant of the one that follows   *)
(* it and no part of Next.                                                 *)
(***************************************************************************)
EXTENDS Naturals

CONSTANTS Creates,    \* calls of create_session
          Resumes,    \* calls of resume_session
          Deletes,    \* calls of delete_session
          Asked,      \* the session id each of these calls names
          Offered,    \* the session ids the server may answer with
          Interested, \* those of them that register an interest in OAuth events
          Stops,      \* calls of stop() and force_stop()
          Tasks,      \* requests of the server that a background task answers
          Kind,       \* what each of them asks for
          MaxConn,    \* how many connections the client makes
          User,       \* the threads of the application that only hold sessions
          NoOne

Makers == Creates \cup Resumes
Calls  == Makers \cup Deletes
Ids    == {Asked[c] : c \in Calls} \cup UNION {Offered[c] : c \in Makers}
Conns  == 1..MaxConn
Threads == Calls \cup Stops \cup Conns \cup {User}

ASSUME SessionAssumption ==
    /\ MaxConn \in Nat \ {0}
    /\ Creates \cap Resumes = {} /\ Deletes \cap Makers = {}
    /\ Kind \in [Tasks -> {"tool", "permission", "input"}]
    /\ Interested \subseteq Makers
    /\ \A c \in Makers : Offered[c] # {}
    /\ NoOne \notin Calls \cup Stops \cup Tasks \cup Ids
    /\ Calls \cap Stops = {} /\ (Conns \cup {User, NoOne}) \cap (Calls \cup Stops) = {}

VARIABLES
    connected,   \* state_ is Connected
    holder,      \* who holds mutex_ beyond one step
    rpc,         \* rpc_: the connection, or 0
    running,     \* each connection: "up", then running_ cleared, then its threads joined
    reader,      \* its read thread, with what it has in hand
    sessions,    \* sessions_
    idOf,        \* session_id_
    call,        \* where each call of the client is
    callRpc,     \* the connection of the request it waits for
    given,       \* the session id in its answer
    task,        \* where each background task is
    taskRpc,     \* the connection of the request it waits for
    owner,       \* the session whose background_tasks_ it is in
    retried,     \* the tasks that answer for the second time
    cancelled,   \* the sessions with tool_invocations_cancelled_
    user,        \* the sessions the application holds
    dying,       \* the sessions whose destructor each thread is in
    dead,        \* the sessions that are no more
    stop,        \* where each stop() is
    stopRpc,     \* the connection it waits for, then the one it has moved out
    snapshot,    \* the sessions it found, which it holds until it returns
    served,      \* the sessions the server has on each connection
    overtaken,   \* tasks whose handler was running when their session was cancelled
    late         \* tool results that were sent after that

connVars == <<connected, holder, rpc, running>>
mapVars  == <<sessions, idOf, user>>
callVars == <<call, callRpc, given>>
taskVars == <<task, taskRpc, owner, retried, late>>
stopVars == <<stop, stopRpc, snapshot, cancelled, overtaken>>
vars == <<connVars, reader, mapVars, callVars, taskVars, dying, dead, stopVars, served>>

CallPc == {"idle", "register", "call", "calling", "acted", "rename", "erase", "unwind",
           "interest", "interesting", "done", "failed", "crashed"}
TaskPc == {"idle", "unheard", "handler", "ready", "answering", "done", "dropped", "crashed"}
StopPc == {"idle", "destroy", "destroying", "take", "clear", "close", "join", "release",
           "done", "crashed"}
Idle   == [at |-> "reading", task |-> NoOne, id |-> NoOne, session |-> NoOne]
InMap  == {sessions[i] : i \in Ids} \ {NoOne}

Init ==
    /\ connected = TRUE /\ holder = NoOne /\ rpc = 1
    /\ running = [n \in Conns |-> IF n = 1 THEN "up" ELSE "none"]
    /\ reader = [n \in Conns |-> Idle]
    /\ sessions = [i \in Ids |-> NoOne]
    /\ idOf = [c \in Makers |-> Asked[c]]
    /\ call = [c \in Calls |-> "idle"] /\ callRpc = [c \in Calls |-> 0]
    /\ given = [c \in Makers |-> Asked[c]]
    /\ task = [t \in Tasks |-> "idle"] /\ taskRpc = [t \in Tasks |-> 0]
    /\ owner = [t \in Tasks |-> NoOne]
    /\ retried = {} /\ cancelled = {} /\ user = {} /\ dead = {}
    /\ dying = [th \in Threads |-> {}]
    /\ stop = [s \in Stops |-> "idle"] /\ stopRpc = [s \in Stops |-> 0]
    /\ snapshot = [s \in Stops |-> {}]
    /\ served = {} /\ overtaken = {} /\ late = {}

-----------------------------------------------------------------------------
(* Who keeps a session alive.                                              *)

\* The local shared_ptr of the call that made it.
HeldByCall(c) ==
    \/ call[c] \in {"register", "rename", "unwind", "interest", "interesting", "crashed"}
    \/ c \in Creates /\ call[c] \in {"call", "calling", "acted", "erase"}

Held(c) ==
    \/ c \in InMap \/ c \in user \/ HeldByCall(c)
    \/ \E n \in Conns : reader[n].session = c
    \/ \E s \in Stops : c \in snapshot[s]

\* The thread th, which has just let go of a session, runs the destructors of
\* those nobody holds any more.
Drops(th) == dying' = [dying EXCEPT ![th] = {c \in Makers : Held(c) /\ ~Held(c)'}]
InMutex(th) == holder' = IF dying'[th] = {} THEN NoOne ELSE th

Active(t)  == task[t] \in {"handler", "ready", "answering"}
Free(th)   == dying[th] = {}

\* The destructor does not wait.
DestroyedBug(th) ==
    /\ ~Free(th)
    /\ dead' = dead \cup dying[th]
    /\ dying' = [dying EXCEPT ![th] = {}]
    /\ holder' = IF holder = th /\ th \notin Stops THEN NoOne ELSE holder
    /\ UNCHANGED <<connected, rpc, running, reader, mapVars, callVars, taskVars, stopVars,
                   served>>

\* ~Session takes the tasks and waits for each of them.
Destroyed(th) ==
    /\ ~Free(th)
    /\ \A t \in Tasks : owner[t] \in dying[th] => task[t] \in {"done", "dropped"}
    /\ dead' = dead \cup dying[th]
    /\ dying' = [dying EXCEPT ![th] = {}]
    /\ holder' = IF holder = th /\ th \notin Stops THEN NoOne ELSE holder
    /\ UNCHANGED <<connected, rpc, running, reader, mapVars, callVars, taskVars, stopVars,
                   served>>

\* The application lets go of a session it was given.
UserDrops(c) ==
    /\ c \in user /\ Free(User)
    /\ user' = user \ {c}
    /\ UNCHANGED <<connVars, reader, sessions, idOf, callVars, taskVars, dead, stopVars,
                   served>>
    /\ Drops(User)

-----------------------------------------------------------------------------
(* Requests through rpc_, by whoever: the pointer is read without a lock.  *)

\* The read thread takes messages; it may have one in hand when stop() begins.
Listens(n) == reader[n].at = "reading" /\ Free(n)

\* Then it tests running_ and goes round again, or ends.
GoesRound(n) ==
    reader' = [reader EXCEPT
                  ![n] = [Idle EXCEPT !.at = IF running[n] = "up" THEN @ ELSE "ended"]]

\* An error, the limit of 30 s, or the sweep at the end of JsonRpcClient::stop.
RequestFails(n) == running[n] \in {"up", "stopped"}

CallGoto(c, pc) == call' = [call EXCEPT ![c] = pc]

\* The next place of a call that has sent its request, found the transport
\* closed, or used a null rpc_.
Sends(c, sent, failed) ==
    /\ callRpc' = [callRpc EXCEPT ![c] = rpc]
    /\ CallGoto(c, CASE rpc = 0 -> "crashed"
                     [] rpc # 0 /\ running[rpc] = "up" -> sent
                     [] OTHER -> failed)

-----------------------------------------------------------------------------
(* create_session, resume_session and delete_session.                      *)

\* A session is put into the map when its answer is there.
BeginsBug(c) ==
    /\ call[c] = "idle"
    /\ CallGoto(c, IF ~connected THEN "failed" ELSE "call")
    /\ UNCHANGED <<connVars, reader, mapVars, callRpc, given, taskVars, dying, dead,
                   stopVars, served>>

\* state_ is tested; auto_start is a start() before this step.
Begins(c) ==
    /\ call[c] = "idle"
    /\ CallGoto(c, IF ~connected THEN "failed"
                   ELSE IF c \in Creates THEN "register" ELSE "call")
    /\ UNCHANGED <<connVars, reader, mapVars, callRpc, given, taskVars, dying, dead,
                   stopVars, served>>

AfterRegister(c) ==
    CASE c \in Creates   -> "call"
      [] c \in Interested \ Creates -> "interest"
      [] OTHER           -> "done"

\* A create registers the id it asks for before it asks, a resume the id it was
\* given after.
Registers(c) ==
    /\ call[c] = "register" /\ holder = NoOne
    /\ LET i == IF c \in Creates THEN Asked[c] ELSE given[c]
       IN  /\ sessions' = [sessions EXCEPT ![i] = c]
           /\ idOf' = [idOf EXCEPT ![c] = i]
    /\ CallGoto(c, AfterRegister(c))
    /\ user' = IF AfterRegister(c) = "done" THEN user \cup {c} ELSE user
    /\ UNCHANGED <<connected, rpc, running, reader, callRpc, given, taskVars, dead,
                   stopVars, served>>
    /\ Drops(c) /\ InMutex(c)

Asks(c) ==
    /\ call[c] = "call" /\ Free(c)
    /\ Sends(c, "calling", IF c \in Creates THEN "erase" ELSE "failed")
    /\ UNCHANGED <<connVars, reader, mapVars, given, taskVars, dying, dead, stopVars,
                   served>>

\* The server makes or finds the session, or deletes one that it has.
ServerActs(c) ==
    /\ call[c] = "calling" /\ running[callRpc[c]] = "up"
    /\ \/ /\ c \in Makers
          /\ \E i \in Offered[c] :
                /\ given' = [given EXCEPT ![c] = i]
                /\ served' = served \cup {<<i, callRpc[c]>>}
       \/ /\ c \in Deletes /\ <<Asked[c], callRpc[c]>> \in served
          /\ served' = served \ ({Asked[c]} \X Conns)
          /\ UNCHANGED given
    /\ CallGoto(c, "acted")
    /\ UNCHANGED <<connVars, reader, mapVars, callRpc, taskVars, dying, dead, stopVars>>

AfterAnswer(c) ==
    CASE c \in Deletes    -> "erase"
      [] c \in Resumes    -> "register"
      [] c \in Creates /\ given[c] # Asked[c] -> "rename"
      [] c \in Creates /\ given[c] = Asked[c] /\ c \in Interested -> "interest"
      [] OTHER            -> "done"

\* The answer, once the server has acted.
Answered(c) ==
    /\ call[c] = "acted" /\ Listens(callRpc[c])
    /\ CallGoto(c, AfterAnswer(c))
    /\ user' = IF AfterAnswer(c) = "done" THEN user \cup {c} ELSE user
    /\ UNCHANGED <<connVars, reader, sessions, idOf, callRpc, given, taskVars, dead,
                   stopVars, served>>
    /\ Drops(c)

\* The server has chosen another id for a new session.
Renames(c) ==
    /\ call[c] = "rename" /\ holder = NoOne
    /\ sessions' = [sessions EXCEPT ![idOf[c]] = NoOne, ![given[c]] = c]
    /\ idOf' = [idOf EXCEPT ![c] = given[c]]
    /\ CallGoto(c, IF c \in Interested THEN "interest" ELSE "done")
    /\ user' = IF c \in Interested THEN user ELSE user \cup {c}
    /\ UNCHANGED <<connected, rpc, running, reader, callRpc, given, taskVars, dead,
                   stopVars, served>>
    /\ Drops(c) /\ InMutex(c)

Refused(c) ==
    /\ call[c] \in {"calling", "acted"} /\ RequestFails(callRpc[c])
    /\ CallGoto(c, IF c \in Creates THEN "erase" ELSE "failed")
    /\ UNCHANGED <<connVars, reader, mapVars, callRpc, given, taskVars, dying, dead,
                   stopVars, served>>

\* A failed create is left to the next stop().
ErasesBug(c) ==
    /\ call[c] = "erase" /\ holder = NoOne
    /\ CallGoto(c, IF c \in Creates THEN "unwind" ELSE "done")
    /\ UNCHANGED <<connVars, reader, mapVars, callRpc, given, taskVars, dying, dead,
                   stopVars, served>>

\* A create that failed, or a delete that succeeded, erases the id under mutex_.
Erases(c) ==
    /\ call[c] = "erase" /\ holder = NoOne
    /\ sessions' = [sessions EXCEPT ![IF c \in Creates THEN idOf[c] ELSE Asked[c]] = NoOne]
    /\ CallGoto(c, IF c \in Creates THEN "unwind" ELSE "done")
    /\ UNCHANGED <<connected, rpc, running, reader, idOf, user, callRpc, given, taskVars,
                   dead, stopVars, served>>
    /\ Drops(c) /\ InMutex(c)

\* Only then goes the call's own shared_ptr.
Unwinds(c) ==
    /\ call[c] = "unwind" /\ Free(c)
    /\ CallGoto(c, "failed")
    /\ UNCHANGED <<connVars, reader, mapVars, callRpc, given, taskVars, dead, stopVars,
                   served>>
    /\ Drops(c)

\* session.eventLog.registerInterest: when it fails the call throws, and the
\* session stays where it is.
AsksInterest(c) ==
    /\ call[c] = "interest" /\ Free(c)
    /\ Sends(c, "interesting", "failed")
    /\ UNCHANGED <<connVars, reader, mapVars, given, taskVars, dead, stopVars, served>>
    /\ Drops(c)

InterestAnswered(c) ==
    /\ call[c] = "interesting" /\ Listens(callRpc[c])
    /\ CallGoto(c, "done")
    /\ user' = user \cup {c}
    /\ UNCHANGED <<connVars, reader, sessions, idOf, callRpc, given, taskVars, dying, dead,
                   stopVars, served>>

InterestRefused(c) ==
    /\ call[c] = "interesting" /\ RequestFails(callRpc[c])
    /\ CallGoto(c, "failed")
    /\ UNCHANGED <<connVars, reader, mapVars, callRpc, given, taskVars, dead, stopVars,
                   served>>
    /\ Drops(c)

CallStep(c) ==
    \/ Registers(c) \/ Asks(c) \/ Answered(c) \/ Renames(c) \/ Refused(c) \/ Erases(c)
    \/ Unwinds(c) \/ AsksInterest(c) \/ InterestAnswered(c) \/ InterestRefused(c)

-----------------------------------------------------------------------------
(* The read threads.                                                       *)

\* An event of a session the server has; one that asks for something is a task.
Reads(n, t) ==
    /\ Listens(n) /\ running[n] # "stopped"
    /\ t # NoOne => task[t] = "idle" /\ \A m \in Conns : reader[m].task # t
    /\ \E i \in Ids :
          /\ <<i, n>> \in served
          /\ reader' = [reader EXCEPT ![n] = [at |-> "looking", task |-> t, id |-> i,
                                              session |-> NoOne]]
    /\ UNCHANGED <<connVars, mapVars, callVars, taskVars, dying, dead, stopVars, served>>

\* get_session, under mutex_.
LooksUp(n) ==
    /\ reader[n].at = "looking" /\ holder = NoOne
    /\ LET t == reader[n].task
           c == sessions[reader[n].id]
       IN  IF c = NoOne
           THEN /\ GoesRound(n)
                /\ task' = IF t = NoOne THEN task ELSE [task EXCEPT ![t] = "unheard"]
           ELSE /\ reader' = [reader EXCEPT ![n] = [@ EXCEPT !.at = "dispatching",
                                                             !.session = c]]
                /\ UNCHANGED task
    /\ UNCHANGED <<connVars, mapVars, callVars, taskRpc, owner, retried, late, dying, dead,
                   stopVars, served>>

\* The thread lets go of the session under mutex_.
DispatchesBug(n) ==
    /\ reader[n].at = "dispatching" /\ holder = NoOne
    /\ GoesRound(n)
    /\ LET t == reader[n].task
       IN  /\ task' = IF t = NoOne THEN task ELSE [task EXCEPT ![t] = "handler"]
           /\ owner' = IF t = NoOne THEN owner ELSE [owner EXCEPT ![t] = reader[n].session]
    /\ UNCHANGED <<connected, rpc, running, mapVars, callVars, taskRpc, retried, late, dead,
                   stopVars, served>>
    /\ Drops(n) /\ InMutex(n)

\* dispatch_event starts the task and calls the event handlers; then the thread
\* lets go of the session.
Dispatches(n) ==
    /\ reader[n].at = "dispatching"
    /\ GoesRound(n)
    /\ LET t == reader[n].task
       IN  /\ task' = IF t = NoOne THEN task ELSE [task EXCEPT ![t] = "handler"]
           /\ owner' = IF t = NoOne THEN owner ELSE [owner EXCEPT ![t] = reader[n].session]
    /\ UNCHANGED <<connVars, mapVars, callVars, taskRpc, retried, late, dead, stopVars,
                   served>>
    /\ Drops(n)

ReaderEnds(n) ==
    /\ Listens(n) /\ running[n] = "stopping"
    /\ reader' = [reader EXCEPT ![n].at = "ended"]
    /\ UNCHANGED <<connVars, mapVars, callVars, taskVars, dying, dead, stopVars, served>>

ReaderStep(n) == LooksUp(n) \/ Dispatches(n) \/ ReaderEnds(n)

-----------------------------------------------------------------------------
(* The background tasks.                                                   *)

TaskGoto(t, pc) == task' = [task EXCEPT ![t] = pc]
ToolIsCancelled(t) == Kind[t] = "tool" /\ owner[t] \in cancelled

\* The flag is not looked at.
HandlerReturnsBug(t) ==
    /\ task[t] = "handler"
    /\ \/ TaskGoto(t, "ready")
       \/ Kind[t] # "tool" /\ TaskGoto(t, "done")
    /\ UNCHANGED <<connVars, reader, mapVars, callVars, taskRpc, owner, retried, late,
                   dying, dead, stopVars, served>>

\* The handler returns or throws.  A tool that was cancelled drops its result; a
\* permission may be left undecided, and a user input that throws is not answered.
HandlerReturns(t) ==
    /\ task[t] = "handler"
    /\ \/ TaskGoto(t, IF ToolIsCancelled(t) THEN "dropped" ELSE "ready")
       \/ Kind[t] # "tool" /\ TaskGoto(t, "done")
    /\ UNCHANGED <<connVars, reader, mapVars, callVars, taskRpc, owner, retried, late,
                   dying, dead, stopVars, served>>

\* The second answer of a tool goes out whatever has become of its session.
AnswerFailsBug(t) ==
    IF Kind[t] = "input" \/ t \in retried
    THEN TaskGoto(t, "done") /\ UNCHANGED retried
    ELSE TaskGoto(t, "ready") /\ retried' = retried \cup {t}

\* The catch blocks of tools and permissions answer once more, the tools only if
\* they have not been cancelled.
AnswerFails(t) ==
    IF Kind[t] = "input" \/ t \in retried
    THEN TaskGoto(t, "done") /\ UNCHANGED retried
    ELSE /\ TaskGoto(t, IF ToolIsCancelled(t) THEN "dropped" ELSE "ready")
         /\ retried' = retried \cup {t}

\* Session::invoke.
Answers(t) ==
    /\ task[t] = "ready"
    /\ CASE rpc = 0 -> TaskGoto(t, "crashed") /\ UNCHANGED retried
         [] rpc # 0 /\ running[rpc] = "up" -> TaskGoto(t, "answering") /\ UNCHANGED retried
         [] OTHER -> AnswerFails(t)
    /\ taskRpc' = [taskRpc EXCEPT ![t] = rpc]
    /\ late' = IF ToolIsCancelled(t) THEN late \cup {t} ELSE late
    /\ UNCHANGED <<connVars, reader, mapVars, callVars, owner, dying, dead, stopVars,
                   served>>

AnswerTaken(t) ==
    /\ task[t] = "answering" /\ Listens(taskRpc[t])
    /\ TaskGoto(t, "done")
    /\ UNCHANGED <<connVars, reader, mapVars, callVars, taskRpc, owner, retried, late,
                   dying, dead, stopVars, served>>

AnswerRefused(t) ==
    /\ task[t] = "answering" /\ RequestFails(taskRpc[t])
    /\ AnswerFails(t)
    /\ UNCHANGED <<connVars, reader, mapVars, callVars, taskRpc, owner, late, dying, dead,
                   stopVars, served>>

TaskStep(t) == HandlerReturns(t) \/ Answers(t) \/ AnswerTaken(t) \/ AnswerRefused(t)

-----------------------------------------------------------------------------
(* start(), stop() and force_stop().                                       *)

Starts(n) ==
    /\ ~connected /\ holder = NoOne
    /\ running[n] = "none" /\ running[n - 1] # "none"
    /\ connected' = TRUE /\ rpc' = n
    /\ running' = [running EXCEPT ![n] = "up"]
    /\ UNCHANGED <<holder, reader, mapVars, callVars, taskVars, dying, dead, stopVars,
                   served>>

StopGoto(s, pc) == stop' = [stop EXCEPT ![s] = pc]

\* stop() first destroys the sessions it finds; force_stop() does not look.
StopBegins(s) ==
    /\ stop[s] = "idle"
    /\ \/ StopGoto(s, "take") /\ UNCHANGED snapshot
       \/ /\ holder = NoOne
          /\ snapshot' = [snapshot EXCEPT ![s] = InMap]
          /\ StopGoto(s, IF InMap = {} THEN "take" ELSE "destroy")
    /\ UNCHANGED <<connVars, reader, mapVars, callVars, taskVars, dying, dead, stopRpc,
                   cancelled, overtaken, served>>

\* session->destroy(), for one of them after the other: in the code a request for each
\* session of the snapshot, here one request for them all.
StopDestroys(s) ==
    /\ stop[s] = "destroy"
    /\ stopRpc' = [stopRpc EXCEPT ![s] = rpc]
    /\ StopGoto(s, CASE rpc = 0 -> "crashed"
                     [] rpc # 0 /\ running[rpc] = "up" -> "destroying"
                     [] OTHER -> "take")
    /\ UNCHANGED <<connVars, reader, mapVars, callVars, taskVars, dying, dead, snapshot,
                   cancelled, overtaken, served>>

\* It is answered, or its error is put into the list that stop() returns.
StopDestroyed(s) ==
    /\ stop[s] = "destroying"
    /\ \/ /\ Listens(stopRpc[s])
          /\ served' = served \ {<<idOf[c], stopRpc[s]>> : c \in snapshot[s]}
       \/ RequestFails(stopRpc[s]) /\ UNCHANGED served
    /\ StopGoto(s, "take")
    /\ UNCHANGED <<connVars, reader, mapVars, callVars, taskVars, dying, dead, snapshot,
                   stopRpc, cancelled, overtaken>>

\* The sessions stay in the map.
StopClearsBug(s) ==
    /\ stop[s] = "take" /\ holder = NoOne
    /\ cancelled' = cancelled \cup InMap
    /\ overtaken' = overtaken \cup {t \in Tasks : task[t] = "handler" /\ owner[t] \in InMap}
    /\ holder' = s
    /\ StopGoto(s, "clear")
    /\ UNCHANGED <<connected, rpc, running, reader, mapVars, callVars, taskVars, dying, dead,
                   stopRpc, snapshot, served>>

\* Under mutex_: the tools are cancelled, the map is cleared, and sessions that
\* only the map held are destroyed here.
StopClears(s) ==
    /\ stop[s] = "take" /\ holder = NoOne
    /\ cancelled' = cancelled \cup InMap
    /\ overtaken' = overtaken \cup {t \in Tasks : task[t] = "handler" /\ owner[t] \in InMap}
    /\ sessions' = [i \in Ids |-> NoOne]
    /\ holder' = s
    /\ StopGoto(s, "clear")
    /\ UNCHANGED <<connected, rpc, running, reader, idOf, user, callVars, taskVars, dead,
                   stopRpc, snapshot, served>>
    /\ Drops(s)

\* Still under mutex_: rpc_ moves out.
StopTakes(s) ==
    /\ stop[s] = "clear" /\ Free(s)
    /\ connected' = FALSE /\ rpc' = 0 /\ holder' = NoOne
    /\ stopRpc' = [stopRpc EXCEPT ![s] = rpc]
    /\ StopGoto(s, IF rpc = 0 THEN "release" ELSE "close")
    /\ UNCHANGED <<running, reader, mapVars, callVars, taskVars, dying, dead, snapshot,
                   cancelled, overtaken, served>>

\* JsonRpcClient::stop: running_ is cleared, which also ends the timeout thread,
\* and the transport is closed ...
StopCloses(s) ==
    /\ stop[s] = "close"
    /\ running' = [running EXCEPT ![stopRpc[s]] = "stopping"]
    /\ StopGoto(s, "join")
    /\ UNCHANGED <<connected, holder, rpc, reader, mapVars, callVars, taskVars, dying, dead,
                   stopRpc, snapshot, cancelled, overtaken, served>>

\* The requests that are still pending are not failed.
StopJoinsBug(s) ==
    /\ stop[s] = "join" /\ reader[stopRpc[s]].at = "ended"
    /\ StopGoto(s, "release")
    /\ UNCHANGED <<connVars, reader, mapVars, callVars, taskVars, dying, dead, stopRpc,
                   snapshot, cancelled, overtaken, served>>

\* ... the read thread is joined, and the requests that are left are failed.
StopJoins(s) ==
    /\ stop[s] = "join" /\ reader[stopRpc[s]].at = "ended"
    /\ running' = [running EXCEPT ![stopRpc[s]] = "stopped"]
    /\ StopGoto(s, "release")
    /\ UNCHANGED <<connected, holder, rpc, reader, mapVars, callVars, taskVars, dying, dead,
                   stopRpc, snapshot, cancelled, overtaken, served>>

\* The locals go; stop() has returned when the destructors have.
StopReleases(s) ==
    /\ stop[s] = "release"
    /\ snapshot' = [snapshot EXCEPT ![s] = {}]
    /\ StopGoto(s, "done")
    /\ UNCHANGED <<connVars, reader, mapVars, callVars, taskVars, dead, stopRpc, cancelled,
                   overtaken, served>>
    /\ Drops(s)

StopStep(s) ==
    \/ StopDestroys(s) \/ StopDestroyed(s) \/ StopClears(s) \/ StopTakes(s) \/ StopCloses(s)
    \/ StopJoins(s) \/ StopReleases(s)

-----------------------------------------------------------------------------

\* A request through a null rpc_ ends the program.
Crashed ==
    \/ \E c \in Calls : call[c] = "crashed"
    \/ \E t \in Tasks : task[t] = "crashed"
    \/ \E s \in Stops : stop[s] = "crashed"

Steps ==
    \/ \E c \in Calls : Begins(c) \/ ServerActs(c) \/ CallStep(c)
    \/ \E c \in Makers : UserDrops(c)
    \/ \E n \in Conns : ReaderStep(n) \/ \E t \in Tasks \cup {NoOne} : Reads(n, t)
    \/ \E t \in Tasks : TaskStep(t)
    \/ \E n \in Conns \ {1} : Starts(n)
    \/ \E s \in Stops : StopBegins(s) \/ StopStep(s)
    \/ \E th \in Threads : Destroyed(th)

Next == ~Crashed /\ Steps

Spec == Init /\ [][Next]_vars

\* Every thread runs; a handler returns; the limit of a request passes.  Nothing
\* makes the application call, or the server send or answer.
Fairness ==
    /\ \A c \in Calls : WF_vars(~Crashed /\ CallStep(c))
    /\ \A n \in Conns : WF_vars(~Crashed /\ ReaderStep(n))
    /\ \A t \in Tasks : WF_vars(~Crashed /\ TaskStep(t))
    /\ \A s \in Stops : WF_vars(~Crashed /\ StopStep(s))
    /\ \A th \in Threads : WF_vars(~Crashed /\ Destroyed(th))

FairSpec == Spec /\ Fairness

-----------------------------------------------------------------------------
(* Properties.                                                             *)

TypeOK ==
    /\ connected \in BOOLEAN
    /\ holder \in Calls \cup Stops \cup {NoOne}
    /\ rpc \in 0..MaxConn
    /\ running \in [Conns -> {"none", "up", "stopping", "stopped"}]
    /\ reader \in [Conns -> [at : {"reading", "looking", "dispatching", "ended"},
                             task : Tasks \cup {NoOne}, id : Ids \cup {NoOne},
                             session : Makers \cup {NoOne}]]
    /\ sessions \in [Ids -> Makers \cup {NoOne}]
    /\ idOf \in [Makers -> Ids]
    /\ call \in [Calls -> CallPc] /\ callRpc \in [Calls -> 0..MaxConn]
    /\ given \in [Makers -> Ids]
    /\ task \in [Tasks -> TaskPc] /\ taskRpc \in [Tasks -> 0..MaxConn]
    /\ owner \in [Tasks -> Makers \cup {NoOne}]
    /\ retried \subseteq Tasks /\ late \subseteq Tasks /\ overtaken \subseteq Tasks
    /\ cancelled \subseteq Makers /\ user \subseteq Makers /\ dead \subseteq Makers
    /\ dying \in [Threads -> SUBSET Makers]
    /\ stop \in [Stops -> StopPc] /\ stopRpc \in [Stops -> 0..MaxConn]
    /\ snapshot \in [Stops -> SUBSET Makers]
    /\ served \subseteq Ids \X Conns

\* A background task captures a bare this: its session is there as long as it runs,
\* whichever thread drops the session.
TasksHaveTheirSession ==
    \A t \in Tasks : Active(t) => owner[t] \in Makers \ dead

\* "once it returns we must not answer": a tool handler that was running when its
\* session was cancelled sends nothing any more, on that connection or another.
OvertakenToolsAreDropped ==
    \A t \in overtaken : Kind[t] = "tool" => task[t] \in {"handler", "dropped"}

\* A tool that sends its result after its session was cancelled, because it had passed the
\* test before, sends nothing after that: a failure of that answer is not answered again,
\* through a later connection.
LateAnswersAreLast ==
    \A t \in late : task[t] \in {"answering", "done", "dropped", "crashed"}

\* Whoever is in ~Session with mutex_ held waits only for answers that can come: over the
\* connection that rpc_ is, which runs, so that they are read or time out.  Over one that
\* a stop() has begun to close they could be held up by its read thread, which waits for
\* that mutex_ and which that stop() waits for.  It holds if the server has no events of an
\* id that a create asks for and is not given (RenamedIds), as in the instance of the run
\* sessions; sessions_rename_deadlock is what happens otherwise.
HolderGetsItsAnswers ==
    holder # NoOne =>
        \A t \in Tasks :
            owner[t] \in dying[holder] /\ task[t] = "answering" => running[taskRpc[t]] = "up"

\* Nobody waits in a circle: who is in ~Session with mutex_ held for a task, the task for
\* an answer, the read thread that would bring it for mutex_, and a stop(), which alone
\* could still fail the request, for that read thread.
NoCircle ==
    \A s \in Stops, t \in Tasks :
        ~ /\ holder # NoOne /\ owner[t] \in dying[holder]
          /\ task[t] = "answering" /\ taskRpc[t] = stopRpc[s]
          /\ stop[s] = "join" /\ reader[stopRpc[s]].at = "looking"

\* The connections that a call, a task or a stop() waits for an answer on.
Awaited ==
    {callRpc[c] : c \in {d \in Calls : call[d] \in {"calling", "acted", "interesting"}}}
    \cup {taskRpc[t] : t \in {u \in Tasks : task[u] = "answering"}}
    \cup {stopRpc[s] : s \in {r \in Stops : stop[r] = "destroying"}}

\* Nobody waits on a connection that was forgotten: it is rpc_, or its requests have been
\* failed, or a stop(), and one only, is still to do that.
RequestsHaveAnEnd ==
    \A n \in Awaited :
        \/ n = rpc \/ running[n] = "stopped"
        \/ \E s \in Stops : /\ stop[s] \in {"close", "join"} /\ stopRpc[s] = n
                            /\ \A r \in Stops \ {s} :
                                  stop[r] \in {"close", "join"} => stopRpc[r] # n

\* The ids a new session may go by.
NewIds(c) == {Asked[c]} \cup Offered[c]

\* An event of a session that a create_session is making, or has made, finds it, unless the
\* application resumes one of its ids.  If the server keeps the id that was asked for, the map
\* has it from before the server does, until it is deleted there or a stop() clears the map;
\* if the server chooses another, only from the renaming on (RenamedIsFound).
CreatedIsFound ==
    \A c \in Creates \ cancelled :
        /\ \/ call[c] \in {"interest", "interesting", "done"}
           \/ call[c] = "acted" /\ given[c] = Asked[c]
        /\ <<given[c], rpc>> \in served
        /\ \A r \in Resumes : Asked[r] \in NewIds(c) => call[r] = "idle"
        => sessions[given[c]] = c

\* The same between the server's choice of another id and the renaming: it fails, events
\* under that id are dropped meanwhile.
RenamedIsFound ==
    \A c \in Creates \ cancelled :
        call[c] \in {"acted", "rename"} /\ <<given[c], rpc>> \in served => sessions[given[c]] = c

\* A create_session that threw because its request failed left nothing in the map,
\* under either id and whatever stop() did meanwhile.
FailedCreateLeavesNothing ==
    \A c \in Creates \ Interested : call[c] = "failed" => c \notin InMap

\* A call that was made returns or throws, also when a stop() and a start() overtake it,
\* unless a read thread itself is in ~Session, which may never end.
CallsReturn ==
    \A c \in Calls :
        (call[c] # "idle") ~> \/ call[c] \in {"done", "failed"} /\ Free(c)
                              \/ Crashed
                              \/ \E n \in Conns : ~Free(n)

\* stop() and force_stop() return, unless the read thread itself is in ~Session.
StopReturns ==
    \A s \in Stops :
        (stop[s] # "idle") ~> \/ stop[s] = "done" /\ Free(s)
                              \/ Crashed
                              \/ \E n \in Conns : ~Free(n)

\* The same, without the exception.
StopAlwaysReturns ==
    \A s \in Stops : (stop[s] # "idle") ~> (stop[s] = "done" /\ Free(s)) \/ Crashed

\* No tool result is sent over a connection after its session was cancelled.
NoAnswerAfterCancel == late = {}
=============================================================================
