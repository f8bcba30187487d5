----------------------------- MODULE ClientConn -----------------------------
(***************************************************************************)
(* Client::start, stop and force_stop (src/client.cpp): what the client    *)
(* owns (process_, rpc_, request_handler_bridge_, the announced port), who *)
(* holds mutex_ while it changes, the CLI process, and the read thread of  *)
(* each connection.                                                        *)
(*                                                                         *)
(* A connection, its JsonRpcClient, its transport and the process spawned  *)
(* for it carry the name of the start() call that made them.  transport_   *)
(* is left out: whatever it holds moves into rpc_ before mutex_ is         *)
(* released.  A wait with a limit (wait_for, a timeout of an RPC) may end  *)
(* by its limit at any moment.                                             *)
(*                                                                         *)
(* A definition named ...Bug is a faulty variant of the one that follows   *)
(* it and no part of Next.                                                 *)
(***************************************************************************)
CONSTANTS Starts,        \* calls of start(), each with a thread of its own
          Stops,         \* calls of stop() and force_stop()
          Forced,        \* those of Stops that are force_stop()
          None,          \* no connection, nobody
          Modes,         \* the connection kinds considered
          RetryFailed,   \* whether start() is called in state Error
          Events,        \* whether the server sends what a handler looks a session up for
          CliObeys       \* whether a CLI announces its port, and exits on SIGTERM

ASSUME ConnAssumption ==
    /\ Forced \subseteq Stops
    /\ None \notin Starts
    /\ Modes \subseteq {"stdio", "tcp", "uri", "inproc", "parent"}
    /\ {RetryFailed, Events, CliObeys} \subseteq BOOLEAN

VARIABLES
    mode,        \* RuntimeConnectionKind
    state,       \* state_
    holder,      \* the start() that holds mutex_, or None
    process,     \* process_
    rpc,         \* rpc_
    bridge,      \* request_handler_bridge_: the connection it was made for
    port,        \* parsed_port_ in mode "tcp": the process that announced it
    negotiated,  \* the connection of the last verified handshake
    child,       \* the operating system's process, by connection
    signalled,   \* the signal it was sent
    pipes,       \* its Process object's pipes
    reader,      \* the read thread of each connection
    closed,      \* JsonRpcClient::stop has run on it
    lost,        \* a server that is no child of ours has hung up
    starting,    \* where each start() is
    stopping,    \* where each stop() is
    taken        \* what each stop() moved out of the client

clientVars == <<state, holder, process, rpc, bridge, port, negotiated>>
worldVars  == <<child, signalled, pipes, reader, closed, lost>>
callVars   == <<starting, stopping, taken>>
vars == <<mode, clientVars, worldVars, callVars>>

Spawns    == mode \in {"stdio", "tcp"}
StartPc   == {"idle", "spawn", "dropProcess", "announce", "connect", "dropRpc", "joinOld",
              "attach", "handshake", "configure", "done", "failed"}
StopPc    == {"idle", "take", "dropBridge", "signal", "closePipes", "stopRpc", "join",
              "release", "done"}
Maybe     == Starts \cup {None}
Nothing   == [process |-> None, rpc |-> None]

Init ==
    /\ mode \in Modes
    /\ state = "Disconnected" /\ holder = None
    /\ process = None /\ rpc = None /\ bridge = None /\ port = None /\ negotiated = None
    /\ child = [c \in Starts |-> "none"]
    /\ signalled = [c \in Starts |-> "no"]
    /\ pipes = [c \in Starts |-> "none"]
    /\ reader = [c \in Starts |-> "none"]
    /\ closed = [c \in Starts |-> FALSE]
    /\ lost = [c \in Starts |-> FALSE]
    /\ starting = [c \in Starts |-> "idle"]
    /\ stopping = [s \in Stops |-> "idle"]
    /\ taken = [s \in Stops |-> Nothing]

-----------------------------------------------------------------------------
(* start()                                                                 *)

Goto(c, pc)    == starting' = [starting EXCEPT ![c] = pc]
StopGoto(s, pc) == stopping' = [stopping EXCEPT ![s] = pc]

\* The server at the other end: our child, or somebody else's.  In mode "tcp" it
\* is whoever announced the port, in this start() or in an earlier one.
Server(c)   == IF mode = "tcp" THEN port ELSE c
PeerGone(c) == IF Spawns THEN child[Server(c)] # "up" ELSE lost[c]

\* The catch block: state Error, everything made so far is kept.
Fails(c) ==
    /\ state' = "Error"
    /\ holder' = None
    /\ Goto(c, "failed")

\* mutex_ is taken and kept to the end; a connected client has nothing to do.
\* A port that is known, given or announced, is connected to.
StartBegins(c) ==
    /\ starting[c] = "idle" /\ holder = None
    /\ state = "Error" => RetryFailed
    /\ \/ /\ state = "Connected"
          /\ Goto(c, "done")
          /\ UNCHANGED <<state, holder>>
       \/ /\ state # "Connected"
          /\ state' = "Connecting"
          /\ holder' = c
          /\ Goto(c, IF Spawns /\ port = None THEN "spawn" ELSE "connect")
    /\ UNCHANGED <<mode, process, rpc, bridge, port, negotiated, worldVars, stopping, taken>>

\* A process left by a failed start() is forgotten instead of destroyed.
DropsProcessBug(c) ==
    /\ starting[c] = "spawn" /\ process # None
    /\ process' = None
    /\ Goto(c, "spawn")
    /\ UNCHANGED <<mode, state, holder, rpc, bridge, port, negotiated, worldVars, stopping, taken>>

\* process_ = make_unique<Process>() destroys a process left by a failed start():
\* ~Process closes its pipes, sends SIGTERM and waits.
DropsProcess(c) ==
    /\ starting[c] = "spawn" /\ process # None
    /\ pipes' = [pipes EXCEPT ![process] = "closed"]
    /\ signalled' = [signalled EXCEPT ![process] = IF child[process] = "up" THEN "term" ELSE @]
    /\ Goto(c, "dropProcess")
    /\ UNCHANGED <<mode, clientVars, child, reader, closed, lost, stopping, taken>>

\* ... until the child has exited or five seconds have passed.
ProcessDropped(c) ==
    /\ starting[c] = "dropProcess"
    /\ pipes' = [pipes EXCEPT ![process] = "destroyed"]
    /\ process' = None
    /\ Goto(c, "spawn")
    /\ UNCHANGED <<mode, state, holder, rpc, bridge, port, negotiated, child, signalled,
                   reader, closed, lost, stopping, taken>>

\* spawn(): fork and exec; on an error the Process object stays, without a child.
Spawn(c) ==
    /\ starting[c] = "spawn" /\ process = None
    /\ process' = c
    /\ \/ /\ child' = [child EXCEPT ![c] = "up"]
          /\ pipes' = [pipes EXCEPT ![c] = "open"]
          /\ Goto(c, IF mode = "tcp" THEN "announce" ELSE "connect")
          /\ UNCHANGED <<state, holder>>
       \/ Fails(c) /\ UNCHANGED <<child, pipes>>
    /\ UNCHANGED <<mode, rpc, bridge, port, negotiated, signalled, reader, closed, lost,
                   stopping, taken>>

\* A line without a number counts as port 0.
AnnounceBug(c) ==
    /\ starting[c] = "announce" /\ child[c] = "up"
    /\ port' \in {c, 0}
    /\ Goto(c, "connect")
    /\ UNCHANGED <<mode, state, holder, process, rpc, bridge, negotiated, worldVars,
                   stopping, taken>>

\* "listening on port N" on the child's stdout.
Announce(c) ==
    /\ starting[c] = "announce" /\ child[c] = "up"
    /\ port' = c
    /\ Goto(c, "connect")
    /\ UNCHANGED <<mode, state, holder, process, rpc, bridge, negotiated, worldVars,
                   stopping, taken>>

\* The 30 s limit is tested between two lines: read_line blocks while the child
\* lives and is silent.  A dead child looks alive until it is reaped, but its
\* stdout is at its end, so the loop goes round until the limit.
AnnounceFails(c) ==
    /\ starting[c] = "announce" /\ child[c] # "up"
    /\ Fails(c)
    /\ UNCHANGED <<mode, process, rpc, bridge, port, negotiated, worldVars, stopping, taken>>

\* A child that talks, but not of its port.
AnnounceGarbage(c) ==
    /\ starting[c] = "announce" /\ child[c] = "up"
    /\ Fails(c)
    /\ UNCHANGED <<mode, process, rpc, bridge, port, negotiated, worldVars, stopping, taken>>

\* The transport is made: pipes, a socket, the in-process runtime, our own stdio.
Connect(c) ==
    /\ starting[c] = "connect"
    /\ Spawns => child[Server(c)] = "up" \/ mode = "stdio"
    /\ Goto(c, IF rpc = None THEN "attach" ELSE "dropRpc")
    /\ UNCHANGED <<mode, clientVars, worldVars, stopping, taken>>

ConnectFails(c) ==
    /\ starting[c] = "connect" /\ mode \in {"tcp", "uri", "inproc"}
    /\ Fails(c)
    /\ UNCHANGED <<mode, process, rpc, bridge, port, negotiated, worldVars, stopping, taken>>

\* rpc_ = make_unique<JsonRpcClient>(...) destroys the client of a failed
\* start(): its stop() closes the transport ...
DropsRpc(c) ==
    /\ starting[c] = "dropRpc"
    /\ closed' = [closed EXCEPT ![rpc] = TRUE]
    /\ Goto(c, "joinOld")
    /\ UNCHANGED <<mode, clientVars, child, signalled, pipes, reader, lost, stopping, taken>>

\* The old read thread is not waited for.
RpcDroppedBug(c) ==
    /\ starting[c] = "joinOld"
    /\ rpc' = None
    /\ Goto(c, "attach")
    /\ UNCHANGED <<mode, state, holder, process, bridge, port, negotiated, worldVars,
                   stopping, taken>>

\* ... and joins its read thread, still under mutex_.
RpcDropped(c) ==
    /\ starting[c] = "joinOld" /\ reader[rpc] = "done"
    /\ rpc' = None
    /\ Goto(c, "attach")
    /\ UNCHANGED <<mode, state, holder, process, bridge, port, negotiated, worldVars,
                   stopping, taken>>

\* rpc_ and its bridge are set, the handlers are installed, the threads start.
Attach(c) ==
    /\ starting[c] = "attach"
    /\ rpc' = c /\ bridge' = c
    /\ reader' = [reader EXCEPT ![c] = "reading"]
    /\ Goto(c, "handshake")
    /\ UNCHANGED <<mode, state, holder, process, port, negotiated, child, signalled, pipes,
                   closed, lost, stopping, taken>>

\* verify_protocol_version: the answer comes through the read thread.
Handshake(c) ==
    /\ starting[c] = "handshake"
    /\ reader[c] = "reading" /\ ~PeerGone(c)
    /\ negotiated' = c
    /\ Goto(c, "configure")
    /\ UNCHANGED <<mode, state, holder, process, rpc, bridge, port, worldVars, stopping, taken>>

\* The calls that follow it: setProvider, plugins, session file system.
Configured(c) ==
    /\ starting[c] = "configure"
    /\ reader[c] = "reading" /\ ~PeerGone(c)
    /\ state' = "Connected" /\ holder' = None
    /\ Goto(c, "done")
    /\ UNCHANGED <<mode, process, rpc, bridge, port, negotiated, worldVars, stopping, taken>>

\* The calls have no timeout.
CallFailsBug(c) ==
    /\ starting[c] \in {"handshake", "configure"}
    /\ reader[c] \in {"reading", "done"}
    /\ Fails(c)
    /\ UNCHANGED <<mode, process, rpc, bridge, port, negotiated, worldVars, stopping, taken>>

\* Any of these calls is refused, times out or loses its connection.
CallFails(c) ==
    /\ starting[c] \in {"handshake", "configure"}
    /\ Fails(c)
    /\ UNCHANGED <<mode, process, rpc, bridge, port, negotiated, worldVars, stopping, taken>>

StartStep(c) ==
    \/ DropsProcess(c) \/ ProcessDropped(c) \/ Spawn(c) \/ AnnounceFails(c)
    \/ Connect(c) \/ ConnectFails(c) \/ DropsRpc(c) \/ RpcDropped(c) \/ Attach(c)
    \/ Handshake(c) \/ Configured(c) \/ CallFails(c)

-----------------------------------------------------------------------------
(* stop() and force_stop()                                                 *)

\* stop() first destroys the sessions it found, each by an RPC; that changes
\* nothing here.
StopBegins(s) ==
    /\ stopping[s] = "idle"
    /\ s \notin Forced => holder = None
    /\ StopGoto(s, "take")
    /\ UNCHANGED <<mode, clientVars, worldVars, starting, taken>>

\* mutex_ is not taken.
StopTakesBug(s) ==
    /\ stopping[s] = "take"
    /\ taken' = [taken EXCEPT ![s] = [process |-> process, rpc |-> rpc]]
    /\ process' = None /\ rpc' = None
    /\ state' = "Disconnected"
    /\ StopGoto(s, "dropBridge")
    /\ UNCHANGED <<mode, holder, bridge, port, negotiated, worldVars, starting>>

\* Under mutex_: everything moves out of the client.
StopTakes(s) ==
    /\ stopping[s] = "take" /\ holder = None
    /\ taken' = [taken EXCEPT ![s] = [process |-> process, rpc |-> rpc]]
    /\ process' = None /\ rpc' = None
    /\ state' = "Disconnected"
    /\ StopGoto(s, "dropBridge")
    /\ UNCHANGED <<mode, holder, bridge, port, negotiated, worldVars, starting>>

\* The bridge is cancelled and dropped without mutex_, whoever made it.
StopDropsBridge(s) ==
    /\ stopping[s] = "dropBridge"
    /\ bridge' = None
    /\ StopGoto(s, IF taken[s].process = None THEN "stopRpc" ELSE "signal")
    /\ UNCHANGED <<mode, state, holder, process, rpc, port, negotiated, worldVars, starting, taken>>

\* terminate() or kill(), then wait_for: until the child has exited or five
\* seconds have passed.
StopSignals(s) ==
    /\ stopping[s] = "signal"
    /\ LET p == taken[s].process
       IN  signalled' = IF child[p] = "up"
                        THEN [signalled EXCEPT ![p] = IF s \in Forced THEN "kill" ELSE "term"]
                        ELSE signalled
    /\ StopGoto(s, "closePipes")
    /\ UNCHANGED <<mode, clientVars, child, pipes, reader, closed, lost, starting, taken>>

\* The Process is destroyed here, before the connection that reads its pipes.
StopClosesPipesBug(s) ==
    /\ stopping[s] = "closePipes"
    /\ pipes' = [pipes EXCEPT ![taken[s].process] = "destroyed"]
    /\ StopGoto(s, "stopRpc")
    /\ UNCHANGED <<mode, clientVars, child, signalled, reader, closed, lost, starting, taken>>

StopClosesPipes(s) ==
    /\ stopping[s] = "closePipes"
    /\ pipes' = [pipes EXCEPT ![taken[s].process] = "closed"]
    /\ StopGoto(s, "stopRpc")
    /\ UNCHANGED <<mode, clientVars, child, signalled, reader, closed, lost, starting, taken>>

\* The threads are not told to end.
StopStopsRpcBug(s) ==
    /\ stopping[s] = "stopRpc"
    /\ StopGoto(s, IF taken[s].rpc = None THEN "release" ELSE "join")
    /\ UNCHANGED <<mode, clientVars, worldVars, starting, taken>>

\* JsonRpcClient::stop: running_ is cleared and the transport closed ...
StopStopsRpc(s) ==
    /\ stopping[s] = "stopRpc"
    /\ IF taken[s].rpc = None
       THEN StopGoto(s, "release") /\ UNCHANGED closed
       ELSE StopGoto(s, "join") /\ closed' = [closed EXCEPT ![taken[s].rpc] = TRUE]
    /\ UNCHANGED <<mode, clientVars, child, signalled, pipes, reader, lost, starting, taken>>

\* ... and the read thread joined.
StopJoins(s) ==
    /\ stopping[s] = "join" /\ reader[taken[s].rpc] = "done"
    /\ StopGoto(s, "release")
    /\ UNCHANGED <<mode, clientVars, worldVars, starting, taken>>

\* The locals go in reverse order: transport, JsonRpcClient, Process.
StopReleases(s) ==
    /\ stopping[s] = "release"
    /\ pipes' = IF taken[s].process = None THEN pipes
                ELSE [pipes EXCEPT ![taken[s].process] = "destroyed"]
    /\ StopGoto(s, "done")
    /\ UNCHANGED <<mode, clientVars, child, signalled, reader, closed, lost, starting, taken>>

StopStep(s) ==
    \/ StopTakes(s) \/ StopDropsBridge(s) \/ StopSignals(s) \/ StopClosesPipes(s)
    \/ StopStopsRpc(s) \/ StopJoins(s) \/ StopReleases(s)

-----------------------------------------------------------------------------
(* The read threads and the servers.                                       *)

\* What ends a read that blocks.  Closing the descriptor under it does not: a
\* pipe's reader sees the end when the child is gone, a borrowed stdin when the
\* parent hangs up; a socket is shut down, the in-process queue is woken.
Unblocked(c) ==
    PeerGone(c) \/ (closed[c] /\ mode \in {"tcp", "uri", "inproc"})

ReaderEnds(c) ==
    /\ reader[c] = "reading" /\ Unblocked(c)
    /\ reader' = [reader EXCEPT ![c] = "done"]
    /\ UNCHANGED <<mode, clientVars, child, signalled, pipes, closed, lost, callVars>>

\* A thread that was between two reads sees running_ or the closed pipe.
ReaderNotices(c) ==
    /\ reader[c] = "reading"
    /\ closed[c] \/ (mode = "stdio" /\ pipes[c] = "closed")
    /\ reader' = [reader EXCEPT ![c] = "done"]
    /\ UNCHANGED <<mode, clientVars, child, signalled, pipes, closed, lost, callVars>>

\* A session event or a server call: its handler looks up the session.
ReaderGetsEvent(c) ==
    /\ Events /\ reader[c] = "reading" /\ ~PeerGone(c)
    /\ reader' = [reader EXCEPT ![c] = "locking"]
    /\ UNCHANGED <<mode, clientVars, child, signalled, pipes, closed, lost, callVars>>

\* get_session takes mutex_; the loop then tests running_.
ReaderLooksUp(c) ==
    /\ reader[c] = "locking" /\ holder = None
    /\ reader' = [reader EXCEPT ![c] = IF closed[c] THEN "done" ELSE "reading"]
    /\ UNCHANGED <<mode, clientVars, child, signalled, pipes, closed, lost, callVars>>

\* The child exits: on a signal, at the end of its stdin, or by a crash.
ChildExits(c) ==
    /\ child[c] = "up"
    /\ child' = [child EXCEPT ![c] = "exited"]
    /\ UNCHANGED <<mode, clientVars, signalled, pipes, reader, closed, lost, callVars>>

\* A server we did not spawn, or our parent, hangs up.
PeerHangsUp(c) ==
    /\ mode \in {"uri", "parent"} /\ reader[c] # "none" /\ ~lost[c]
    /\ lost' = [lost EXCEPT ![c] = TRUE]
    /\ UNCHANGED <<mode, clientVars, child, signalled, pipes, reader, closed, callVars>>

-----------------------------------------------------------------------------

Next ==
    \/ \E c \in Starts :
          \/ StartBegins(c) \/ StartStep(c) \/ Announce(c) \/ AnnounceGarbage(c)
          \/ ReaderEnds(c) \/ ReaderNotices(c) \/ ReaderGetsEvent(c) \/ ReaderLooksUp(c)
          \/ ChildExits(c) \/ PeerHangsUp(c)
    \/ \E s \in Stops : StopBegins(s) \/ StopStep(s)

Spec == Init /\ [][Next]_vars

\* Threads run, an RPC ends by its timeout at the latest, SIGKILL kills.  Nothing
\* makes a caller call, a server send or a parent hang up.
Fairness ==
    /\ \A c \in Starts :
          /\ WF_vars(StartStep(c)) /\ WF_vars(ReaderEnds(c)) /\ WF_vars(ReaderLooksUp(c))
          /\ WF_vars(signalled[c] = "kill" /\ ChildExits(c))
          /\ CliObeys => /\ WF_vars(signalled[c] = "term" /\ ChildExits(c))
                         /\ WF_vars(Announce(c))
    /\ \A s \in Stops : WF_vars(StopStep(s))

FairSpec == Spec /\ Fairness

-----------------------------------------------------------------------------
(* Properties.                                                             *)

TypeOK ==
    /\ mode \in Modes
    /\ state \in {"Disconnected", "Connecting", "Connected", "Error"}
    /\ {holder, process, rpc, bridge, port, negotiated} \subseteq Maybe
    /\ child \in [Starts -> {"none", "up", "exited"}]
    /\ signalled \in [Starts -> {"no", "term", "kill"}]
    /\ pipes \in [Starts -> {"none", "open", "closed", "destroyed"}]
    /\ reader \in [Starts -> {"none", "reading", "locking", "done"}]
    /\ closed \in [Starts -> BOOLEAN]
    /\ lost \in [Starts -> BOOLEAN]
    /\ starting \in [Starts -> StartPc]
    /\ stopping \in [Stops -> StopPc]
    /\ taken \in [Stops -> [process : Maybe, rpc : Maybe]]

\* A client that says Connected has a connection, and it is the one whose
\* protocol version was verified, however start() and stop() interleave.
ConnectedIsVerified ==
    state = "Connected" => rpc # None /\ rpc = negotiated

\* stop() does not interrupt a start() that is under way, nor does one start()
\* touch what another is making: a call that makes a connection still owns it.
StartOwnsItsConnection ==
    \A c \in Starts :
        starting[c] \in {"handshake", "configure"} => state = "Connecting" /\ rpc = c

\* No CLI is left running by accident: a child nobody has signalled belongs to
\* the client or to a stop() that is going to signal it.
NoLeakedServer ==
    \A c \in Starts : child[c] = "up" /\ signalled[c] = "no" =>
        \/ process = c
        \/ \E s \in Stops : taken[s].process = c /\ stopping[s] \in {"dropBridge", "signal"}

\* A read thread never outlives its JsonRpcClient: it is the client's, or that
\* of a stop() that has still to join it.
ReaderHasItsClient ==
    \A c \in Starts : reader[c] \in {"reading", "locking"} =>
        \/ rpc = c
        \/ \E s \in Stops : taken[s].rpc = c
                            /\ stopping[s] \in {"dropBridge", "signal", "closePipes",
                                                "stopRpc", "join"}

\* "The pipes must outlive this transport": no thread reads through the pipes of
\* a Process that was destroyed.
PipesOutliveTransport ==
    mode = "stdio" => \A c \in Starts :
        reader[c] \in {"reading", "locking"} => pipes[c] # "destroyed"

\* A client that spawns its server never connects to a port without having a
\* server of its own.
ConnectsToItsServer ==
    \A c \in Starts : starting[c] = "connect" /\ Spawns => process # None

\* What each call of start() has come to.
Outcome(c) ==
    CASE starting[c] = "idle"   -> "idle"
      [] starting[c] = "done"   -> "returned"
      [] starting[c] = "failed" -> "threw"
      [] OTHER                  -> "making"

Promise == INSTANCE ClientPromise WITH
               outcome <- [c \in Starts |-> Outcome(c)],
               serving <- IF state = "Connected" THEN rpc ELSE None

\* start(), stop() and force_stop() take effect as if they were alone: what one of them
\* makes no other touches, a failed start() says so, and a client that says Connected
\* is served by the connection that the last successful start() made.
ImplementsPromise == Promise!Spec

\* start() ends, also when the server keeps the read thread busy with events
\* whose handlers wait for the mutex that start() holds.
StartReturns ==
    \A c \in Starts : (starting[c] # "idle") ~> (starting[c] \in {"done", "failed"})

\* stop() and force_stop() end.
StopReturns ==
    \A s \in Stops : (stopping[s] # "idle") ~> (stopping[s] = "done")
=============================================================================
