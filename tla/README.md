# TLA+ models of the Copilot C++ SDK

The repository is a C++ client library for the Copilot CLI. A `Client` spawns the
CLI (or connects to one), talks JSON-RPC 2.0 to it over a byte stream, and hands out
`Session` objects whose events, tool calls and permission requests arrive on a
background thread. Almost everything difficult in it is concurrency: the library has
no event loop, every public operation is a `std::async` thread, and the objects are
destroyed while those threads still use them.

Paths below are relative to the repository root.

## 1. The system

| component | state | operations | talks to |
|---|---|---|---|
| `JsonRpcClient` (`include/copilot/jsonrpc.hpp`) | `running_`, `pending_requests_` under `pending_mutex_`, a promise per request, two threads | `invoke`, `invoke_sync`, `notify`, `start`, `stop`; `read_loop`, `timeout_loop` | owns a transport and a framer; calls the client's handlers on the read thread |
| transports (`transport*.hpp`, `transport_ffi.cpp`) | an open flag and handles: pipes, stdio, a socket, an in-process runtime | `read`, `write`, `close` | read by the read thread, written by any thread, closed by `stop` |
| `MessageFramer` (`transport.hpp`) | a read buffer | `read_message`, `write_message` | the transport |
| `Process` (`process_posix.cpp`, `process_win32.cpp`) | pid, `running`, three pipes | `spawn`, `terminate`, `kill`, `wait_for`, `close_pipes` | the operating system |
| `Client`: connection (`client.cpp`) | `state_`, `process_`, `transport_`, `rpc_`, `request_handler_bridge_`, `parsed_port_`, under `mutex_` (mostly) | `start`, `stop`, `force_stop`, the destructor | all of the above |
| `Client`: sessions (`client.cpp`) | `sessions_` under the same `mutex_` | `create_session`, `resume_session`, `delete_session`, `get_session`, server-call handlers | `rpc_`; `Session` |
| `Client`: models cache, lifecycle handlers (`client.cpp`) | `models_cache_`, `on_list_models_`; `lifecycle_handlers_` | `list_models`, `set_on_list_models`; `on_lifecycle`, its unsubscribe | the read thread, `stop` |
| `Session` (`session.cpp`) | event handlers, tools, `background_tasks_`, `tool_invocations_cancelled_` | `send`, `send_and_wait`, `on`, `dispatch_event`, `destroy`, the destructor | `client_->rpc_client()` without a lock |
| `CopilotRequestHandlerBridge` (`request_handler.cpp`) | `pending_` exchanges | `handle` (start, chunk), `complete_http` on a detached thread, `cancel_all` | the read thread, `rpc_`, `stop` |
| canvas, factory, extension, tool builder, types, events | none that lives | argument building, JSON conversion | – |

How the parts meet: the read thread runs notification and request handlers itself, and
most of these look a session up under `Client::mutex_`. `start()` holds that mutex for
its whole length, RPCs included; `stop()` holds it only to move everything out, and
then tears it down unlocked: bridge, process, JSON-RPC client, transport.

What is hard: five parties settle a request's promise outside the lock they found it
under; waits that depend on another thread being alive; objects that refer to each
other and are destroyed in some order; calls that test `state_` and then use `rpc_`;
background tasks that answer after `stop()`. `PROJECT.json` lists these hazards line by
line, each with the property that would catch it or the reason why there is none.

What correctness means, component by component:

* JSON-RPC: a call ends once, by its own answer, its timeout, the loss of the
  connection or `stop()`; with a timeout or with a loss it does end; `stop()` returns.
* connection: Connected means a verified connection; no CLI process and no thread is
  left behind by any sequence of start, stop and failure; start and stop return.
* sessions: an event reaches the session it is for; a session of a stopped client is
  not usable and is in no map; each server request is answered once, and not after the
  cancel; destroying a session does not wait for itself.
* subscriptions: a handler runs exactly while it is subscribed; unsubscribing removes
  that handler. Cache: no answer older than the last invalidation.
* bridge: each exchange gets one start and one end, chunks in order, nothing after its
  cancel. Framer: what was written is what is read, whatever the read sizes.

## 2. Modules

| module | what it is |
|---|---|
| `JsonRpc` | `JsonRpcClient`: caller threads, read thread, timeout thread, `stop()`, the peer, the clock |
| `RpcCalls` | what `JsonRpcClient` promises its callers; `JsonRpc` implements it (`ImplementsCalls`) |
| `ClientConn` | `Client::start`, `stop`, `force_stop`, the process and the read thread of each connection |
| `ClientPromise` | what `start`, `stop` and `force_stop` promise together; `ClientConn` implements it (`ImplementsPromise`) |
| `ClientSessions` | `sessions_`, create, resume, delete, `stop`, dispatch to sessions, background tasks, `~Session` |
| `RequestBridge` | `CopilotRequestHandlerBridge`: exchanges, the detached `complete_http`, cancellation, `stop` |
| `BridgePromise` | what the bridge promises the server of one exchange; `RequestBridge` implements it (`ImplementsPromise`) |
| `SessionEvents` | `Session::on`, `dispatch_event`'s handlers, `Subscription`, `send_and_wait` |
| `FfiTransport` | the transport of the in-process runtime: load, callbacks, close, unload |
| `LifecycleHandlers` | `Client::on_lifecycle` and its subscription |
| `MC...` | instances of each module for TLC |
| `...Proofs` | theorems about a module, with proofs (`JsonRpc`, `ClientConn`, `ClientSessions`, `RequestBridge`, `SessionEvents`, `FfiTransport`) |
| `ClientSessionsMutex` | theorems about who waits for whom in `ClientSessions` |

A definition whose name ends in `Bug` is a faulty variant of the definition after it.
None is part of a specification; each shows that a property is able to fail.

The modules meet at the request. `JsonRpc` has the insides of one: a call ends by its
answer, its timeout, the loss of the connection, or the sweep at the end of `stop()`, and
`RpcCalls` says so in one page. `ClientConn`, `ClientSessions` and `RequestBridge` send
requests and assume of them what `JsonRpc` shows: an answer needs a read thread that reads,
a failure may come while the connection runs or once it has stopped, and never in between,
when `running_` is cleared and the timeout thread has left. `ClientSessions` in turn takes
`start()` as one step, whose insides are `ClientConn`.

### JsonRpc and the code

One action is one critical section, or what a thread does between two of them.
`pending` is the key set of `pending_requests_`; the promise of a request is
`outcome[r]`. A thread's place is a variable: `caller[r]` for the thread in `invoke` or
`invoke_sync`, `timer` for `timeout_loop`, `reader` for `read_loop`, `stopper` for
`stop()`. Requests that a thread has taken out of the map but not yet settled are in
its local: `expired`, `inHand`, `toFail`.

* `Register`, `SendOk`, `SendFails`, `EraseAndThrow` are `invoke` and `invoke_with_id`;
  `Return`, `WaitExpires`, `TakeOwn`, `FailOwn` the rest of `invoke_sync` and `future.get()`.
* `TimerTakes` / `TimerWaits` are one scan. The wait's length is fixed by the scan
  (`wakeIn`), its predicate is `!running_` only, and between the predicate and the block
  (`TimerBlocks`) a notification is lost, because `stop()` notifies without the mutex.
* `DispatchResponse` finds and erases, `Resolve` sets the promise. `DispatchCall` runs a
  handler on the read thread; one that issues a request of its own is a request in `Nested`.
* `StopBegins` … `StopFails` are `stop()` in its order.

Time is relative and discrete: `left` counts a deadline down, `patience` the
`wait_for` of `invoke_sync`, and `Tick` moves all clocks. A clock that is at 0 does not
stop time, so any thread can be late by any amount. A message's body is abstracted to its kind and
the id it carries; a message that leaves no trace (a notification, malformed JSON, a
string id) is `other`. The transport is the contract of `ITransport`: what was sent is
read in order, a close by either side is reported as `ConnectionClosedError` once the
rest was read, a write on a transport that is closed here throws, and one to a peer
that is gone may throw or not.

### ClientConn and the code

A connection is named after the `start()` call that made it: its process (`child`,
`signalled`), that process's `Process` object (`pipes`), its `JsonRpcClient` (`closed`)
and read thread (`reader`). `process`, `rpc`, `bridge`, `state`, `port` are the client's
fields, `holder` is the `start()` that holds `mutex_`; the critical sections of `stop()`
and `get_session` are single actions that need `holder = None`. `taken[s]` is what a
`stop()` moved into its locals.

* `start()`: `StartBegins`; `Spawn`, `Announce` (`start_cli_server`); `DropsProcess`,
  `ProcessDropped` (the assignment to `process_` destroys what an earlier failed start
  left); `Connect`, `DropsRpc`, `RpcDropped`, `Attach` (`connect_to_server`, where the
  assignment to `rpc_` joins the old read thread); `Handshake`, `Configured`, `CallFails`.
* `stop()` / `force_stop()`: `StopTakes` … `StopReleases`, in the order of the code,
  the destructors of the locals included.
* `Unblocked` says what ends a blocked `read`: the end of the stream, or a close that
  reaches it. Closing a pipe's descriptor does not wake a thread that reads it, and a
  borrowed stdin is not closed at all.

An RPC of `start()` is one step that needs the read thread and the server, or fails;
what `JsonRpc` shows of a call (that it ends, and how) is what `ClientConn` assumes of it.

### ClientSessions and the code

A `Session` is named after the call that makes it. `Held` lists who has a `shared_ptr` to it:
the map, the application, the call, a read thread between lookup and dispatch, and a
`stop()` with its snapshot. Every step that lets go of one ends in `Drops(th)`: the sessions
that nobody holds any more are in the destructor (`dying[th]`) of the thread that dropped
them, and that thread goes on when all their tasks are over (`Destroyed`); if it holds
`mutex_`, it keeps it meanwhile (`InMutex`).

* `Begins`, `Registers`, `Asks`, `Answered`, `Renames`, `Refused`, `Erases`, `Unwinds` and
  the `...Interest...` actions are `create_session`, `resume_session` and `delete_session`
  in their order. A create registers before it asks, a resume after; a create whose request
  fails erases what it registered, one whose interest is refused does not.
* `Reads`, `LooksUp`, `Dispatches` are the read thread with an event: `get_session` under
  `mutex_`, then `dispatch_event`, which starts a background task, then the end of the local
  `shared_ptr`.
* `HandlerReturns`, `Answers`, `AnswerTaken`, `AnswerRefused` are a task: a tool tests
  `tool_invocations_cancelled_` after its handler and again in the catch block, permissions
  and user input do not; tools and permissions answer a second time when the first fails.
* `StopBegins` … `StopReleases` are `stop()` and `force_stop()`. The loop of `stop()` sends a
  `session.destroy` for each session of its snapshot; here it is one request for them all. A request through a null `rpc_` is `crashed`.

### RequestBridge and the code

`reader` and `at` are the read thread in `handle()`, statement by statement where the
bridge's mutex is released in between; `thread[e]` is `complete_http` of one exchange;
`got[e]` is what the server has of the response. `Release` is a shared pointer to the
bridge that goes: the last one runs `~CopilotRequestHandlerBridge`, which cancels what is
pending. `SendRpc` is the client's `rpc_->invoke(...).get()`, which a detached thread may
wait for and the read thread may not: a websocket's status is sent on the read thread
(`OpensWebSocket`), and no answer can reach it. The server may be lost at any time
(`PeerLost`): what is written after that goes nowhere, until the read thread notices
(`ReaderLoses`), fails what is under way and ends. A write may also throw, over a lost
connection or because the message is not valid UTF-8, and then nothing is sent; what `fail()`
throws is swallowed.

Two variables are a record of the past. `silenced` has the exchanges whose flag was set while
`complete_http` had still to look at it (`Unanswered`): before the handler, after it, or in the
catch block with nothing sent. An exchange cancelled between the look behind the handler
(line 157) and its first message (line 166) is not among them. `unsaid` has those whose error
could not be written.

### SessionEvents and the code

`handlers` is `event_handlers_`, `copied` is `handlers_copy`, `event` the event in the read
thread's hands. A `send_and_wait` subscribes, sends, waits, and unwinds its frame; its locals
are `done`, `last`, `failed`. A call of its handler after the frame is gone, from the copy,
uses a mutex that is no more: `crashed`. The server works through one turn after the other; each ends with an idle or
an error event. `disturbed` has the waits whose handler saw the event of another turn.

### FfiTransport and the code

`owner` is the thread that makes, stops and destroys the transport, `phase` says why it is in
`close()`; `reader` is the read thread in `read` and `write`, `writer` a thread of the
application in `write`, between the test of `open_` under the lock (`WriteBegins`) and the call
of the runtime after it (`WriteCalls`); `callback[t]` is a thread of
the runtime in `outbound` and `receive`. `conn` is the runtime's side of the connection: it
says `released` only when no callback runs. The loop over `close_retry_attempts_` is
`Tries` and `GivesUp`, after which everything stays loaded.

### LifecycleHandlers and the code

A subscription has the address of its handler: the buffer the vector was in, and the place.
`OnLifecycle` may move the vector to a larger buffer, `Unsubscribes` removes what is at the
address.

## 3. Runs

| run | expects | question |
|---|---|---|
| `rpc_safety` | pass | `TypeOK`, `OneSettler`, `NotAbandoned`, `TimeoutNotEarly`, `StopSettlesAll`, `ImplementsCalls` |
| `rpc_liveness` | pass | `RequestEnds`, `LossReleasesAll`, `StopReturns` |
| `conn_safety` | pass | `TypeOK`, `ConnectedIsVerified`, `NoLeakedServer`, `ReaderHasItsClient`, `ImplementsPromise` |
| `conn_liveness` | pass | `PipesOutliveTransport`, `StartReturns`, `StopReturns` |
| `sessions` | pass | `TypeOK`, `TasksHaveTheirSession`, `OvertakenToolsAreDropped`, `CreatedIsFound`, `FailedCreateLeavesNothing`, `LateAnswersAreLast`, `HolderGetsItsAnswers`, `StopReturns` |
| `sessions_resume` | pass | `RequestsHaveAnEnd`, `CallsReturn` |
| `bridge` | pass | `TypeOK`, `ResponsesAreInOrder`, `ThreadsHaveTheirBridge`, `ImplementsPromise`, `CompleteIsAnswered`, `NothingStaysPending` |
| `bridge_websocket` | violation | `WebSocketOpens` |
| `events` | pass | `TypeOK`, `OwnEndIsHeard`, `UndisturbedGetsItsAnswer` |
| `ffi` | pass | `TypeOK`, `CallbacksRunInLoadedCode`, `UnloadedIsReleased`, `StopReturns` |
| `ffi_quarantine` | violation | `OutboundFindsItsTransport` |
| `lifecycle_unsubscribe` | violation | `EventsGoToSubscribers` |

Twelve more configurations reproduce known disagreements of the code with what one would
expect of it; each is violated, and is run by hand, as in
`tlc -config conn_retry_pipes.cfg MCClientConn.tla`:

| configuration | module | violated |
|---|---|---|
| `rpc_late_timeout` | `MCJsonRpc` | `NoSleepPastDeadline` |
| `rpc_handler_call` | `MCJsonRpc` | `StopReturns`, with a handler that waits for its own RPC |
| `rpc_after_loss` | `MCJsonRpc` | `TimeoutHonoured` |
| `conn_retry_pipes` | `MCClientConn` | `PipesOutliveTransport`, with a start after a failed start |
| `conn_retry_deadlock` | `MCClientConn` | `StartReturns`, with a start after a failed start |
| `conn_stop_blocks` | `MCClientConn` | `StopReturns`, in ParentProcess mode |
| `conn_tcp_restart` | `MCClientConn` | `ConnectsToItsServer` |
| `sessions_cancel` | `MCClientSessions` | `NoAnswerAfterCancel` |
| `sessions_rename_deadlock` | `MCClientSessions` | `NoCircle`, with events of an id that was asked for and not given |
| `sessions_rename_unheard` | `MCClientSessions` | `RenamedIsFound` |
| `events_late_call` | `MCSessionEvents` | `NoCallAfterUnsubscribe` |
| `ffi_write_unloaded` | `MCFfiTransport` | `WritesFindTheirLibrary` |

**Bounds.** `rpc_safety`: two requests, one `invoke` and one `invoke_sync`, timeouts
and poll of one tick, one message in flight. Two requests are enough for every pair of
settlers to compete for one of them while the other is in any state; a request's own
steps do not depend on how many others there are except through `Expired` and the
sweeps, which are sets. One tick separates before a deadline from after it. One message
in flight loses no order of dispatch: the peer may send the next as soon as one is taken,
and it may answer a request again or after its timeout. `rpc_liveness` keeps both
requests, one without a timeout, and only results (the other kinds do not wait).

`conn_*`: two `start()` calls, one `stop()` and one `force_stop()` are the least that
give a retry, a restart and two tear-downs that overlap; all five connection kinds in
`conn_safety`.

`sessions`: one create, which the server may rename, one delete of the same id, one stop and
two connections, so that the create may be overtaken by a stop and a new start; one tool.
`sessions_resume`: one resume with an interest, two stops that overlap, two connections, one
permission. A create and a resume in one instance is beyond TLC with liveness; the
theorems hold for any number of both. `CreatedIsFound` is about an id that is kept, from the
moment the server has the session, and about a new id from the renaming on; before the renaming
the code finds nothing (`sessions_rename_unheard`). The server has no events of an id that was
asked for and not given: the circle of `sessions_rename_deadlock` is not in these instances,
so `HolderGetsItsAnswers` is as much as `RenamedIds` allows, and `StopReturns` and
`CallsReturn` say nothing of it.

`bridge`: one http and one websocket exchange and responses of up to two chunks, which gives
the empty response, the response of one chunk and a chunk that is not the last. Exchanges
meet only in the read thread, which the websocket occupies, and in the bridge's destruction.
The server may go at any step and any write may throw.

`events`: two concurrent waits and one plain message, up to symmetry: one wait is disturbed by
the other, or by a turn that nobody waits for. `ffi`: two callbacks, two units of data, three
attempts, one thread that writes. `lifecycle_unsubscribe`: three subscriptions, since the vector grows from one
place to two and to four.

`CHECK_DEADLOCK FALSE` everywhere: a client that was stopped, or that nobody
calls, is a legitimate final state.

**Fairness.** Threads that are able to run do run (weak fairness per thread), the clock
ticks, and an RPC is ended by its timeout at the latest, which is why `start()` cannot stay
in its handshake. Handlers of the application return: the code waits for them without a
limit. Nothing is assumed of the peer's answers, of the runtime's callbacks, nor that
the peer stays or goes, or that anybody calls anything. `ClientConn` assumes of the operating system that SIGKILL kills, and,
where `CliObeys`, that the CLI exits on SIGTERM and announces its port: the code has a limit
for both but the limits do not hold (see the next section).

`conn_liveness` leaves out ParentProcess mode and the start after a failed start, where
start or stop do not return: `conn_stop_blocks` and `conn_retry_deadlock` show it. `StopReturns`
and `CallsReturn` of `ClientSessions` except the case that a read thread runs `~Session`,
where neither holds (`StopAlwaysReturns` states it without the exception).

The liveness properties of `RequestBridge` name what they leave out. `CompleteIsAnswered`: an
exchange that is cancelled, a client that stops, a server that is lost, and an error that
could not be written (`unsaid`). `NothingStaysPending`: `crashed`, and a lost server, since
what is sent after the read thread has ended waits until `stop()`. `StopReturns` of
`FfiTransport` says nothing of a `write()` that calls into the unloaded library (`crashed`).
`NotAbandoned` is about requests registered while the client runs: after a loss nobody is left
for a new one (`rpc_after_loss`).

## 4. What the runs found

1. `bridge_websocket`: `handle()` runs on the read thread and opens a websocket with a
   request of its own, for whose answer it waits there. Only this thread could read the
   answer: the opening ends in the 30 s timeout, nothing else is read meanwhile, and
   `open()` is never reached, so neither are the code for chunks and the end of a websocket.
2. `ffi_quarantine`: when the runtime does not release the connection, `close()` keeps the
   library loaded, but the `FfiTransport` whose address the callbacks have is destroyed.
3. `lifecycle_unsubscribe`: a lifecycle subscription removes nothing after the vector has
   moved, and its neighbour's handler after an earlier one was erased.

By the configurations that are run by hand:

4. `rpc_late_timeout`: the timeout thread sleeps to the earliest deadline of one scan; a
   later request with a shorter timeout times out late, by as much as the other's rest.
5. `rpc_handler_call`: a handler that waits for its own RPC on the read thread (see 1) while
   `stop()` is called: the timeout thread leaves first, nobody fails the request, `stop()`
   joins for ever.
6. `rpc_after_loss`: after the connection is lost no deadline is watched any more.
7. `conn_retry_pipes`: `start()` after a failed start frees the pipes the old read
   thread uses.
8. `conn_retry_deadlock`: `start()` after a failed start joins, under `mutex_`, a read
   thread that waits for `mutex_`.
9. `conn_stop_blocks`: `stop()` in ParentProcess mode waits until the parent hangs up. The
   same happens in stdio mode with a CLI that ignores SIGTERM and the end of its stdin.
10. `conn_tcp_restart`: the port announced by a spawned CLI survives `stop()`; the next
    `start()` connects to it and spawns nothing.
11. `sessions_cancel`: a tool that tested the flag just before `stop()` sets it sends its
    result afterwards. What does hold is `OvertakenToolsAreDropped`: a handler that was still
    running when the flag was set sends nothing; and `LateAnswersAreLast`: a tool that sends
    late sends that one result, and no error through a later connection if it fails.
12. `sessions_rename_deadlock`: a create registers the id it asks for and is given another,
    while a resume makes the server send events of the first. One of them starts a
    permission task of the new session. `stop()` clears the map, the create puts its session
    back under the new id (`src/client.cpp:1294`), and the application drops it. A
    `delete_session` of the new id that the server has answered then runs `~Session` under
    `mutex_` and waits for the task; the task waits for an answer over the connection that
    `stop()` is closing; the read thread of that connection, which `stop()` joins before it
    fails any request, waits for `mutex_`. Without such events it cannot happen:
    `HolderGetsItsAnswers` and `NoCircle` are proved below for that case.
13. `sessions_rename_unheard`: a session that the server gives another id is in the map under
    the id that was asked for, until the thread of the create has read the answer and renames
    it; events under the new id that come before that find no session and are dropped.
14. `events_late_call`: `send_and_wait` times out, or its send fails, after the read thread has
    copied the handlers; its frame goes, and the copy of its handler is called and locks a
    mutex of that frame. `include/copilot/session.hpp:38` says of the subscription
    "Automatically unsubscribes when destroyed"; it does, in the map and not in the copy.
15. `ffi_write_unloaded`: `write()` tests `open_` under the lock and calls the runtime after
    it; a `close()` in between unloads the library.

Seen in the code, with a property but no configuration:

* the limit on the port announcement is tested between two lines, so a CLI that prints
  nothing blocks `start()` for ever (`StartReturns` fails for mode `tcp` without `CliObeys`);
* a read thread that drops the last reference to a session waits in `~Session` for tasks whose
  answers only it could read, and `stop()` waits for the read thread (`StopAlwaysReturns`);
* an exchange that is cancelled after line 157 of `request_handler.cpp` looked at the flag and
  before line 166 sent anything is answered in full (`CancelledIsSilent` and `BridgePromise`
  leave it out);
* `fail()` swallows its own failure: a handler whose exception has a message that is not valid
  UTF-8 leaves its exchange without an answer, over a connection that works (`unsaid` in
  `CompleteIsAnswered`).

## 5. Proofs

All of it is for every value of the constants, from the `ASSUME` of the module alone unless
said otherwise. Each theorem states a property that a run checks, but for three.
`Owned` and `CancelledStaysSilent` say of a state what the refinements say of the steps, and
`NoCircleOfWaits` is a consequence of `MutexIsLetGo`.

`JsonRpcProofs`, for every set of requests, every timeout, every choice of `Sync`,
`Nested`, `Kinds` and every `MaxWire`:

| theorem | statement |
|---|---|
| `TypeCorrect` | `Spec => []TypeOK` |
| `SettledOnce` | `Spec => []OneSettler` |
| `SomebodySettles` | `Spec => NotAbandoned` |
| `NeverEarly` | `Spec => []TimeoutNotEarly` |
| `StopReleases` | `Spec => []StopSettlesAll` |
| `Implements` | `Spec => ImplementsCalls`: `JsonRpc` refines `RpcCalls` |

`OneSettler` is not inductive: that no two parties hold a request needs to know that a
request in anybody's hands was registered and is not settled, and that a caller that has
not registered yet is in no set. `OwnInv` adds this, and every step preserves it action
by action; one of its conjuncts, `AccountedFor`, says where an unsettled request may be.
`NotAbandoned` is more: who has a request, or will sweep the map it is in, has not ended, and
no step leaves it with nobody. `SweepInv` gives the sweeper: while the client runs the read
thread is in its loop, and it leaves the loop without a sweep only for a `stop()`, which has
one of its own. `TimeInv` ties the two clocks to the
program counters: a request in `expired` has `left = 0`, a caller past its `wait_for` has
`patience = 0`. `StopInv` says how far `stop()` has come when a caller may still register,
write or wait: after the transport is closed no write succeeds, and a request that is
registered at the sweep is in the sweep's list. `AnswerInv` says that an answer in flight
or in the read thread's hands was given by the peer to that request; it and `OwnInv` make
each step a step of `RpcCalls` or a stutter.

`ClientConnProofs`, for any number of concurrent `start()`, `stop()` and `force_stop()`
calls and every connection kind:

| theorem | statement |
|---|---|
| `ClientTyped` | `Spec => []TypeOK` |
| `Verified` | `Spec => []ConnectedIsVerified` |
| `Owned` | `Spec => []StartOwnsItsConnection` |
| `NothingLeaks` | `Spec => []NoLeakedServer` |
| `ReadersJoined` | `Spec => []ReaderHasItsClient` |
| `PipesOutlive` | `Spec => []PipesOutliveTransport`, if `~RetryFailed` |
| `KeepsItsPromise` | `Spec => ImplementsPromise`: `ClientConn` refines `ClientPromise` |

The inductive invariant `ConnInv` adds two parts. `MutexOfStart`: the holder of `mutex_`
is the start() under way, there is at most one, and the state is then Connecting; so
`stop()`, which takes what the client holds under the mutex, never takes half a
connection. `Stages`: what the client holds at each stage of a start(), in particular that
`rpc_` is empty when a new `JsonRpcClient` is put there, and that a `Process` left by a
failed start was signalled, or its child had exited, before it is forgotten.

`KeepsItsPromise`: seen from outside, calls that overlap take effect as if one after the
other. `FindsConnected`, `Begin`, `Succeed`, `Fail` and `Disconnect` are single steps of
`ClientConn`, and all others are stutters; that `StopTakes` may not come while a start is
under way follows from `MutexOfStart`, and that a call which succeeds is the one that serves
from `Stages`.

`PipesOutlive` needs that a failed start is stopped before the next (`conn_retry_pipes` shows
what happens otherwise). Then a `start()` finds the client empty (`OneConnection`), process
and connection have the same name and one owner, the client or one `stop()` (`OneOwner`), and
the pipes go in that owner's last step (`PipesGoLast`), when, by `ReaderHasItsClient`, the
reader has been joined.

`ClientSessionsProofs`, for any number of calls, stops, tasks and connections:

| theorem | statement |
|---|---|
| `SessionsTyped` | `Spec => []TypeOK` |
| `TasksKeepTheirSession` | `Spec => []TasksHaveTheirSession` |
| `OvertakenSendNothing` | `Spec => []OvertakenToolsAreDropped` |
| `FailuresLeaveNothing` | `Spec => []FailedCreateLeavesNothing` |
| `EventsFindTheirSession` | `Spec => []CreatedIsFound`, if `OwnIds` |
| `LateToolsEnd` | `Spec => []LateAnswersAreLast` |

The first invariant is about reference counts. `SessionsLive`: a session that somebody holds
has been made, and one that is dying or dead is held by nobody and its call is over. A step
may only take hold of a session that is held already (`Keeps`), so nobody revives one. `Hands`
says what a read thread has in hand, in particular that a task that is about to begin belongs
to one thread and one session; then a task begins only with a session that is held, and
`~Session` waits for it. `OvertakenIsCancelled` remembers that the session of an overtaken tool
stays cancelled. `Named`: a session is in the map under its own id and no other, and only
while its call is at a place where it may be, so the erase of a failed create finds it.
`EventsFindTheirSession` assumes that no other create goes by an id that a create may go by,
the one it asks for or one the server may choose (`OwnIds`), which the code leaves to the
application and the server. `Kept` says of each create that the server has the session, under
either id, only after it has acted on it and no more once it was deleted there, and that the
map has it under the id it keeps until a delete of it is over or a `stop()` has cleared the
map: from before the server's act if that is the id asked for, from the renaming on otherwise.
`LateIsCancelled`: a tool that sent late belongs to a session that is cancelled for good, so
the catch block finds the flag set.

`ClientSessionsMutex` continues with who waits for whom:

| theorem | statement |
|---|---|
| `NobodyIsForgotten` | `Spec => []RequestsHaveAnEnd` |
| `MutexIsLetGo` | `Spec => []HolderGetsItsAnswers`, if `RenamedIds` |
| `NoCircleOfWaits` | `Spec => []NoCircle`, if `RenamedIds` |

`RpcRuns`: a connection that runs is `rpc_` or in the hands of one `stop()`, and a request is
put on a connection only while it is `rpc_`; so every wait has somebody who will end it.
`MutexHolder`: mutex_ is held beyond one step only by a call in `~Session` or by a `stop()`
that has cleared the map. `TasksWaitForRpc`: a task of a session in the map, or of one that is
destroyed under `mutex_`, waits for `rpc_`; `stop()` breaks neither half, since it takes
`rpc_` only with `mutex_` and after it has cleared the map. What could break it is a session
that gets into the map with a task already waiting: `NewToMap` says that it has none, because
no read thread can find it before. For a create that is renamed this needs `RenamedIds`: the id
that it asks for and is not given is given to nobody else. The code leaves that to the
server; where it fails, so does the theorem (section 4, 12).

The assumption of `ClientSessions` says that threads differ: calls, stops, read
threads, the application. Without it `holder` would not say who has the mutex.

`RequestBridgeProofs`, for any number of exchanges and responses of any length:

| theorem | statement |
|---|---|
| `BridgeTyped` | `Spec => []TypeOK` |
| `InOrder` | `Spec => []ResponsesAreInOrder` |
| `CancelledStaysSilent` | `Spec => []CancelledIsSilent` |
| `BridgeOutlivesThreads` | `Spec => []ThreadsHaveTheirBridge` |
| `KeepsItsPromise` | `Spec => ImplementsPromise`: `RequestBridge` refines `BridgePromise` |

`Sent` says of each place of `complete_http` how much of the response the server has: exactly
what was counted while it sends, that or one more while it waits, since what is written to a lost
server does not arrive, and after a failure some beginning, since a request that
failed may have arrived. `Silent`: an exchange whose flag was set in time has a thread that
will not send. `Places`: what is pending is http, and an exchange whose
last chunk is in the read thread's hands has no thread yet; so no exchange has two.
`KeepsItsPromise` puts the three together: each step of a thread sends one message
or none (`May` is its place in the response), and only of an exchange whose request is
complete and whose flag was not set in time.

`SessionEventsProofs`, for any number of waits and other messages:

| theorem | statement |
|---|---|
| `EventsTyped` | `Spec => []TypeOK` |
| `EndIsHeard` | `Spec => []OwnEndIsHeard` |
| `OwnAnswer` | `Spec => []UndisturbedGetsItsAnswer` |

`Subscribed`: a wait is in `event_handlers_` from its first step to its last, once.
`TurnsFollow`: its turn begins after that, so the copy that is taken with the end of the turn
has it (`EndArrives`). `OwnMessage`: the same of the assistant message, which an undisturbed
wait has, or is about to be given. `InHand` relates the event in hand to the turns that are
still going on.

`FfiTransportProofs`, for any number of callbacks, attempts and bytes:

| theorem | statement |
|---|---|
| `TransportTyped` | `Spec => []TypeOK` |
| `CallbacksLoaded` | `Spec => []CallbacksRunInLoadedCode` |
| `Released` | `Spec => []UnloadedIsReleased` |

`CallbacksNeedConnection` is what the runtime promises, `Stages` what `close()` knows at each
of its steps, and `HeldIsLoaded` follows from both.

The inductive invariants were checked by TLC on the instances of `rpc_safety`, `conn_safety`,
`conn_liveness` (`PipesInv`), `sessions` and `sessions_resume`, `bridge`, `events` and `ffi`,
`MutexInv` on those of `sessions` and `sessions_resume`.

Only model-checked: the liveness properties, which rest on fairness and are out of the
prover's reach (`RequestEnds`, `LossReleasesAll`, `StartReturns`, `StopReturns`,
`CallsReturn`, `CompleteIsAnswered`, `NothingStaysPending`), and what the violations show.

## 6. Plan

What is left, in the order of its worth:

1. `ClientSessions` over `RpcCalls`: that the requests of `ClientSessions` and `RequestBridge`
   are those of `RpcCalls` is an argument of this file, not a refinement.
2. An abstract specification of `send_and_wait` (a call that is undisturbed returns the
   message of its own turn, once), with `SessionEvents` shown to implement it.
3. An abstract specification of a session's life (made, found, cancelled, gone) that
   `ClientSessions` implements, out of `Kept`, `Named` and `SessionsLive`.
4. `MessageFramer`: the buffer as a recursive function, against reading the whole stream.

## 7. Not modelled

* The Windows process and handles: the models follow the POSIX build.
* `MessageFramer`: one thread, one buffer, no interleaving; its tests read it character by
  character.
* The models cache: one value under one lock; an answer that overtakes an invalidation may be
  stored after it, and nothing in the repository says that it may not.
* Chunks and the end of an open websocket: the code cannot open one (section 4, 1).
* The chunks of a request's body in `RequestBridge`: the read thread collects them alone.
* A use of memory that was freed or moved: it is the state `crashed` (a null `rpc_`, a bridge
  dropped by `stop()` under the read thread, a handler whose frame is gone, a call into an
  unloaded library) and ends the behaviour. Only the uses that the code rules out are a property
  of a run; the others have a configuration in section 3 or a hazard with a note.
* Address lookup and the connect deadline of TCP; exit codes, environment and PATH lookup.
* The content of messages, options and command lines; canvas, factory, extension and
  tool-builder helpers, which build arguments and keep no state; `Client` and `Session` calls
  that only send one request and convert its answer.
* Types, events and RPC payloads: about 31,800 of the 46,400 lines of the implementation are
  generated or declarative types with JSON conversions, in which nothing happens.
