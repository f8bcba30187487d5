---------------------------- MODULE FfiTransport ----------------------------
(***************************************************************************)
(* FfiTransport (src/transport_ffi.cpp): the transport of the in-process   *)
(* runtime, a shared library that is loaded, called, called back from, and *)
(* unloaded again.  Its parts run on four kinds of threads: the one that   *)
(* makes and destroys the transport (start(), JsonRpcClient::stop and the  *)
(* destructor), the read thread of the JSON-RPC client, which reads and    *)
(* answers, the threads of the application, which write requests, and the  *)
(* threads of the runtime, which call outbound().                          *)
(*                                                                         *)
(* The runtime is not part of the repository.  It may say false to         *)
(* copilot_runtime_connection_close for any reason, and says true only     *)
(* when it runs no callback of the connection; it begins none after that.  *)
(* The bytes are one counter.                                              *)
(*                                                                         *)
(* A definition named ...Bug is a faulty variant of the one that follows   *)
(* it and no part of Next.                                                 *)
(***************************************************************************)
EXTENDS Naturals

CONSTANTS Callbacks,  \* threads of the runtime that call back
          Attempts,   \* close_retry_attempts_
          MaxBytes    \* how much the runtime sends before it is read

ASSUME FfiAssumption == Attempts \in Nat /\ MaxBytes \in Nat \ {0}

VARIABLES
    owner,      \* what the owning thread is doing,
    phase,      \* and why it closes: the constructor has failed, stop(), the destructor
    attempt,    \* attempts of its close() so far
    library,    \* library_ is loaded
    host,       \* server_id_ is set
    conn,       \* the connection in the runtime; connection_id_ is set while "open"
    open,       \* open_
    inbound,    \* inbound_
    running,    \* running_ of the JSON-RPC client
    reader,     \* its read thread
    writer,     \* a thread of the application in write()
    callback,   \* the threads of the runtime
    freed,      \* the transport is destroyed
    stray,      \* a callback has used the transport after that
    crashed     \* a call into a library that is not loaded, or by a write() whose
                \* transport is destroyed

ownVars  == <<owner, phase, attempt>>
libVars  == <<library, host, conn>>
dataVars == <<open, inbound>>
readVars == <<reader, running>>
otherVars == <<writer, callback>>
vars == <<ownVars, libVars, dataVars, readVars, otherVars, freed, stray, crashed>>

OwnerPc == {"load", "start", "connect", "open", "up", "close", "notify", "try", "shut",
            "unload", "join", "gone"}
ReaderPc == {"none", "loop", "read", "blocked", "got", "writing", "ended"}

Init ==
    /\ owner = "load" /\ phase = "make" /\ attempt = 0
    /\ library = FALSE /\ host = FALSE /\ conn = "none"
    /\ open = FALSE /\ inbound = 0
    /\ running = FALSE /\ reader = "none"
    /\ writer = "none"
    /\ callback = [t \in Callbacks |-> "none"]
    /\ freed = FALSE /\ stray = FALSE /\ crashed = FALSE

\* cv_.notify_all: the read thread looks at its condition again.
Notified == IF reader = "blocked" THEN "read" ELSE reader

-----------------------------------------------------------------------------
(* The constructor.                                                        *)

\* A library without the symbols is not unloaded again.
Loads ==
    /\ owner = "load"
    /\ \/ library' = TRUE /\ owner' = "start"
       \/ library' \in BOOLEAN /\ owner' = "gone"
    /\ UNCHANGED <<phase, attempt, host, conn, dataVars, readVars, otherVars, freed, stray,
                   crashed>>

\* copilot_runtime_host_start; when it fails the constructor closes and throws.
HostStarts ==
    /\ owner = "start"
    /\ \/ host' = TRUE /\ owner' = "connect"
       \/ host' = FALSE /\ owner' = "close"
    /\ UNCHANGED <<phase, attempt, library, conn, dataVars, readVars, otherVars, freed, stray,
                   crashed>>

ConnectionOpens ==
    /\ owner = "connect"
    /\ \/ conn' = "open" /\ owner' = "open"
       \/ conn' = conn /\ owner' = "close"
    /\ UNCHANGED <<phase, attempt, library, host, dataVars, readVars, otherVars, freed, stray,
                   crashed>>

\* open_ is set; then the JSON-RPC client is made and started.
Opens ==
    /\ owner = "open" /\ owner' = "up"
    /\ open' = TRUE
    /\ running' = TRUE /\ reader' = "loop"
    /\ UNCHANGED <<phase, attempt, libVars, inbound, otherVars, freed, stray, crashed>>

-----------------------------------------------------------------------------
(* JsonRpcClient::stop, close() and the destructor.                        *)

Stops ==
    /\ owner = "up" /\ owner' = "close"
    /\ phase' = "stop"
    /\ running' = FALSE
    /\ UNCHANGED <<attempt, libVars, dataVars, reader, otherVars, freed, stray, crashed>>

\* close() has returned.
AfterClose ==
    /\ owner' = IF phase = "stop" THEN "join" ELSE "gone"
    /\ freed' = (phase # "stop")

\* The flag is tested and cleared under mutex_.
CloseBegins ==
    /\ owner = "close"
    /\ IF ~open /\ ~library
       THEN AfterClose /\ UNCHANGED <<open, attempt>>
       ELSE /\ open' = FALSE /\ attempt' = 0
            /\ owner' = "notify" /\ UNCHANGED freed
    /\ UNCHANGED <<phase, libVars, inbound, readVars, otherVars, stray, crashed>>

\* Nobody is told.
CloseNotifiesBug ==
    /\ owner = "notify"
    /\ owner' = IF conn = "open" THEN "try" ELSE "shut"
    /\ UNCHANGED <<phase, attempt, libVars, dataVars, readVars, otherVars, freed, stray,
                   crashed>>

CloseNotifies ==
    /\ owner = "notify"
    /\ reader' = Notified
    /\ owner' = IF conn = "open" THEN "try" ELSE "shut"
    /\ UNCHANGED <<phase, attempt, libVars, dataVars, running, otherVars, freed, stray,
                   crashed>>

\* One attempt more than there should be.
TriesBug ==
    /\ owner = "try" /\ attempt <= Attempts
    /\ \/ /\ \A t \in Callbacks : callback[t] = "none"
          /\ conn' = "released" /\ owner' = "shut" /\ UNCHANGED attempt
       \/ attempt' = attempt + 1 /\ UNCHANGED <<conn, owner>>
    /\ UNCHANGED <<phase, library, host, dataVars, readVars, otherVars, freed, stray, crashed>>

\* copilot_runtime_connection_close.
Tries ==
    /\ owner = "try" /\ attempt < Attempts
    /\ \/ /\ \A t \in Callbacks : callback[t] = "none"
          /\ conn' = "released" /\ owner' = "shut" /\ UNCHANGED attempt
       \/ attempt' = attempt + 1 /\ UNCHANGED <<conn, owner>>
    /\ UNCHANGED <<phase, library, host, dataVars, readVars, otherVars, freed, stray, crashed>>

\* After the last attempt the library is unloaded all the same.
GivesUpBug ==
    /\ owner = "try" /\ attempt = Attempts
    /\ owner' = "shut"
    /\ UNCHANGED <<phase, attempt, libVars, dataVars, readVars, otherVars, freed, stray,
                   crashed>>

\* After the last attempt everything stays loaded.
GivesUp ==
    /\ owner = "try" /\ attempt = Attempts
    /\ AfterClose
    /\ UNCHANGED <<phase, attempt, libVars, dataVars, readVars, otherVars, stray, crashed>>

\* The host is not shut down.
ShutsDownBug ==
    /\ owner = "shut" /\ owner' = "unload"
    /\ UNCHANGED <<phase, attempt, libVars, dataVars, readVars, otherVars, freed, stray,
                   crashed>>

ShutsDown ==
    /\ owner = "shut" /\ owner' = "unload"
    /\ host' = FALSE
    /\ UNCHANGED <<phase, attempt, library, conn, dataVars, readVars, otherVars, freed, stray,
                   crashed>>

Unloads ==
    /\ owner = "unload"
    /\ library' = FALSE
    /\ AfterClose
    /\ UNCHANGED <<phase, attempt, host, conn, dataVars, readVars, otherVars, stray, crashed>>

\* stop() joins the read thread; the destructor closes once more.
Joins ==
    /\ owner = "join" /\ reader = "ended"
    /\ owner' = "close" /\ phase' = "destroy"
    /\ UNCHANGED <<attempt, libVars, dataVars, readVars, otherVars, freed, stray, crashed>>

OwnerStep ==
    \/ Loads \/ HostStarts \/ ConnectionOpens \/ Opens \/ CloseBegins \/ CloseNotifies
    \/ Tries \/ GivesUp \/ ShutsDown \/ Unloads \/ Joins

-----------------------------------------------------------------------------
(* The read thread: read_loop, read() and, for its answers, write().       *)

Loop ==
    /\ reader = "loop"
    /\ reader' = IF running THEN "read" ELSE "ended"
    /\ UNCHANGED <<ownVars, libVars, dataVars, running, otherVars, freed, stray, crashed>>

\* read(): what is there is handed out also after close(); then 0, the end.
Reads ==
    /\ reader = "read"
    /\ inbound' = 0
    /\ reader' = CASE inbound > 0           -> "got"
                   [] inbound = 0 /\ ~open  -> "ended"
                   [] OTHER                 -> "blocked"
    /\ running' = (running /\ reader' # "ended")
    /\ UNCHANGED <<ownVars, libVars, open, otherVars, freed, stray, crashed>>

\* It was no message that has to be answered, or it is; write() looks at open_ under
\* mutex_ and leaves it again.
Answers ==
    /\ reader = "got"
    /\ \/ reader' = "loop" /\ UNCHANGED running
       \/ /\ reader' = IF open THEN "writing" ELSE "ended"
          /\ running' = (running /\ open)
    /\ UNCHANGED <<ownVars, libVars, dataVars, otherVars, freed, stray, crashed>>

\* copilot_runtime_connection_write.
Writes ==
    /\ reader = "writing"
    /\ reader' = "loop"
    /\ crashed' = ~library
    /\ UNCHANGED <<ownVars, libVars, dataVars, running, otherVars, freed, stray>>

ReaderStep == Loop \/ Reads \/ Answers \/ Writes

-----------------------------------------------------------------------------
(* write(), on a thread of the application.                                *)

\* open_ is tested and connection_id_ read under mutex_ ...
WriteBegins ==
    /\ writer = "none" /\ open
    /\ writer' = "writing"
    /\ UNCHANGED <<ownVars, libVars, dataVars, readVars, callback, freed, stray, crashed>>

\* ... and copilot_runtime_connection_write called after that.
WriteCalls ==
    /\ writer = "writing"
    /\ writer' = "none"
    /\ crashed' = (~library \/ freed)
    /\ UNCHANGED <<ownVars, libVars, dataVars, readVars, callback, freed, stray>>

-----------------------------------------------------------------------------
(* The runtime.                                                            *)

CallbackGoto(t, pc) == callback' = [callback EXCEPT ![t] = pc] /\ UNCHANGED writer

Enters(t) ==
    /\ callback[t] = "none" /\ conn = "open" /\ inbound < MaxBytes
    /\ CallbackGoto(t, "entered")
    /\ UNCHANGED <<ownVars, libVars, dataVars, readVars, freed, stray, crashed>>

\* receive(): bytes that come before open_ is set or after it is cleared are dropped.
Receives(t) ==
    /\ callback[t] = "entered"
    /\ IF freed THEN stray' = TRUE /\ UNCHANGED inbound
       ELSE stray' = stray /\ inbound' = IF open THEN inbound + 1 ELSE inbound
    /\ CallbackGoto(t, IF open THEN "notify" ELSE "none")
    /\ UNCHANGED <<ownVars, libVars, open, readVars, freed, crashed>>

Leaves(t) ==
    /\ callback[t] = "notify"
    /\ reader' = Notified
    /\ stray' = (stray \/ freed)
    /\ CallbackGoto(t, "none")
    /\ UNCHANGED <<ownVars, libVars, dataVars, running, freed, crashed>>

-----------------------------------------------------------------------------

Steps ==
    \/ OwnerStep \/ Stops \/ ReaderStep \/ WriteBegins \/ WriteCalls
    \/ \E t \in Callbacks : Enters(t) \/ Receives(t) \/ Leaves(t)

Next == ~crashed /\ Steps

Spec == Init /\ [][Next]_vars

\* The threads of the program run.  The runtime owes nothing, not even that its
\* callbacks return; the application need not stop, nor its write() return.
Fairness == WF_vars(~crashed /\ OwnerStep) /\ WF_vars(~crashed /\ ReaderStep)

FairSpec == Spec /\ Fairness

-----------------------------------------------------------------------------
(* Properties.                                                             *)

TypeOK ==
    /\ owner \in OwnerPc /\ phase \in {"make", "stop", "destroy"}
    /\ attempt \in 0..Attempts
    /\ library \in BOOLEAN /\ host \in BOOLEAN /\ conn \in {"none", "open", "released"}
    /\ open \in BOOLEAN /\ inbound \in Nat
    /\ running \in BOOLEAN /\ reader \in ReaderPc
    /\ writer \in {"none", "writing"}
    /\ callback \in [Callbacks -> {"none", "entered", "notify"}]
    /\ freed \in BOOLEAN /\ stray \in BOOLEAN /\ crashed \in BOOLEAN

\* As long as the runtime may call back, or does, the library is loaded: it is unloaded
\* when the runtime has agreed, and never when close() has given up.
CallbacksRunInLoadedCode ==
    conn = "open" \/ (\E t \in Callbacks : callback[t] # "none") => library

\* is_released() tells the truth: what is not loaded any more has no host and no
\* connection left in it.
UnloadedIsReleased == ~library => ~host /\ conn # "open"

\* stop() and the destructor return, whatever the runtime answers: close() gives up and
\* the read thread is woken.  Nothing is said of a stop() during which a write() calls
\* into the unloaded library (crashed).
StopReturns == (phase = "stop") ~> (owner = "gone" \/ crashed)

\* "strictly better than a callback landing in unmapped memory": a callback finds the
\* transport it was registered for.
OutboundFindsItsTransport == ~stray

\* A write() that was let through calls into a library that is loaded, of a transport
\* that is there.  It does not hold: close() may run between its two halves.
WritesFindTheirLibrary == ~crashed
=============================================================================
