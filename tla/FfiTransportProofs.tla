------------------------- MODULE FfiTransportProofs -------------------------
(***************************************************************************)
(* Theorems about FfiTransport, for any number of threads of the runtime,  *)
(* any number of attempts and any amount of data.                          *)
(***************************************************************************)
EXTENDS FfiTransport, TLAPS

\* A callback runs only on a connection that is open: the runtime says that it has
\* released one when it runs none.
CallbacksNeedConnection == conn # "open" => \A t \in Callbacks : callback[t] = "none"

\* What close() and the constructor know of the library, the host and the connection at
\* each of their steps.
Stages ==
    /\ owner = "load" => conn = "none" /\ ~host
    /\ owner \in {"start", "connect", "open", "up"} => library
    /\ owner \in {"shut", "unload"} => conn # "open"
    /\ owner = "unload" => ~host

\* The runtime has something of ours only in a library that is loaded.
HeldIsLoaded == host \/ conn = "open" => library

FfiInv == TypeOK /\ CallbacksNeedConnection /\ Stages /\ HeldIsLoaded

-----------------------------------------------------------------------------

LEMMA InitInv == Init => FfiInv
<1> SUFFICES ASSUME Init PROVE FfiInv
    OBVIOUS
<1>1. TypeOK
  <2>1. attempt \in 0..Attempts
    BY FfiAssumption DEF FfiAssumption, Init
  <2> QED BY <2>1 DEF Init, TypeOK, OwnerPc, ReaderPc
<1>2. CallbacksNeedConnection /\ Stages /\ HeldIsLoaded
    BY DEF Init, CallbacksNeedConnection, Stages, HeldIsLoaded
<1> QED BY <1>1, <1>2 DEF FfiInv

\* The steps of the owning thread: the constructor.
LEMMA ConstructorKeeps ==
    ASSUME FfiInv, Loads \/ HostStarts \/ ConnectionOpens \/ Opens
    PROVE  FfiInv'
<1> USE DEF ownVars, libVars, dataVars, readVars, otherVars
<1>1. CASE Loads
    BY <1>1 DEF FfiInv, TypeOK, OwnerPc, CallbacksNeedConnection, Stages, HeldIsLoaded, Loads
<1>2. CASE HostStarts
    BY <1>2 DEF FfiInv, TypeOK, OwnerPc, CallbacksNeedConnection, Stages, HeldIsLoaded,
                HostStarts
<1>3. CASE ConnectionOpens
    BY <1>3 DEF FfiInv, TypeOK, OwnerPc, CallbacksNeedConnection, Stages, HeldIsLoaded,
                ConnectionOpens
<1>4. CASE Opens
    BY <1>4 DEF FfiInv, TypeOK, OwnerPc, ReaderPc, CallbacksNeedConnection, Stages,
                HeldIsLoaded, Opens
<1> QED BY <1>1, <1>2, <1>3, <1>4

\* The steps of the owning thread: close(), stop() and the destructor.
LEMMA CloseKeeps ==
    ASSUME FfiInv,
           \/ CloseBegins \/ CloseNotifies \/ Tries \/ GivesUp \/ ShutsDown \/ Unloads
           \/ Joins \/ Stops
    PROVE  FfiInv'
<1> USE DEF ownVars, libVars, dataVars, readVars, otherVars
<1>1. CASE CloseBegins
    <2>1. attempt' \in 0..Attempts
        BY <1>1, FfiAssumption DEF FfiAssumption, FfiInv, TypeOK, CloseBegins
    <2> QED BY <1>1, <2>1 DEF FfiInv, TypeOK, OwnerPc, CallbacksNeedConnection, Stages,
                HeldIsLoaded, CloseBegins, AfterClose
<1>2. CASE CloseNotifies
    BY <1>2 DEF FfiInv, TypeOK, OwnerPc, ReaderPc, CallbacksNeedConnection, Stages,
                HeldIsLoaded, CloseNotifies, Notified
<1>3. CASE Tries
    BY <1>3, FfiAssumption
       DEF FfiAssumption, FfiInv, TypeOK, OwnerPc, CallbacksNeedConnection, Stages,
           HeldIsLoaded, Tries
<1>4. CASE GivesUp
    BY <1>4 DEF FfiInv, TypeOK, OwnerPc, CallbacksNeedConnection, Stages, HeldIsLoaded,
                GivesUp, AfterClose
<1>5. CASE ShutsDown
    BY <1>5 DEF FfiInv, TypeOK, OwnerPc, CallbacksNeedConnection, Stages, HeldIsLoaded,
                ShutsDown
<1>6. CASE Unloads
    BY <1>6 DEF FfiInv, TypeOK, OwnerPc, CallbacksNeedConnection, Stages, HeldIsLoaded,
                Unloads, AfterClose
<1>7. CASE Joins
    BY <1>7 DEF FfiInv, TypeOK, OwnerPc, CallbacksNeedConnection, Stages, HeldIsLoaded, Joins
<1>8. CASE Stops
    BY <1>8 DEF FfiInv, TypeOK, OwnerPc, CallbacksNeedConnection, Stages, HeldIsLoaded, Stops
<1> QED BY <1>1, <1>2, <1>3, <1>4, <1>5, <1>6, <1>7, <1>8

LEMMA ReaderKeeps ==
    ASSUME FfiInv, ReaderStep
    PROVE  FfiInv'
<1> USE DEF ownVars, libVars, dataVars, readVars, otherVars
<1>1. CASE Loop
    BY <1>1 DEF FfiInv, TypeOK, ReaderPc, CallbacksNeedConnection, Stages, HeldIsLoaded, Loop
<1>2. CASE Reads
    BY <1>2 DEF FfiInv, TypeOK, ReaderPc, CallbacksNeedConnection, Stages, HeldIsLoaded, Reads
<1>3. CASE Answers
    BY <1>3 DEF FfiInv, TypeOK, ReaderPc, CallbacksNeedConnection, Stages, HeldIsLoaded,
                Answers
<1>4. CASE Writes
    BY <1>4 DEF FfiInv, TypeOK, ReaderPc, CallbacksNeedConnection, Stages, HeldIsLoaded,
                Writes
<1> QED BY <1>1, <1>2, <1>3, <1>4 DEF ReaderStep

LEMMA RuntimeKeeps ==
    ASSUME FfiInv, NEW t \in Callbacks, Enters(t) \/ Receives(t) \/ Leaves(t)
    PROVE  FfiInv'
<1> USE DEF ownVars, libVars, dataVars, readVars, otherVars, CallbackGoto
<1>1. CASE Enters(t)
    BY <1>1 DEF FfiInv, TypeOK, CallbacksNeedConnection, Stages, HeldIsLoaded, Enters
<1>2. CASE Receives(t)
    <2>1. callback' \in [Callbacks -> {"none", "entered", "notify"}]
        BY <1>2 DEF FfiInv, TypeOK, Receives
    <2>2. inbound' = inbound \/ inbound' = inbound + 1
        BY <1>2 DEF Receives
    <2>3. inbound' \in Nat
        BY <2>2 DEF FfiInv, TypeOK
    <2>4. stray' = TRUE \/ stray' = stray
        BY <1>2 DEF Receives
    <2>5. stray' \in BOOLEAN
        BY <2>4 DEF FfiInv, TypeOK
    <2>6. conn = "open"
        BY <1>2 DEF FfiInv, CallbacksNeedConnection, Receives
    <2> QED BY <1>2, <2>1, <2>3, <2>5, <2>6
            DEF FfiInv, TypeOK, CallbacksNeedConnection, Stages, HeldIsLoaded, Receives
<1>3. CASE Leaves(t)
    <2>1. stray' \in BOOLEAN
        BY <1>3 DEF Leaves
    <2> QED BY <1>3, <2>1 DEF FfiInv, TypeOK, ReaderPc, CallbacksNeedConnection, Stages,
                HeldIsLoaded, Leaves, Notified
<1> QED BY <1>1, <1>2, <1>3

LEMMA StepInv == FfiInv /\ [Next]_vars => FfiInv'
<1> SUFFICES ASSUME FfiInv, [Next]_vars PROVE FfiInv'
    OBVIOUS
<1>1. CASE OwnerStep \/ Stops
    BY <1>1, ConstructorKeeps, CloseKeeps DEF OwnerStep
<1>2. CASE ReaderStep
    BY <1>2, ReaderKeeps
<1>3. CASE \E t \in Callbacks : Enters(t) \/ Receives(t) \/ Leaves(t)
    BY <1>3, RuntimeKeeps
<1>4. CASE UNCHANGED vars
    BY <1>4 DEF FfiInv, TypeOK, CallbacksNeedConnection, Stages, HeldIsLoaded, vars, ownVars,
                libVars, dataVars, readVars, otherVars
<1>5. CASE WriteBegins \/ WriteCalls
    <2> USE DEF ownVars, libVars, dataVars, readVars
    <2>1. writer' \in {"none", "writing"} /\ crashed' \in BOOLEAN
        BY <1>5 DEF FfiInv, TypeOK, WriteBegins, WriteCalls
    <2>2. UNCHANGED <<owner, phase, attempt, library, host, conn, open, inbound, reader,
                      running, callback, freed, stray>>
        BY <1>5 DEF WriteBegins, WriteCalls
    <2> QED BY <2>1, <2>2 DEF FfiInv, TypeOK, CallbacksNeedConnection, Stages, HeldIsLoaded
<1> QED BY <1>1, <1>2, <1>3, <1>4, <1>5 DEF Next, Steps

LEMMA Invariant == Spec => []FfiInv
BY InitInv, StepInv, PTL DEF Spec

-----------------------------------------------------------------------------

\* The type invariant: in particular close() never tries more often than it should.
THEOREM TransportTyped == Spec => []TypeOK
<1>1. FfiInv => TypeOK
    BY DEF FfiInv
<1> QED BY <1>1, Invariant, PTL

\* A callback of the runtime never runs in a library that close() has unloaded, however
\* often the runtime refuses and whatever thread it calls from.
THEOREM CallbacksLoaded == Spec => []CallbacksRunInLoadedCode
<1>1. FfiInv => CallbacksRunInLoadedCode
    BY DEF FfiInv, CallbacksNeedConnection, HeldIsLoaded, CallbacksRunInLoadedCode
<1> QED BY <1>1, Invariant, PTL

\* What has been unloaded has no host and no connection any more: is_released() tells
\* the truth.
THEOREM Released == Spec => []UnloadedIsReleased
<1>1. FfiInv => UnloadedIsReleased
    BY DEF FfiInv, HeldIsLoaded, UnloadedIsReleased
<1> QED BY <1>1, Invariant, PTL
=============================================================================
