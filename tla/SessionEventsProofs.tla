------------------------- MODULE SessionEventsProofs -------------------------
(***************************************************************************)
(* What every session promises to its calls of send_and_wait, for any      *)
(* number of calls and of other messages: the types, that the end of a     *)
(* call's own turn is heard, and that an undisturbed call gets the answer  *)
(* of its own turn.                                                        *)
(***************************************************************************)
EXTENDS SessionEvents, SequenceTheorems, TLAPS

Has(s, x)   == \E k \in 1..Len(s) : s[k] = x
Distinct(s) == \A j, k \in 1..Len(s) : s[j] = s[k] => j = k
Ends(e)     == e.kind \in {"idle", "error"}

-----------------------------------------------------------------------------
(* The inductive invariant.                                                *)

\* A call is subscribed from its first step to its last, and nothing is listed twice.
Subscribed ==
    /\ \A w \in Waits : Has(handlers, w) <=> call[w] \notin {"idle", "returned"}
    /\ Distinct(handlers) /\ Distinct(copied) /\ Distinct(turns)

\* The read thread calls handlers while it has an event in hand; a message belongs to the
\* turn that goes on, and has been noted there; an end belongs to one that is over.
InHand ==
    /\ copied # <<>> => event # NoEvent
    /\ event.kind = "message" => Has(turns, event.of) /\ event.of \in spoke
    /\ Ends(event) => ~Has(turns, event.of)
    /\ \A w \in over : ~Has(turns, w) /\ event.of # w

\* A turn follows its subscription.
TurnsFollow ==
    \A w \in Waits : Has(turns, w) \/ w \in over \/ w \in spoke \/ event.of = w
                     => call[w] \notin {"idle", "on"}

\* The end of a turn is in done, or on its way there.
EndArrives ==
    \A w \in Waits :
        (w \in over \/ (Ends(event) /\ event.of = w)) /\ call[w] # "returned"
        => done[w] \/ (Ends(event) /\ event.of = w /\ Has(copied, w))

\* Who has heard of no other turn has the message of its own, or it is on its way.
OwnMessage ==
    \A w \in Waits \ disturbed :
        /\ last[w] \in {Nothing, w} /\ (last[w] = w => w \in spoke)
        /\ w \in spoke /\ call[w] # "returned"
           => last[w] = w \/ (event.kind = "message" /\ event.of = w /\ Has(copied, w))
        /\ done[w] => /\ call[w] \notin {"idle", "on"} /\ ~Has(turns, w)
                      /\ w \in spoke => last[w] = w
        /\ call[w] = "woken" \/ result[w] = "message" => done[w]

EventsInv == TypeOK /\ Subscribed /\ InHand /\ TurnsFollow /\ EndArrives /\ OwnMessage

-----------------------------------------------------------------------------
(* Sequences: what is in them, and once.                                   *)

LEMMA OfEmpty == \A x : ~Has(<<>>, x) /\ Distinct(<<>>)
BY DEF Has, Distinct

\* An element more at the end.
LEMMA OfAppend ==
    ASSUME NEW S, NEW s \in Seq(S), NEW y \in S
    PROVE  /\ Append(s, y) \in Seq(S)
           /\ \A x : Has(Append(s, y), x) <=> Has(s, x) \/ x = y
           /\ Distinct(s) /\ ~Has(s, y) => Distinct(Append(s, y))
<1>1. /\ Append(s, y) \in Seq(S) /\ Len(s) \in Nat /\ Len(Append(s, y)) = Len(s) + 1
      /\ \A k \in 1..Len(s) : Append(s, y)[k] = s[k]
      /\ Append(s, y)[Len(s) + 1] = y
    OBVIOUS
<1>2. \A k : k \in 1..(Len(s) + 1) <=> k \in 1..Len(s) \/ k = Len(s) + 1
    BY <1>1
<1>3. \A x : Has(Append(s, y), x) <=> Has(s, x) \/ x = y
    BY <1>1, <1>2 DEF Has
<1>4. ASSUME Distinct(s), ~Has(s, y)
      PROVE  Distinct(Append(s, y))
    BY <1>1, <1>2, <1>4 DEF Has, Distinct
<1> QED BY <1>1, <1>3, <1>4

\* The first element is taken.
LEMMA OfTail ==
    ASSUME NEW S, NEW s \in Seq(S), s # <<>>, Distinct(s)
    PROVE  /\ Tail(s) \in Seq(S) /\ Head(s) \in S /\ Has(s, Head(s))
           /\ \A x : Has(Tail(s), x) <=> Has(s, x) /\ x # Head(s)
           /\ Distinct(Tail(s))
<1>1. /\ Len(s) \in Nat \ {0} /\ Tail(s) \in Seq(S) /\ Head(s) \in S /\ Head(s) = s[1]
      /\ Len(Tail(s)) = Len(s) - 1
      /\ \A k \in 1..(Len(s) - 1) : Tail(s)[k] = s[k + 1]
    OBVIOUS
<1>2. \A k \in 1..(Len(s) - 1) : k + 1 \in 1..Len(s) /\ k + 1 # 1
    BY <1>1
<1>3. \A k \in 1..Len(s) : k = 1 \/ (k - 1 \in 1..(Len(s) - 1) /\ (k - 1) + 1 = k)
    BY <1>1
<1>4. 1 \in 1..Len(s)
    BY <1>1
<1>5. ASSUME NEW x
      PROVE  Has(Tail(s), x) <=> Has(s, x) /\ x # Head(s)
  <2>1. ASSUME Has(Tail(s), x)
        PROVE  Has(s, x) /\ x # Head(s)
    BY <1>1, <1>2, <1>4, <2>1 DEF Has, Distinct
  <2>2. ASSUME Has(s, x), x # Head(s)
        PROVE  Has(Tail(s), x)
    BY <1>1, <1>3, <2>2 DEF Has
  <2> QED BY <2>1, <2>2
<1>6. Distinct(Tail(s))
  <2>1. \A j, k \in 1..(Len(s) - 1) : j + 1 = k + 1 => j = k
    BY <1>1
  <2> QED BY <1>1, <1>2, <2>1 DEF Distinct
<1> QED BY <1>1, <1>4, <1>5, <1>6 DEF Has

\* One element is erased.
LEMMA OfRemoveAt ==
    ASSUME NEW S, NEW s \in Seq(S), NEW k \in 1..Len(s), Distinct(s)
    PROVE  /\ RemoveAt(s, k) \in Seq(S)
           /\ \A x : Has(RemoveAt(s, k), x) <=> Has(s, x) /\ x # s[k]
           /\ Distinct(RemoveAt(s, k))
<1> DEFINE r == RemoveAt(s, k)
           from(j) == IF j < k THEN j ELSE j + 1
<1>1. /\ r \in Seq(S) /\ Len(s) \in Nat \ {0} /\ Len(r) = Len(s) - 1
      /\ \A j \in 1..(Len(s) - 1) : r[j] = s[from(j)]
  <2> DEFINE a == SubSeq(s, 1, k - 1)
             b == SubSeq(s, k + 1, Len(s))
  <2>1. Len(s) \in Nat \ {0} /\ k \in Nat \ {0} /\ k <= Len(s)
    OBVIOUS
  <2>2. a \in Seq(S) /\ Len(a) = k - 1 /\ \A j \in 1..(k - 1) : a[j] = s[j]
    BY <2>1, SubSeqProperties
  <2>3. /\ b \in Seq(S) /\ Len(b) = Len(s) - k
        /\ \A j \in 1..(Len(s) - k) : b[j] = s[k + j]
    BY <2>1, SubSeqProperties
  <2> HIDE DEF a, b
  <2>4. /\ a \o b \in Seq(S) /\ Len(a \o b) = Len(s) - 1
        /\ \A j \in 1..(Len(s) - 1) :
              (a \o b)[j] = IF j <= k - 1 THEN a[j] ELSE b[j - (k - 1)]
    BY <2>1, <2>2, <2>3
  <2>5. \A j \in 1..(Len(s) - 1) : (a \o b)[j] = s[from(j)]
    BY <2>1, <2>2, <2>3, <2>4
  <2>6. r = a \o b
    BY DEF RemoveAt, a, b
  <2> QED BY <2>1, <2>4, <2>5, <2>6
<1> HIDE DEF r
<1>2. \A j \in 1..(Len(s) - 1) : from(j) \in 1..Len(s) /\ from(j) # k
    BY <1>1
<1>3. \A j \in 1..Len(s) : j = k \/ \E i \in 1..(Len(s) - 1) : from(i) = j
  <2> SUFFICES ASSUME NEW j \in 1..Len(s), j # k
               PROVE  \E i \in 1..(Len(s) - 1) : from(i) = j
    OBVIOUS
  <2>1. CASE j < k
    BY <1>1, <2>1
  <2>2. CASE j > k
    <3>1. j - 1 \in 1..(Len(s) - 1) /\ from(j - 1) = j
        BY <1>1, <2>2
    <3> QED BY <3>1
  <2> QED BY <1>1, <2>1, <2>2
<1>4. \A i, j \in 1..(Len(s) - 1) : from(i) = from(j) => i = j
    BY <1>1
<1> HIDE DEF from
<1>5. \A x : Has(r, x) <=> Has(s, x) /\ x # s[k]
    BY <1>1, <1>2, <1>3 DEF Has, Distinct
<1>6. Distinct(r)
    BY <1>1, <1>2, <1>4 DEF Distinct
<1> QED BY <1>1, <1>5, <1>6 DEF r

-----------------------------------------------------------------------------
(* The steps keep the invariant, one part after the other.                 *)

\* The three things that a call of a handler may do.
TooLate(w) ==
    /\ call[w] = "returned" /\ crashed' = TRUE
    /\ UNCHANGED <<done, last, failed, disturbed>>

Disturbs(w) == disturbed' = IF event.of = w THEN disturbed ELSE disturbed \cup {w}

HearsMessage(w) ==
    /\ call[w] # "returned" /\ event.kind = "message"
    /\ last' = [last EXCEPT ![w] = event.of]
    /\ Disturbs(w) /\ UNCHANGED <<done, failed, crashed>>

HearsEnd(w) ==
    /\ call[w] # "returned" /\ event.kind # "message"
    /\ done' = [done EXCEPT ![w] = TRUE]
    /\ failed' = [failed EXCEPT ![w] = @ \/ event.kind = "error"]
    /\ Disturbs(w) /\ UNCHANGED <<last, crashed>>

LEMMA CallsOne ==
    ASSUME TypeOK, Subscribed, Calls
    PROVE  /\ copied' = Tail(copied) /\ copied # <<>>
           /\ copied' \in Seq(Waits) /\ Distinct(copied')
           /\ Head(copied) \in Waits /\ Has(copied, Head(copied))
           /\ \A x : Has(copied', x) <=> Has(copied, x) /\ x # Head(copied)
           /\ UNCHANGED <<turns, spoke, over, responded, handlers, event, call, result>>
           /\ TooLate(Head(copied)) \/ HearsMessage(Head(copied)) \/ HearsEnd(Head(copied))
<1>1. /\ copied # <<>> /\ copied' = Tail(copied)
      /\ UNCHANGED <<turns, spoke, over, responded, handlers, event, call, result>>
    BY DEF Calls, serverVars
<1>2. copied \in Seq(Waits) /\ Distinct(copied)
    BY DEF TypeOK, Subscribed
<1>3. /\ Tail(copied) \in Seq(Waits) /\ Distinct(Tail(copied))
      /\ Head(copied) \in Waits /\ Has(copied, Head(copied))
      /\ \A x : Has(Tail(copied), x) <=> Has(copied, x) /\ x # Head(copied)
    BY <1>1, <1>2, OfTail
<1>4. TooLate(Head(copied)) \/ HearsMessage(Head(copied)) \/ HearsEnd(Head(copied))
    BY Zenon DEF Calls, TooLate, HearsMessage, HearsEnd, Disturbs, frameVars
<1> QED BY <1>1, <1>3, <1>4, Zenon

LEMMA TypedInit == Init => TypeOK
<1> SUFFICES ASSUME Init PROVE TypeOK
    OBVIOUS
<1>1. event \in Events /\ crashed \in BOOLEAN
    BY DEF Init, Events
<1>2. \A w \in Waits : call[w] \in WaitPc
    BY DEF Init, WaitPc
<1>3. call \in [Waits -> WaitPc]
    BY <1>2 DEF Init
<1> QED BY <1>1, <1>3 DEF Init, TypeOK

LEMMA TypedStep ==
    ASSUME TypeOK, Subscribed, [Next]_vars
    PROVE  TypeOK'
<1> USE DEF serverVars, readVars, frameVars, Goto, WaitPc
<1>1. ASSUME NEW w \in Waits, Subscribes(w)
      PROVE  TypeOK'
    BY <1>1, OfAppend DEF Subscribes, TypeOK
<1>2. ASSUME NEW w \in Waits, Sends(w)
      PROVE  TypeOK'
    BY <1>2, OfAppend DEF Sends, TypeOK, Turns
<1>3. ASSUME NEW w \in Waits, Unsubscribes(w)
      PROVE  TypeOK'
  <2>1. PICK k \in 1..Len(handlers) : handlers' = RemoveAt(handlers, k)
    BY <1>3 DEF Unsubscribes
  <2>2. handlers' \in Seq(Waits)
    BY <2>1, OfRemoveAt DEF TypeOK, Subscribed
  <2> QED BY <1>3, <2>2 DEF Unsubscribes, TypeOK
<1>4. ASSUME NEW w \in Waits,
             SendFails(w) \/ SendReturns(w) \/ Wakes(w) \/ TimesOut(w) \/ Results(w)
      PROVE  TypeOK'
    BY <1>4 DEF SendFails, SendReturns, Wakes, TimesOut, Results, TypeOK
<1>5. ASSUME NEW w \in Waits, Responds(w)
      PROVE  TypeOK'
    BY <1>5 DEF Responds, TypeOK
<1>6. ASSUME NEW p \in Plain, PlainSends(p)
      PROVE  TypeOK'
    BY <1>6, OfAppend DEF PlainSends, TypeOK, Turns
<1>7. ASSUME NEW kind \in {"message", "idle", "error"}, Reads(kind)
      PROVE  TypeOK'
  <2>1. Head(turns) \in Turns /\ Tail(turns) \in Seq(Turns)
    BY <1>7, OfTail DEF Reads, TypeOK, Subscribed
  <2>2. event' \in Events /\ turns' \in Seq(Turns) /\ spoke' \subseteq Turns
    BY <1>7, <2>1 DEF Reads, TypeOK, Events
  <2> QED BY <1>7, <2>2 DEF Reads, TypeOK
<1>8. CASE Calls
  <2> DEFINE w == Head(copied)
  <2>1. /\ copied' \in Seq(Waits) /\ w \in Waits
        /\ UNCHANGED <<turns, spoke, over, responded, handlers, event, call, result>>
    BY <1>8, CallsOne
  <2>2. TooLate(w) \/ HearsMessage(w) \/ HearsEnd(w)
    BY <1>8, CallsOne
  <2> HIDE DEF w
  <2>3. event.of \in Turns \cup {Nothing}
    <3>1. event \in Events
        BY DEF TypeOK
    <3>2. CASE event = NoEvent
        BY <3>2 DEF NoEvent
    <3>3. CASE event # NoEvent
        BY <3>1, <3>3 DEF Events
    <3> QED BY <3>2, <3>3
  <2>4. CASE TooLate(w)
    BY <2>1, <2>4 DEF TooLate, TypeOK
  <2>5. CASE HearsMessage(w)
    BY <2>1, <2>3, <2>5 DEF HearsMessage, Disturbs, TypeOK
  <2>6. CASE HearsEnd(w)
    <3>1. failed' \in [Waits -> BOOLEAN]
        BY <2>6, Zenon DEF HearsEnd, TypeOK
    <3>2. done' \in [Waits -> BOOLEAN] /\ disturbed' \subseteq Waits
        BY <2>1, <2>6 DEF HearsEnd, Disturbs, TypeOK
    <3> QED BY <2>1, <2>6, <3>1, <3>2 DEF HearsEnd, TypeOK
  <2> QED BY <2>2, <2>4, <2>5, <2>6
<1>9. CASE Dispatched
    BY <1>9 DEF Dispatched, TypeOK, Events, NoEvent
<1>10. CASE UNCHANGED vars
    BY <1>10 DEF vars, TypeOK
<1> QED BY <1>1, <1>2, <1>3, <1>4, <1>5, <1>6, <1>7, <1>8, <1>9, <1>10 DEF Next, Steps, WaitStep

\* A message goes to the end of the turns.
LEMMA TurnAdded ==
    ASSUME TypeOK, Subscribed, NEW t \in Turns, turns' = Append(turns, t)
    PROVE  /\ \A x : Has(turns', x) <=> Has(turns, x) \/ x = t
           /\ ~Has(turns, t) => Distinct(turns')
<1>1. turns \in Seq(Turns) /\ Distinct(turns)
    BY DEF TypeOK, Subscribed
<1>2. /\ \A x : Has(Append(turns, t), x) <=> Has(turns, x) \/ x = t
      /\ ~Has(turns, t) => Distinct(Append(turns, t))
    BY <1>1, OfAppend, Zenon
<1> QED BY <1>2, Zenon

LEMMA SubscribedStep ==
    ASSUME TypeOK, Subscribed, InHand, TurnsFollow, [Next]_vars
    PROVE  Subscribed'
<1> USE DEF serverVars, readVars, frameVars, Goto
<1>1. ASSUME NEW w \in Waits, Subscribes(w)
      PROVE  Subscribed'
    BY <1>1, OfAppend DEF Subscribes, TypeOK, Subscribed
<1>2. ASSUME NEW w \in Waits, Sends(w)
      PROVE  Subscribed'
  <2>1. ~Has(turns, w) /\ w \in Turns /\ turns' = Append(turns, w)
    BY <1>2 DEF Sends, TurnsFollow, Turns
  <2>2. Distinct(turns')
    BY <2>1, TurnAdded
  <2> QED BY <1>2, <2>2 DEF Sends, TypeOK, Subscribed
<1>3. ASSUME NEW w \in Waits, Unsubscribes(w)
      PROVE  Subscribed'
  <2>1. PICK k \in 1..Len(handlers) : handlers[k] = w /\ handlers' = RemoveAt(handlers, k)
    BY <1>3 DEF Unsubscribes
  <2>2. /\ \A x : Has(handlers', x) <=> Has(handlers, x) /\ x # w
        /\ Distinct(handlers')
    BY <2>1, OfRemoveAt DEF TypeOK, Subscribed
  <2> QED BY <1>3, <2>2 DEF Unsubscribes, TypeOK, Subscribed
<1>4. ASSUME NEW w \in Waits,
             SendFails(w) \/ SendReturns(w) \/ Wakes(w) \/ TimesOut(w) \/ Results(w)
      PROVE  Subscribed'
    BY <1>4 DEF SendFails, SendReturns, Wakes, TimesOut, Results, TypeOK, Subscribed
<1>5. ASSUME NEW w \in Waits, Responds(w)
      PROVE  Subscribed'
    BY <1>5 DEF Responds, Subscribed
<1>6. ASSUME NEW p \in Plain, PlainSends(p)
      PROVE  Subscribed'
  <2>1. ~Has(turns, p)
    BY <1>6 DEF PlainSends, Has
  <2>2. Distinct(turns')
    BY <1>6, <2>1, TurnAdded DEF PlainSends, Turns
  <2> QED BY <1>6, <2>2 DEF PlainSends, Subscribed
<1>7. ASSUME NEW kind \in {"message", "idle", "error"}, Reads(kind)
      PROVE  Subscribed'
    BY <1>7, OfTail DEF Reads, TypeOK, Subscribed
<1>8. CASE Calls
    BY <1>8, CallsOne DEF Subscribed
<1>9. CASE Dispatched
    BY <1>9 DEF Dispatched, Subscribed
<1>10. CASE UNCHANGED vars
    BY <1>10 DEF vars, Subscribed
<1> QED BY <1>1, <1>2, <1>3, <1>4, <1>5, <1>6, <1>7, <1>8, <1>9, <1>10 DEF Next, Steps, WaitStep

LEMMA InHandStep ==
    ASSUME TypeOK, Subscribed, InHand, TurnsFollow, [Next]_vars
    PROVE  InHand'
<1> USE DEF serverVars, readVars, frameVars, Goto, Ends
<1>1. ASSUME NEW w \in Waits,
             Subscribes(w) \/ SendFails(w) \/ SendReturns(w) \/ Wakes(w) \/ TimesOut(w)
             \/ Results(w) \/ Unsubscribes(w) \/ Responds(w)
      PROVE  InHand'
    BY <1>1 DEF Subscribes, SendFails, SendReturns, Wakes, TimesOut, Results, Unsubscribes,
                Responds, InHand
<1>2. ASSUME NEW w \in Waits, Sends(w)
      PROVE  InHand'
  <2>1. \A x : Has(turns', x) <=> Has(turns, x) \/ x = w
    BY <1>2, TurnAdded DEF Sends, Turns
  <2>2. w \notin over /\ event.of # w
    BY <1>2 DEF Sends, TurnsFollow
  <2>3. UNCHANGED <<spoke, over, event, copied>>
    BY <1>2 DEF Sends
  <2> QED BY <2>1, <2>2, <2>3 DEF InHand
<1>3. ASSUME NEW p \in Plain, PlainSends(p)
      PROVE  InHand'
  <2>1. \A x : Has(turns', x) <=> Has(turns, x) \/ x = p
    BY <1>3, TurnAdded DEF PlainSends, Turns
  <2>2. p \notin over /\ event.of # p /\ UNCHANGED <<spoke, over, event, copied>>
    BY <1>3 DEF PlainSends
  <2> QED BY <2>1, <2>2 DEF InHand
<1>4. ASSUME NEW kind \in {"message", "idle", "error"}, Reads(kind)
      PROVE  InHand'
  <2>1. /\ Has(turns, Head(turns))
        /\ \A x : Has(Tail(turns), x) <=> Has(turns, x) /\ x # Head(turns)
    BY <1>4, OfTail DEF Reads, TypeOK, Subscribed
  <2>2. /\ event'.kind = kind /\ event'.of = Head(turns) /\ event' # NoEvent
        /\ over' = over /\ Head(turns) \notin over
    BY <1>4, <2>1 DEF Reads, NoEvent, InHand
  <2>3. CASE kind = "message"
    <3>1. turns' = turns /\ spoke' = spoke \cup {Head(turns)}
        BY <1>4, <2>3 DEF Reads
    <3> QED BY <2>1, <2>2, <2>3, <3>1 DEF InHand
  <2>4. CASE kind # "message"
    <3>1. turns' = Tail(turns)
        BY <1>4, <2>4 DEF Reads
    <3> QED BY <2>1, <2>2, <2>4, <3>1 DEF InHand
  <2> QED BY <2>3, <2>4
<1>5. CASE Calls
    BY <1>5, CallsOne DEF InHand
<1>6. CASE Dispatched
    BY <1>6, EventsAssumption DEF Dispatched, InHand, NoEvent, TypeOK, Events, Turns
<1>7. CASE UNCHANGED vars
    BY <1>7 DEF vars, InHand
<1> QED BY <1>1, <1>2, <1>3, <1>4, <1>5, <1>6, <1>7 DEF Next, Steps, WaitStep

\* What the steps that this part of the proof tells apart do to the shared state.
LEMMA ReadsNext ==
    ASSUME TypeOK, Subscribed, InHand, NEW kind \in {"message", "idle", "error"}, Reads(kind)
    PROVE  /\ event = NoEvent /\ copied = <<>> /\ copied' = handlers
           /\ event'.kind = kind /\ event'.of = Head(turns)
           /\ Head(turns) \in Turns /\ Has(turns, Head(turns)) /\ Head(turns) \notin over
           /\ \A x : Has(turns', x) => Has(turns, x)
           /\ kind = "message" => /\ Head(turns) \notin spoke
                                  /\ spoke' = spoke \cup {Head(turns)}
           /\ kind # "message" => /\ spoke' = spoke /\ ~Has(turns', Head(turns))
           /\ UNCHANGED <<over, handlers, call, done, last, failed, result, disturbed,
                       crashed>>
<1>1. /\ Head(turns) \in Turns /\ Has(turns, Head(turns))
      /\ \A x : Has(Tail(turns), x) <=> Has(turns, x) /\ x # Head(turns)
    BY OfTail DEF Reads, TypeOK, Subscribed
<1>2. CASE kind = "message"
    BY <1>1, <1>2 DEF Reads, InHand, frameVars
<1>3. CASE kind # "message"
    BY <1>1, <1>3 DEF Reads, InHand, frameVars
<1> QED BY <1>2, <1>3

LEMMA TurnsFollowStep ==
    ASSUME TypeOK, Subscribed, InHand, TurnsFollow, [Next]_vars
    PROVE  TurnsFollow'
<1> USE DEF serverVars, readVars, frameVars, Goto
<1>1. ASSUME NEW w \in Waits,
             Subscribes(w) \/ SendFails(w) \/ SendReturns(w) \/ Wakes(w) \/ TimesOut(w)
             \/ Results(w) \/ Unsubscribes(w) \/ Responds(w)
      PROVE  TurnsFollow'
  <2>1. UNCHANGED <<turns, over, spoke, event>>
    BY <1>1 DEF Subscribes, SendFails, SendReturns, Wakes, TimesOut, Results, Unsubscribes,
                Responds
  <2>2. \A x \in Waits : call'[x] \in {"idle", "on"} => call[x] \in {"idle", "on"}
    BY <1>1 DEF Subscribes, SendFails, SendReturns, Wakes, TimesOut, Results, Unsubscribes,
                Responds, TypeOK
  <2> QED BY <2>1, <2>2 DEF TurnsFollow
<1>2. ASSUME NEW w \in Waits, Sends(w)
      PROVE  TurnsFollow'
  <2>1. \A x : Has(turns', x) <=> Has(turns, x) \/ x = w
    BY <1>2, TurnAdded DEF Sends, Turns
  <2>2. UNCHANGED <<over, spoke, event>> /\ call' = [call EXCEPT ![w] = "sending"]
    BY <1>2 DEF Sends
  <2> QED BY <2>1, <2>2 DEF TurnsFollow, TypeOK
<1>3. ASSUME NEW p \in Plain, PlainSends(p)
      PROVE  TurnsFollow'
  <2>1. \A x : Has(turns', x) <=> Has(turns, x) \/ x = p
    BY <1>3, TurnAdded DEF PlainSends, Turns
  <2>2. p \notin Waits /\ UNCHANGED <<over, spoke, event, call>>
    BY <1>3, EventsAssumption DEF PlainSends
  <2> QED BY <2>1, <2>2 DEF TurnsFollow
<1>4. ASSUME NEW kind \in {"message", "idle", "error"}, Reads(kind)
      PROVE  TurnsFollow'
    BY <1>4, ReadsNext DEF TurnsFollow
<1>5. CASE Calls
    BY <1>5, CallsOne DEF TurnsFollow
<1>6. CASE Dispatched
    BY <1>6, EventsAssumption DEF Dispatched, TurnsFollow, NoEvent, Turns
<1>7. CASE UNCHANGED vars
    BY <1>7 DEF vars, TurnsFollow
<1> QED BY <1>1, <1>2, <1>3, <1>4, <1>5, <1>6, <1>7 DEF Next, Steps, WaitStep

LEMMA EndArrivesStep ==
    ASSUME TypeOK, Subscribed, InHand, TurnsFollow, EndArrives, [Next]_vars
    PROVE  EndArrives'
<1> USE DEF serverVars, readVars, frameVars, Goto
<1>1. ASSUME NEW w \in Waits, WaitStep(w) \/ Responds(w)
      PROVE  EndArrives'
  <2>1. UNCHANGED <<over, event, copied, done>>
    BY <1>1 DEF WaitStep, Subscribes, Sends, SendFails, SendReturns, Wakes, TimesOut, Results,
                Unsubscribes, Responds
  <2>2. \A x \in Waits : call[x] = "returned" => call'[x] = "returned"
    BY <1>1 DEF WaitStep, Subscribes, Sends, SendFails, SendReturns, Wakes, TimesOut, Results,
                Unsubscribes, Responds, TypeOK
  <2> QED BY <2>1, <2>2 DEF EndArrives
<1>2. ASSUME NEW p \in Plain, PlainSends(p)
      PROVE  EndArrives'
    BY <1>2 DEF PlainSends, EndArrives
<1>3. ASSUME NEW kind \in {"message", "idle", "error"}, Reads(kind)
      PROVE  EndArrives'
  <2>1. ~Ends(event)
    BY <1>3, ReadsNext DEF NoEvent, Ends
  <2>2. ASSUME NEW w \in Waits, event'.of = w, call[w] # "returned"
        PROVE  Has(copied', w)
    BY <1>3, <2>2, ReadsNext DEF TurnsFollow, Subscribed
  <2> QED BY <1>3, <2>1, <2>2, ReadsNext DEF EndArrives
<1>4. CASE Calls
  <2> DEFINE h == Head(copied)
  <2>1. /\ h \in Waits /\ UNCHANGED <<over, event, call>>
        /\ \A x : Has(copied', x) <=> Has(copied, x) /\ x # h
    BY <1>4, CallsOne
  <2>2. TooLate(h) \/ HearsMessage(h) \/ HearsEnd(h)
    BY <1>4, CallsOne
  <2> HIDE DEF h
  <2>3. \A x \in Waits : done[x] => done'[x]
    BY <2>1, <2>2 DEF TooLate, HearsMessage, HearsEnd, TypeOK
  <2>4. Ends(event) /\ call[h] # "returned" => done'[h]
    BY <2>1, <2>2 DEF TooLate, HearsMessage, HearsEnd, TypeOK, Ends
  <2> QED BY <2>1, <2>3, <2>4 DEF EndArrives
<1>5. CASE Dispatched
  <2>1. \A x : ~Has(copied, x)
    BY <1>5, OfEmpty DEF Dispatched
  <2>2. /\ UNCHANGED <<call, done, copied>>
        /\ over' \subseteq over \cup (IF event.kind = "message" THEN {} ELSE {event.of})
        /\ event' = NoEvent /\ (event.kind # "message" => Ends(event))
    BY <1>5 DEF Dispatched, TypeOK, Events, Ends
  <2>3. ~Ends(event')
    BY <2>2 DEF NoEvent, Ends
  <2> QED BY <2>1, <2>2, <2>3 DEF EndArrives
<1>6. CASE UNCHANGED vars
    BY <1>6 DEF vars, EndArrives
<1> QED BY <1>1, <1>2, <1>3, <1>4, <1>5, <1>6 DEF Next, Steps

\* The part about one call, for the steps that leave it alone.
OwnMessageOf(w) ==
    /\ last[w] \in {Nothing, w} /\ (last[w] = w => w \in spoke)
    /\ w \in spoke /\ call[w] # "returned"
       => last[w] = w \/ (event.kind = "message" /\ event.of = w /\ Has(copied, w))
    /\ done[w] => /\ call[w] \notin {"idle", "on"} /\ ~Has(turns, w)
                  /\ w \in spoke => last[w] = w
    /\ call[w] = "woken" \/ result[w] = "message" => done[w]

LEMMA OwnMessageStep ==
    ASSUME TypeOK, Subscribed, InHand, TurnsFollow, OwnMessage, [Next]_vars,
           NEW w \in Waits, w \notin disturbed'
    PROVE  OwnMessageOf(w)'
<1> USE DEF serverVars, readVars, frameVars, Goto
<1>1. ASSUME NEW x \in Waits, WaitStep(x)
      PROVE  OwnMessageOf(w)'
  <2>1. UNCHANGED <<spoke, event, copied, last, done, disturbed>>
    BY <1>1 DEF WaitStep, Subscribes, Sends, SendFails, SendReturns, Wakes, TimesOut, Results,
                Unsubscribes
  <2>2. OwnMessageOf(w)
    BY <2>1 DEF OwnMessage, OwnMessageOf
  <2>3. /\ call[w] = "returned" => call'[w] = "returned"
        /\ call'[w] \in {"idle", "on"} => call[w] \in {"idle", "on"}
        /\ call'[w] = "woken" => call[w] = "woken" \/ done[w]
    BY <1>1 DEF WaitStep, Subscribes, Sends, SendFails, SendReturns, Wakes, TimesOut, Results,
                Unsubscribes, TypeOK
  <2>4. result'[w] = "message" => result[w] = "message" \/ call[w] = "woken"
    BY <1>1 DEF WaitStep, Subscribes, Sends, SendFails, SendReturns, Wakes, TimesOut, Results,
                Unsubscribes, TypeOK
  <2>5. Has(turns', w) => Has(turns, w) \/ call[w] = "on"
    <3>1. CASE Sends(x)
        <4>1. \A y : Has(turns', y) <=> Has(turns, y) \/ y = x
            BY <3>1, TurnAdded DEF Sends, Turns
        <4> QED BY <3>1, <4>1 DEF Sends
    <3>2. CASE ~Sends(x)
        BY <1>1, <3>2 DEF WaitStep, Subscribes, SendFails, SendReturns, Wakes, TimesOut,
                          Results, Unsubscribes
    <3> QED BY <3>1, <3>2
  <2> QED BY <2>1, <2>2, <2>3, <2>4, <2>5 DEF OwnMessageOf
<1>2. ASSUME NEW x \in Waits, Responds(x)
      PROVE  OwnMessageOf(w)'
    BY <1>2 DEF Responds, OwnMessage, OwnMessageOf
<1>3. ASSUME NEW p \in Plain, PlainSends(p)
      PROVE  OwnMessageOf(w)'
  <2>1. \A x : Has(turns', x) <=> Has(turns, x) \/ x = p
    BY <1>3, TurnAdded DEF PlainSends, Turns
  <2>2. p # w /\ UNCHANGED <<spoke, event, copied, last, done, disturbed, call, result>>
    BY <1>3, EventsAssumption DEF PlainSends
  <2> QED BY <2>1, <2>2 DEF OwnMessage, OwnMessageOf
<1>4. ASSUME NEW kind \in {"message", "idle", "error"}, Reads(kind)
      PROVE  OwnMessageOf(w)'
  <2>1. /\ event = NoEvent /\ copied' = handlers
        /\ event'.kind = kind /\ event'.of = Head(turns) /\ Has(turns, Head(turns))
        /\ \A x : Has(turns', x) => Has(turns, x)
        /\ kind = "message" => spoke' = spoke \cup {Head(turns)}
        /\ kind # "message" => spoke' = spoke
        /\ UNCHANGED <<call, done, last, result, disturbed>>
    BY <1>4, ReadsNext
  <2>2. OwnMessageOf(w) /\ event.kind # "message"
    BY <2>1 DEF OwnMessage, OwnMessageOf, NoEvent
  <2>3. CASE kind = "message" /\ Head(turns) = w
    <3>1. call[w] # "returned" => Has(handlers, w)
        BY <2>1, <2>3 DEF TurnsFollow, Subscribed
    <3>2. ~done[w]
        BY <2>1, <2>2, <2>3 DEF OwnMessageOf
    <3> QED BY <2>1, <2>2, <2>3, <3>1, <3>2 DEF OwnMessageOf
  <2>4. CASE ~(kind = "message" /\ Head(turns) = w)
    <3>1. w \in spoke' <=> w \in spoke
        BY <2>1, <2>4
    <3> QED BY <2>1, <2>2, <3>1 DEF OwnMessageOf
  <2> QED BY <2>3, <2>4
<1>5. CASE Calls
  <2> DEFINE h == Head(copied)
  <2>1. /\ h \in Waits /\ Has(copied, h)
        /\ UNCHANGED <<turns, spoke, event, call, result>>
        /\ \A x : Has(copied', x) <=> Has(copied, x) /\ x # h
    BY <1>5, CallsOne
  <2>2. TooLate(h) \/ HearsMessage(h) \/ HearsEnd(h)
    BY <1>5, CallsOne
  <2>3. event # NoEvent /\ event.kind \in {"message", "idle", "error"}
    BY <1>5, CallsOne DEF InHand, TypeOK, Events
  <2> HIDE DEF h
  <2>4. OwnMessageOf(w)
    BY <2>2 DEF TooLate, HearsMessage, HearsEnd, Disturbs, OwnMessage, OwnMessageOf
  <2>5. CASE h # w
    <3>1. last'[w] = last[w] /\ done'[w] = done[w]
        BY <2>1, <2>2, <2>5 DEF TooLate, HearsMessage, HearsEnd, TypeOK
    <3> QED BY <2>1, <2>4, <2>5, <3>1 DEF OwnMessageOf
  <2>6. CASE h = w /\ TooLate(h)
    <3>1. last'[w] = last[w] /\ done'[w] = done[w] /\ call'[w] = "returned"
        BY <2>1, <2>6 DEF TooLate
    <3> QED BY <2>1, <2>4, <3>1 DEF OwnMessageOf
  <2>7. CASE h = w /\ HearsMessage(h)
    <3>1. event.of = w /\ last'[w] = w /\ done'[w] = done[w] /\ w \in spoke
        BY <2>1, <2>7 DEF HearsMessage, Disturbs, TypeOK, InHand
    <3> QED BY <2>1, <2>4, <3>1 DEF OwnMessageOf
  <2>8. CASE h = w /\ HearsEnd(h)
    <3>1. event.of = w /\ last'[w] = last[w] /\ done'[w] /\ event.kind # "message"
        BY <2>1, <2>8 DEF HearsEnd, Disturbs, TypeOK
    <3>2. ~Has(turns, w)
        BY <2>3, <3>1 DEF InHand, Ends
    <3>3. call[w] \notin {"idle", "on", "returned"}
        BY <2>8, <3>1 DEF HearsEnd, TurnsFollow
    <3> QED BY <2>1, <2>4, <3>1, <3>2, <3>3 DEF OwnMessageOf
  <2> QED BY <2>2, <2>5, <2>6, <2>7, <2>8
<1>6. CASE Dispatched
  <2>1. ~Has(copied, w)
    BY <1>6, OfEmpty DEF Dispatched
  <2>2. UNCHANGED <<turns, spoke, copied, last, done, disturbed, call, result>>
    BY <1>6 DEF Dispatched
  <2> QED BY <2>1, <2>2 DEF OwnMessage, OwnMessageOf
<1>7. CASE UNCHANGED vars
    BY <1>7 DEF vars, OwnMessage, OwnMessageOf
<1> QED BY <1>1, <1>2, <1>3, <1>4, <1>5, <1>6, <1>7 DEF Next, Steps

-----------------------------------------------------------------------------

LEMMA InvInit == Init => EventsInv
<1> SUFFICES ASSUME Init PROVE EventsInv
    OBVIOUS
<1>1. TypeOK
    BY TypedInit
<1>2. /\ turns = <<>> /\ handlers = <<>> /\ copied = <<>>
      /\ \A x : ~Has(turns, x) /\ ~Has(handlers, x) /\ ~Has(copied, x)
      /\ Distinct(turns) /\ Distinct(handlers) /\ Distinct(copied)
    BY OfEmpty DEF Init
<1>3. event.kind = "none" /\ event.of = Nothing
    BY DEF Init, NoEvent
<1>4. \A w \in Waits : w # Nothing
    BY EventsAssumption DEF Turns
<1>5. Subscribed /\ InHand /\ TurnsFollow
    BY <1>2, <1>3, <1>4 DEF Init, Subscribed, InHand, TurnsFollow, Ends
<1>6. EndArrives /\ OwnMessage
    BY <1>2, <1>3, <1>4 DEF Init, EndArrives, OwnMessage, Ends
<1> QED BY <1>1, <1>5, <1>6 DEF EventsInv

LEMMA InvStep == EventsInv /\ [Next]_vars => EventsInv'
<1> SUFFICES ASSUME EventsInv, [Next]_vars PROVE EventsInv'
    OBVIOUS
<1>1. TypeOK' /\ Subscribed' /\ InHand'
    BY TypedStep, SubscribedStep, InHandStep DEF EventsInv
<1>2. TurnsFollow' /\ EndArrives'
    BY TurnsFollowStep, EndArrivesStep DEF EventsInv
<1>3. OwnMessage'
  <2>1. \A w \in Waits : w \notin disturbed' => OwnMessageOf(w)'
    BY OwnMessageStep DEF EventsInv
  <2> QED BY <2>1 DEF OwnMessage, OwnMessageOf
<1> QED BY <1>1, <1>2, <1>3 DEF EventsInv

LEMMA Invariance == Spec => []EventsInv
<1>1. Init => EventsInv
    BY InvInit
<1>2. EventsInv /\ [Next]_vars => EventsInv'
    BY InvStep
<1> QED BY <1>1, <1>2, PTL DEF Spec

-----------------------------------------------------------------------------
(* The theorems.                                                           *)

\* Every variable of the session keeps its type: event_handlers_ holds nothing but the
\* handlers of calls, whatever is subscribed and erased.
THEOREM EventsTyped == Spec => []TypeOK
<1>1. EventsInv => TypeOK
    BY DEF EventsInv
<1> QED BY <1>1, Invariance, PTL

\* send_and_wait subscribes before it sends, so that it never misses the end of its own
\* turn, however early dispatch_event has it.
THEOREM EndIsHeard == Spec => []OwnEndIsHeard
<1>1. EventsInv => OwnEndIsHeard
    BY DEF EventsInv, OwnEndIsHeard, EndArrives, InHand
<1> QED BY <1>1, Invariance, PTL

\* A send_and_wait that has heard of no other turn gives what its own turn gave.
THEOREM OwnAnswer == Spec => []UndisturbedGetsItsAnswer
<1>1. ASSUME EventsInv, NEW w \in Waits, w \notin disturbed, result[w] = "message"
      PROVE  /\ w \notin {turns[k] : k \in 1..Len(turns)}
             /\ last[w] = IF w \in spoke THEN w ELSE Nothing
  <2>1. /\ ~Has(turns, w) /\ last[w] \in {Nothing, w}
        /\ w \in spoke => last[w] = w
        /\ last[w] = w => w \in spoke
    BY <1>1 DEF EventsInv, OwnMessage
  <2>2. w \notin {turns[k] : k \in 1..Len(turns)}
    BY <2>1 DEF Has
  <2> QED BY <2>1, <2>2
<1>2. EventsInv => UndisturbedGetsItsAnswer
    BY <1>1 DEF UndisturbedGetsItsAnswer
<1> QED BY <1>2, Invariance, PTL
=============================================================================
