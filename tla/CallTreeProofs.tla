--------------------------- MODULE CallTreeProofs ---------------------------
(***************************************************************************)
(* What CallTree promises, for any number of calls, nested calls, events   *)
(* and depth: that the relays and their sink lose and repeat nothing, and  *)
(* that the log says of the calls what the trees of the workers say.       *)
(***************************************************************************)
EXTENDS CallTree, FiniteSetTheorems, SequenceTheorems, WellFoundedInduction, TLAPS

-----------------------------------------------------------------------------
(* The inductive invariant.                                                *)

Event == {Other} \cup [kind : {"scope", "started", "terminal"}, call : batch \X (0 .. MaxCalls)]

LogOK ==
  /\ log \in Seq(Event)
  /\ after \in [Calls -> 0 .. Len(log)] /\ until \in [Calls -> 0 .. Len(log)]
  /\ \A c \in Calls : phase[c] # "waiting" => c \in batch

\* The sink has taken an event, and has shown it or waits for an earlier one.
Delivered(e) == e \in pending \/ e \in Range(shown)

\* The call will relay the event, unless it cannot begin or fails at the end.
WillRelay(c, e) ==
  \/ phase[c] \in {"starting", "spawned", "working", "ended"} /\ after[c] < e
  \/ phase[c] = "draining" /\ after[c] < e /\ e <= until[c]

\* What a call watched is delivered, or the call will relay it, or it has failed.
Covered ==
  \A e \in DOMAIN log : \A c \in watchers[e] :
    Delivered(e) \/ WillRelay(c, e) \/ c \in failed

\* The sink of several calls shows the log from its first event on; that of one
\* shows what its relay has read.
SinkOK ==
  IF Ordered
  THEN /\ \A i \in DOMAIN shown : shown[i] = i
       /\ Len(shown) + 1 \notin pending
  ELSE /\ Increasing(shown)
       /\ pending = {}
       /\ \A i \in DOMAIN shown : \A c \in batch : shown[i] <= after[c]

\* The log and the trees tell the same of every call.
TreeLogged ==
  \A c \in Calls : \A n \in Nat :
    /\ Started(c, n) <=> n \in DOMAIN tree[c]
    /\ Terminal(c, n) <=> n \in DOMAIN tree[c] /\ tree[c][n].state = "returned"

IInv ==
  /\ TypeOK
  /\ LogOK
  /\ Covered
  /\ SinkOK
  /\ TreeLogged

-----------------------------------------------------------------------------
(* Lemmas about the log, the batch and the sink.                           *)

\* A batch that is not ordered is of one call.
LEMMA OneCall ==
  ASSUME IInv, ~ Ordered, NEW c \in batch, NEW d \in batch
  PROVE  c = d
<1>1. IsFiniteSet(batch) /\ batch # {}
  BY CallTreeAssumption, FS_Subset DEF IInv, TypeOK
<1>2. Cardinality(batch) \in Nat /\ Cardinality(batch) # 0
  BY <1>1, FS_CardinalityType, FS_EmptySet
<1>3. Cardinality(batch) = 1
  BY <1>2 DEF Ordered
<1> QED BY <1>1, <1>3, FS_Singleton

\* The log after an event is appended to it.
LEMMA LogGrows ==
  ASSUME NEW S, log \in Seq(S), NEW x \in S, log' = Append(log, x)
  PROVE  /\ log' \in Seq(S)
         /\ Len(log') = Len(log) + 1
         /\ Len(log) \in Nat
         /\ DOMAIN log = 1 .. Len(log)
         /\ DOMAIN log' = 1 .. Len(log) + 1
         /\ \A i \in DOMAIN log : log'[i] = log[i]
         /\ log'[Len(log) + 1] = x
         /\ \A y : (\E k \in DOMAIN log' : log'[k] = y) <=>
                   (\E k \in DOMAIN log : log[k] = y) \/ y = x
<1>1. /\ log' \in Seq(S)
      /\ Len(log') = Len(log) + 1
      /\ Len(log) \in Nat
      /\ DOMAIN log = 1 .. Len(log)
      /\ DOMAIN log' = 1 .. Len(log) + 1
      /\ \A i \in DOMAIN log : log'[i] = log[i]
      /\ log'[Len(log) + 1] = x
  OBVIOUS
<1>2. ASSUME NEW y
      PROVE  (\E k \in DOMAIN log' : log'[k] = y) <=>
             (\E k \in DOMAIN log : log[k] = y) \/ y = x
  <2>1. ASSUME NEW k \in DOMAIN log', log'[k] = y
        PROVE  (\E j \in DOMAIN log : log[j] = y) \/ y = x
    <3>1. CASE k \in DOMAIN log
      BY <3>1, <2>1, <1>1
    <3>2. CASE k = Len(log) + 1
      BY <3>2, <2>1, <1>1
    <3> QED BY <3>1, <3>2, <1>1
  <2>2. ASSUME NEW k \in DOMAIN log, log[k] = y
        PROVE  \E j \in DOMAIN log' : log'[j] = y
    <3>1. k \in DOMAIN log' /\ log'[k] = y
      BY <2>2, <1>1
    <3> QED BY <3>1
  <2>3. ASSUME y = x
        PROVE  \E j \in DOMAIN log' : log'[j] = y
    <3>1. Len(log) + 1 \in DOMAIN log' /\ log'[Len(log) + 1] = y
      BY <2>3, <1>1
    <3> QED BY <3>1
  <2> QED BY <2>1, <2>2, <2>3
<1> QED BY <1>1, <1>2

\* A run of events that are all in es ends somewhere.
LEMMA RunEnds ==
  ASSUME NEW N \in Nat, NEW next \in 1 .. N + 1, NEW es, es \subseteq 1 .. N
  PROVE  \E k \in next - 1 .. N : next .. k \subseteq es /\ k + 1 \notin es
<1> DEFINE T == {k \in Nat : next <= k /\ k \notin es}
<1>1. N + 1 \in T
  OBVIOUS
<1>2. PICK x \in T : \A y \in T : ~ (<<y, x>> \in OpToRel(<, Nat))
  <2> HIDE DEF T
  <2>1. T \subseteq Nat
    BY DEF T
  <2> QED BY <2>1, <1>1, WFMin, NatLessThanWellFounded
<1>3. \A y \in T : ~ (y < x)
  <2> SUFFICES ASSUME NEW y \in T, y < x PROVE FALSE
    OBVIOUS
  <2>1. <<y, x>> \in OpToRel(<, Nat)
    BY DEF OpToRel
  <2> QED BY <2>1, <1>2
<1>4. x <= N + 1 /\ next <= x /\ x \in Nat /\ x \notin es
  BY <1>1, <1>3
<1>5. next .. x - 1 \subseteq es
  <2> SUFFICES ASSUME NEW y \in next .. x - 1, y \notin es PROVE FALSE
    OBVIOUS
  <2>1. y \in T /\ y < x
    BY <1>4
  <2> QED BY <2>1, <1>3
<1>6. x - 1 \in next - 1 .. N /\ (x - 1) + 1 \notin es
  BY <1>4
<1> QED BY <1>5, <1>6

\* What is ready is shown, and the next event is then not among those that wait.
LEMMA ReadyIsTheRun ==
  ASSUME IInv, Ordered, NEW es, es \subseteq DOMAIN log
  PROVE  \E last \in Len(shown) .. Len(log) :
           /\ Len(shown) + 1 .. last \subseteq es /\ last + 1 \notin es
           /\ Ready(es) = [i \in 1 .. last - Len(shown) |-> Len(shown) + i]
<1> DEFINE next == Len(shown) + 1
           Run(k) == next .. k \subseteq es /\ k + 1 \notin es
           last == CHOOSE k \in next - 1 .. Len(log) : Run(k)
<1>1. /\ Len(log) \in Nat /\ DOMAIN log = 1 .. Len(log)
      /\ Len(shown) \in Nat /\ DOMAIN shown = 1 .. Len(shown)
  BY DEF IInv, LogOK, TypeOK
<1>2. Len(shown) <= Len(log)
  <2>1. CASE Len(shown) = 0
    BY <2>1, <1>1
  <2>2. CASE Len(shown) > 0
    <3>1. Len(shown) \in DOMAIN shown
      BY <2>2, <1>1
    <3>2. shown[Len(shown)] = Len(shown) /\ shown[Len(shown)] \in DOMAIN log
      BY <3>1 DEF IInv, SinkOK, TypeOK
    <3> QED BY <3>2, <1>1
  <2> QED BY <2>1, <2>2, <1>1
<1>3. next \in 1 .. Len(log) + 1
  BY <1>1, <1>2
<1>4. \E k \in next - 1 .. Len(log) : Run(k)
  <2>1. es \subseteq 1 .. Len(log)
    BY <1>1
  <2> QED BY <2>1, <1>1, <1>3, RunEnds
<1>5. last \in next - 1 .. Len(log) /\ Run(last)
  <2> HIDE DEF next, Run
  <2> QED BY <1>4
<1>6. Ready(es) = [i \in 1 .. last - next + 1 |-> next + i - 1]
  BY DEF Ready
<1>7. PICK l : l = last
  OBVIOUS
<1>8. [i \in 1 .. l - next + 1 |-> next + i - 1]
        = [i \in 1 .. l - Len(shown) |-> Len(shown) + i]
  <2>1. l \in Int
    BY <1>5, <1>7, <1>1
  <2>2. l - next + 1 = l - Len(shown)
    BY <2>1, <1>1
  <2>3. \A i \in 1 .. l - Len(shown) : next + i - 1 = Len(shown) + i
    BY <2>1, <1>1
  <2> QED BY <2>2, <2>3
<1>9. l \in Len(shown) .. Len(log) /\ next .. l \subseteq es /\ l + 1 \notin es
  <2> HIDE DEF last
  <2>1. next - 1 = Len(shown)
    BY <1>1
  <2> QED BY <1>5, <1>7, <2>1
<1>10. Ready(es) = [i \in 1 .. l - Len(shown) |-> Len(shown) + i]
  BY <1>6, <1>7, <1>8
<1> QED BY <1>9, <1>10

\* The sink of several calls: what it has taken is shown, or waits.
LEMMA OrderedSink ==
  ASSUME IInv, Ordered, NEW e \in DOMAIN log, Sink(e)
  PROVE  /\ pending' \subseteq DOMAIN log
         /\ shown' \in Seq(DOMAIN log)
         /\ \A i \in DOMAIN shown' : shown'[i] = i
         /\ Len(shown') + 1 \notin pending'
         /\ \A x \in DOMAIN log : Delivered(x) \/ x = e => Delivered(x)'
<1>1. /\ Len(log) \in Nat /\ DOMAIN log = 1 .. Len(log)
      /\ Len(shown) \in Nat /\ DOMAIN shown = 1 .. Len(shown)
      /\ pending \subseteq DOMAIN log
      /\ shown \in Seq(Nat)
      /\ \A i \in DOMAIN shown : shown[i] = i
  <2>1. shown \in Seq(DOMAIN log) /\ pending \subseteq DOMAIN log
    BY DEF IInv, TypeOK
  <2>2. Len(log) \in Nat /\ DOMAIN log = 1 .. Len(log)
    BY DEF IInv, LogOK
  <2>3. DOMAIN log \subseteq Nat
    BY <2>2
  <2>4. shown \in Seq(Nat)
    BY <2>1, <2>3, SeqMonotonic
  <2> QED BY <2>1, <2>2, <2>4 DEF IInv, SinkOK
<1>2. PICK es : /\ es = (IF e <= Len(shown) THEN pending ELSE pending \cup {e})
                /\ shown' = shown \o Ready(es)
                /\ pending' = es \ Range(Ready(es))
  BY DEF Sink
<1>2a. PICK ready : ready = Ready(es)
  OBVIOUS
<1>3. es \subseteq DOMAIN log
  BY <1>1, <1>2
<1>4. PICK last \in Len(shown) .. Len(log) :
        /\ Len(shown) + 1 .. last \subseteq es /\ last + 1 \notin es
        /\ Ready(es) = [i \in 1 .. last - Len(shown) |-> Len(shown) + i]
  BY <1>3, ReadyIsTheRun
<1>5. /\ ready = [i \in 1 .. last - Len(shown) |-> Len(shown) + i]
      /\ ready \in Seq(Nat) /\ Len(ready) = last - Len(shown)
      /\ DOMAIN ready = 1 .. last - Len(shown)
      /\ \A i \in 1 .. last - Len(shown) : ready[i] = Len(shown) + i
  <2>1. last - Len(shown) \in Nat
    BY <1>1, <1>4
  <2>2. \A i \in 1 .. last - Len(shown) : Len(shown) + i \in Nat
    BY <2>1, <1>1
  <2>3. [i \in 1 .. last - Len(shown) |-> Len(shown) + i] \in Seq(Nat)
    BY <2>1, <2>2, IsASeq
  <2>4. DOMAIN ready = 1 .. last - Len(shown)
    BY <1>4, <1>2a
  <2> QED BY <2>1, <2>3, <2>4, <1>4, <1>2a
<1>6. Range(ready) = Len(shown) + 1 .. last
  <2>1. ASSUME NEW x \in Len(shown) + 1 .. last PROVE x \in Range(ready)
    <3>1. x - Len(shown) \in DOMAIN ready
      BY <2>1, <1>1, <1>4, <1>5
    <3>2. ready[x - Len(shown)] = x
      BY <3>1, <1>1, <1>4, <1>5
    <3> QED BY <3>1, <3>2 DEF Range
  <2>2. ASSUME NEW x \in Range(ready) PROVE x \in Len(shown) + 1 .. last
    <3>1. PICK i \in DOMAIN ready : x = ready[i]
      BY <2>2 DEF Range
    <3> QED BY <3>1, <1>1, <1>4, <1>5
  <2> QED BY <2>1, <2>2
<1>7. /\ shown' \in Seq(Nat)
      /\ Len(shown') = last
      /\ DOMAIN shown' = 1 .. last
      /\ \A i \in 1 .. last : shown'[i] = i
  <2>1. /\ shown' \in Seq(Nat)
        /\ Len(shown') = Len(shown) + (last - Len(shown))
        /\ \A i \in 1 .. Len(shown) + (last - Len(shown)) :
             shown'[i] = IF i <= Len(shown) THEN shown[i] ELSE ready[i - Len(shown)]
    <3>1. shown' = shown \o ready
      BY <1>2, <1>2a
    <3> QED BY <3>1, <1>1, <1>5, ConcatProperties
  <2>2. last \in Nat /\ Len(shown) + (last - Len(shown)) = last
    BY <1>1, <1>4
  <2>3. ASSUME NEW i \in 1 .. last PROVE shown'[i] = i
    <3>1. CASE i <= Len(shown)
      BY <3>1, <2>1, <2>2, <1>1
    <3>2. CASE ~ (i <= Len(shown))
      <4>1. i - Len(shown) \in 1 .. last - Len(shown)
        BY <3>2, <2>2, <1>1
      <4> QED BY <4>1, <3>2, <2>1, <2>2, <1>1, <1>5
    <3> QED BY <3>1, <3>2
  <2> QED BY <2>1, <2>2, <2>3
<1>8. shown' \in Seq(DOMAIN log)
  <2>1. last \in Nat /\ shown' \in Seq(Nat)
    BY <1>1, <1>4, <1>7
  <2>2. shown' = [i \in 1 .. last |-> i]
    BY <2>1, <1>7
  <2>3. \A i \in 1 .. last : i \in DOMAIN log
    BY <2>1, <1>1, <1>4
  <2> HIDE DEF Delivered
  <2>4. [i \in 1 .. last |-> i] \in Seq(DOMAIN log)
    BY <2>1, <2>3, IsASeq
  <2> QED BY <2>2, <2>4
<1>9. ASSUME NEW x \in DOMAIN log, Delivered(x) \/ x = e
      PROVE  Delivered(x)'
  <2>1. x <= last => x \in Range(shown)'
    <3> SUFFICES ASSUME x <= last PROVE x \in Range(shown)'
      OBVIOUS
    <3>1. x \in DOMAIN shown' /\ shown'[x] = x
      BY <1>1, <1>4, <1>7
    <3> QED BY <3>1 DEF Range
  <2>2. x > last => x \in es
    <3>1. Delivered(x) => x \in pending \/ x <= Len(shown)
      <4> SUFFICES ASSUME x \in Range(shown) PROVE x <= Len(shown)
        BY DEF Delivered
      <4>1. PICK i \in DOMAIN shown : x = shown[i]
        BY DEF Range
      <4> QED BY <4>1, <1>1
    <3> QED BY <3>1, <1>1, <1>2, <1>4, <1>9
  <2>3. x > last => x \in pending'
    <3>1. pending' = es \ (Len(shown) + 1 .. last)
      BY <1>2, <1>2a, <1>6
    <3>2. last \in Nat /\ x \in Nat
      BY <1>1, <1>4
    <3> QED BY <3>1, <3>2, <2>2, <1>1
  <2>4. x <= last \/ x > last
    BY <1>1, <1>4
  <2> QED BY <2>1, <2>3, <2>4 DEF Delivered
<1>10. pending' \subseteq DOMAIN log
  BY <1>2, <1>3
<1>11. Len(shown') + 1 \notin pending'
  BY <1>2, <1>4, <1>7
<1> QED BY <1>7, <1>8, <1>9, <1>10, <1>11

\* The sink of one call: what its relay reads is shown.
LEMMA PlainSink ==
  ASSUME IInv, ~ Ordered, NEW c \in batch, NEW e \in DOMAIN log, after[c] < e, Sink(e)
  PROVE  /\ pending' = {}
         /\ shown' \in Seq(DOMAIN log)
         /\ Increasing(shown')
         /\ \A i \in DOMAIN shown' : shown'[i] <= e
         /\ \A x \in DOMAIN log : Delivered(x) \/ x = e => Delivered(x)'
<1>1. /\ shown \in Seq(DOMAIN log) /\ DOMAIN log \subseteq Nat
      /\ Len(shown) \in Nat /\ DOMAIN shown = 1 .. Len(shown)
      /\ after[c] \in Nat /\ pending = {} /\ Increasing(shown)
      /\ \A i \in DOMAIN shown : shown[i] <= after[c]
      /\ shown' = Append(shown, e) /\ pending' = pending
  <2>1. c \in Calls
    BY DEF IInv, TypeOK
  <2>2. shown \in Seq(DOMAIN log) /\ log \in Seq(Event)
    BY DEF IInv, TypeOK, LogOK
  <2>3. after[c] \in Nat
    BY <2>1, <2>2 DEF IInv, LogOK
  <2>4. DOMAIN log \subseteq Nat /\ Len(shown) \in Nat /\ DOMAIN shown = 1 .. Len(shown)
    BY <2>2
  <2> QED BY <2>2, <2>3, <2>4 DEF IInv, SinkOK, Sink
<1>2. /\ shown' \in Seq(DOMAIN log)
      /\ Len(shown') = Len(shown) + 1
      /\ DOMAIN shown' = 1 .. Len(shown) + 1
      /\ \A i \in DOMAIN shown : shown'[i] = shown[i]
      /\ shown'[Len(shown) + 1] = e
  BY <1>1
<1>3. \A i \in DOMAIN shown : shown[i] \in Nat /\ shown[i] < e
  BY <1>1
<1>4. Increasing(shown')
  <2> SUFFICES ASSUME NEW n \in 1 .. Len(shown') - 1 PROVE shown'[n] < shown'[n + 1]
    BY DEF Increasing
  <2>1. CASE n = Len(shown)
    BY <2>1, <1>1, <1>2, <1>3
  <2>2. CASE n \in 1 .. Len(shown) - 1
    BY <2>2, <1>1, <1>2 DEF Increasing
  <2>3. n \in 1 .. Len(shown)
    BY <1>1, <1>2
  <2>4. n = Len(shown) \/ n \in 1 .. Len(shown) - 1
    <3>1. PICK l \in Nat : l = Len(shown)
      BY <1>1
    <3>2. n \in 1 .. l
      BY <2>3, <3>1
    <3>3. n = l \/ n \in 1 .. l - 1
      BY <3>2
    <3> QED BY <3>1, <3>3
  <2> QED BY <2>1, <2>2, <2>4
<1>5. \A i \in DOMAIN shown' : shown'[i] <= e
  BY <1>1, <1>2, <1>3
<1>6. ASSUME NEW x \in DOMAIN log, Delivered(x) \/ x = e
      PROVE  Delivered(x)'
  <2>1. CASE x = e
    <3>1. Len(shown) + 1 \in DOMAIN shown' /\ shown'[Len(shown) + 1] = x
      BY <2>1, <1>1, <1>2
    <3> QED BY <3>1 DEF Delivered, Range
  <2>2. CASE x \in Range(shown)
    <3>1. PICK i \in DOMAIN shown : shown[i] = x
      BY <2>2 DEF Range
    <3>2. i \in DOMAIN shown' /\ shown'[i] = x
      BY <3>1, <1>1, <1>2
    <3> QED BY <3>2 DEF Delivered, Range
  <2> QED BY <1>6, <2>1, <2>2, <1>1 DEF Delivered
<1> QED BY <1>1, <1>2, <1>4, <1>5, <1>6

-----------------------------------------------------------------------------
(* Steps of the log and of the relays.                                     *)

\* TypeOK in two parts: the log and its readers, and the trees.
LogTypeOK ==
  /\ batch \in SUBSET Calls \ {{}}
  /\ \A n \in DOMAIN log :
       log[n] = Other \/ (log[n].kind \in {"scope", "started", "terminal"} /\ log[n].call[1] \in batch)
  /\ phase \in [Calls -> Phases]
  /\ \A c \in Calls : after[c] \in 0 .. Len(log) /\ until[c] \in 0 .. Len(log)
  /\ pending \subseteq DOMAIN log
  /\ shown \in Seq(DOMAIN log)
  /\ watchers \in Seq(SUBSET batch) /\ Len(watchers) = Len(log)
  /\ failed \subseteq batch

TreeTypeOK ==
  /\ tree \in [Calls -> Seq(Node)] /\ \A c \in Calls : Len(tree[c]) <= MaxCalls
  /\ \A c \in Calls : phase[c] \notin {"spawned", "working"} =>
       \A n \in DOMAIN tree[c] : tree[c][n].state # "running"

\* Everything the readers of the log keep between them.
ReadersOK == LogTypeOK /\ LogOK /\ Covered /\ SinkOK

\* What is in the log is typed.
LEMMA EventsTyped ==
  ASSUME NEW e \in Event
  PROVE  e = Other \/ (e.kind \in {"scope", "started", "terminal"} /\ e.call[1] \in batch)
<1>1. CASE e \in [kind : {"scope", "started", "terminal"}, call : batch \X (0 .. MaxCalls)]
  <2>1. e.kind \in {"scope", "started", "terminal"} /\ e.call \in batch \X (0 .. MaxCalls)
    BY <1>1
  <2> QED BY <2>1
<1> QED BY <1>1 DEF Event

\* Who watched is of the batch.
LEMMA WatchersOfBatch ==
  ASSUME IInv, NEW e \in DOMAIN log, NEW c \in watchers[e] PROVE c \in batch
<1>1. log \in Seq(Event) /\ watchers \in Seq(SUBSET batch) /\ Len(watchers) = Len(log)
  BY DEF IInv, TypeOK, LogOK
<1>2. e \in DOMAIN watchers
  BY <1>1
<1> QED BY <1>1, <1>2

\* An event is appended, before the eyes of those who watch.
LEMMA NewEvent ==
  ASSUME IInv, NEW x \in Event, log' = Append(log, x),
         watchers' = Append(watchers, Watching), failed' = failed,
         batch' = batch, after' = after, until' = until, pending' = pending, shown' = shown,
         phase' \in [Calls -> Phases],
         \A c \in Calls : phase'[c] = phase[c] \/ (phase[c] = "spawned" /\ phase'[c] = "working")
  PROVE  ReadersOK'
<1>1. /\ log \in Seq(Event) /\ batch \subseteq Calls
      /\ after \in [Calls -> 0 .. Len(log)] /\ until \in [Calls -> 0 .. Len(log)]
  BY DEF IInv, LogOK, TypeOK
<1>2. /\ log' \in Seq(Event)
      /\ Len(log') = Len(log) + 1
      /\ Len(log) \in Nat
      /\ DOMAIN log = 1 .. Len(log)
      /\ DOMAIN log' = 1 .. Len(log) + 1
      /\ \A i \in DOMAIN log : log'[i] = log[i]
      /\ log'[Len(log) + 1] = x
  <2> HIDE DEF Event
  <2> QED BY <1>1, LogGrows
<1>3. Event' = Event
  BY DEF Event, Other
<1>9. /\ watchers' \in Seq(SUBSET batch) /\ Len(watchers') = Len(log) + 1
      /\ \A e \in 1 .. Len(log) : watchers'[e] = watchers[e] /\ watchers[e] \subseteq batch
      /\ watchers'[Len(log) + 1] = Watching
  <2>1. watchers \in Seq(SUBSET batch) /\ Len(watchers) = Len(log)
    BY DEF IInv, TypeOK
  <2>2. Watching \in SUBSET batch
    BY DEF Watching
  <2> HIDE DEF Watching
  <2>3. PICK w \in SUBSET batch : w = Watching
    BY <2>2
  <2>4. watchers' = Append(watchers, w)
    BY <2>3
  <2>5. DOMAIN watchers = 1 .. Len(log)
    BY <2>1
  <2>6. \A e \in DOMAIN watchers : watchers[e] \in SUBSET batch
    BY <2>1
  <2>7. /\ watchers' \in Seq(SUBSET batch) /\ Len(watchers') = Len(watchers) + 1
        /\ \A e \in 1 .. Len(watchers) : watchers'[e] = watchers[e]
        /\ watchers'[Len(watchers) + 1] = w
    BY <2>1, <2>4, AppendProperties
  <2> QED BY <2>1, <2>3, <2>5, <2>6, <2>7
<1>4. /\ after' \in [Calls -> 0 .. Len(log')] /\ until' \in [Calls -> 0 .. Len(log')]
      /\ DOMAIN log \subseteq DOMAIN log'
  BY <1>1, <1>2
<1>5. LogOK'
  BY <1>2, <1>3, <1>4 DEF IInv, LogOK
<1>6. LogTypeOK'
  <2>1. \A n \in DOMAIN log' :
          \/ log'[n] = Other
          \/ log'[n].kind \in {"scope", "started", "terminal"} /\ log'[n].call[1] \in batch
    <3>1. \A n \in DOMAIN log' : log'[n] \in Event
      BY <1>2
    <3> QED BY <3>1, EventsTyped
  <2>2. pending' \subseteq DOMAIN log'
    BY <1>4 DEF IInv, TypeOK
  <2>3. shown' \in Seq(DOMAIN log')
    <3>1. shown \in Seq(DOMAIN log)
      BY DEF IInv, TypeOK
    <3> QED BY <3>1, <1>4, SeqMonotonic
  <2>4. watchers' \in Seq(SUBSET batch) /\ Len(watchers') = Len(log')
    BY <1>2, <1>9
  <2>5. \A c \in Calls : after'[c] \in 0 .. Len(log') /\ until'[c] \in 0 .. Len(log')
    BY <1>4
  <2>6. batch' \in SUBSET Calls \ {{}}
    BY DEF IInv, TypeOK
  <2>7. Other' = Other
    BY DEF Other
  <2>8. failed' \subseteq batch
    BY DEF IInv, TypeOK
  <2> QED BY <2>1, <2>2, <2>3, <2>4, <2>5, <2>6, <2>7, <2>8 DEF LogTypeOK
<1>7. Covered'
  <2>1. ASSUME NEW c \in batch, NEW e \in DOMAIN log, WillRelay(c, e)
        PROVE  WillRelay(c, e)'
    BY <2>1, <1>1 DEF WillRelay
  <2>2. ASSUME NEW c \in Watching, NEW e, e = Len(log) + 1
        PROVE  c \in batch /\ WillRelay(c, e)'
    <3>1. c \in batch /\ c \in Calls /\ phase[c] \in {"starting", "spawned", "working", "ended"}
      BY <1>1 DEF Watching
    <3>2. phase'[c] \in {"starting", "spawned", "working", "ended"}
      BY <3>1
    <3>3. after'[c] < e
      BY <2>2, <3>1, <1>1, <1>2
    <3> QED BY <3>1, <3>2, <3>3 DEF WillRelay
  <2>3. ASSUME NEW e \in DOMAIN log', NEW c \in watchers'[e]
        PROVE  Delivered(e)' \/ WillRelay(c, e)' \/ c \in failed'
    <3>1. CASE e \in DOMAIN log
      <4>1. c \in watchers[e] /\ c \in batch
        BY <3>1, <1>2, <1>9
      <4>2. Delivered(e) \/ WillRelay(c, e) \/ c \in failed
        BY <3>1, <4>1 DEF IInv, Covered
      <4>3. Delivered(e) => Delivered(e)'
        BY DEF Delivered
      <4> QED BY <3>1, <4>1, <4>2, <4>3, <2>1
    <3>2. CASE e = Len(log) + 1
      BY <3>2, <2>2, <2>3, <1>9
    <3> QED BY <3>1, <3>2, <1>2
  <2> QED BY <2>3 DEF Covered
<1>8. SinkOK'
  BY DEF IInv, SinkOK, Ordered, Increasing
<1> QED BY <1>5, <1>6, <1>7, <1>8 DEF ReadersOK

\* The threads change what they do, and what they still have to read; what they
\* would relay of the log they will relay still, or they have failed.
LEMMA QuietStep ==
  ASSUME IInv,
         log' = log, watchers' = watchers, batch' = batch, pending' = pending, shown' = shown,
         failed \subseteq failed', failed' \subseteq batch,
         phase' \in [Calls -> Phases],
         after' \in [Calls -> 0 .. Len(log)], until' \in [Calls -> 0 .. Len(log)],
         \A c \in Calls : phase'[c] # "waiting" => c \in batch,
         \A c \in Calls : after[c] <= after'[c],
         \A c \in batch : \A e \in DOMAIN log :
           WillRelay(c, e) => WillRelay(c, e)' \/ c \in failed'
  PROVE  ReadersOK'
<1>1. LogOK'
  BY DEF IInv, LogOK, Event, Other
<1>2. LogTypeOK'
  BY DEF IInv, TypeOK, LogTypeOK, Other
<1>3. Covered'
  <2>1. ASSUME NEW e \in DOMAIN log, NEW c \in watchers[e]
        PROVE  Delivered(e)' \/ WillRelay(c, e)' \/ c \in failed'
    <3>1. Delivered(e) => Delivered(e)'
      BY DEF Delivered
    <3>2. c \in batch
      BY WatchersOfBatch
    <3> QED BY <3>1, <3>2, <2>1 DEF IInv, Covered
  <2> QED BY <2>1 DEF Covered
<1>4. SinkOK'
  <2>1. CASE Ordered
    BY <2>1 DEF IInv, SinkOK, Ordered
  <2>2. CASE ~ Ordered
    <3>1. ASSUME NEW i \in DOMAIN shown, NEW c \in batch
          PROVE  shown[i] <= after'[c]
      <4>1. shown[i] <= after[c]
        BY <2>2, <3>1 DEF IInv, SinkOK
      <4>2. shown \in Seq(DOMAIN log) /\ log \in Seq(Event) /\ c \in Calls
        BY DEF IInv, TypeOK, LogOK
      <4>3. shown[i] \in Nat
        BY <4>2
      <4>4. after[c] \in Nat /\ after'[c] \in Nat /\ after[c] <= after'[c]
        BY <4>2 DEF IInv, LogOK
      <4> QED BY <4>1, <4>3, <4>4
    <3> QED BY <2>2, <3>1 DEF IInv, SinkOK, Ordered, Increasing
  <2> QED BY <2>1, <2>2
<1> QED BY <1>1, <1>2, <1>3, <1>4 DEF ReadersOK

\* A thread relays the next event of its page.
LEMMA RelayStep ==
  ASSUME IInv, NEW c \in Calls, RelayOne(c)
  PROVE  ReadersOK'
<1>1. /\ log \in Seq(Event) /\ Len(log) \in Nat /\ DOMAIN log = 1 .. Len(log)
      /\ after \in [Calls -> 0 .. Len(log)] /\ until \in [Calls -> 0 .. Len(log)]
      /\ batch \subseteq Calls /\ c \in batch
  <2>1. phase[c] # "waiting"
    BY DEF RelayOne
  <2> QED BY <2>1 DEF IInv, LogOK, TypeOK
<1>2. PICK e : e = after[c] + 1
  OBVIOUS
<1>3. /\ Sink(e) /\ after' = [after EXCEPT ![c] = e]
      /\ batch' = batch /\ log' = log /\ phase' = phase /\ until' = until
      /\ watchers' = watchers /\ failed' = failed
      /\ after[c] < until[c] \/ after[c] < Len(log)
  BY <1>1, <1>2 DEF RelayOne
<1>4. e \in DOMAIN log /\ after[c] < e /\ after[c] \in Nat
  BY <1>1, <1>2, <1>3
<1>5. after' \in [Calls -> 0 .. Len(log)]
  BY <1>1, <1>3, <1>4
<1>6. /\ pending' \subseteq DOMAIN log
      /\ shown' \in Seq(DOMAIN log)
      /\ \A x \in DOMAIN log : Delivered(x) \/ x = e => Delivered(x)'
  <2>1. CASE Ordered
    BY <2>1, <1>3, <1>4, OrderedSink
  <2>2. CASE ~ Ordered
    BY <2>2, <1>1, <1>3, <1>4, PlainSink
  <2> QED BY <2>1, <2>2
<1>7. LogOK'
  BY <1>1, <1>3, <1>5 DEF IInv, LogOK, Event, Other
<1>8. LogTypeOK'
  BY <1>1, <1>3, <1>5, <1>6 DEF IInv, TypeOK, LogTypeOK, Other
<1>9. Covered'
  <2>1. ASSUME NEW d \in batch, NEW x \in DOMAIN log, WillRelay(d, x)
        PROVE  WillRelay(d, x)' \/ x = e
    BY <2>1, <1>1, <1>2, <1>3, <1>4 DEF WillRelay
  <2>2. ASSUME NEW x \in DOMAIN log, NEW d \in watchers[x]
        PROVE  Delivered(x)' \/ WillRelay(d, x)' \/ d \in failed'
    <3>1. d \in batch
      BY WatchersOfBatch
    <3> QED BY <3>1, <2>1, <2>2, <1>3, <1>6 DEF IInv, Covered
  <2> QED BY <2>2, <1>3 DEF Covered
<1>10. SinkOK'
  <2>1. CASE Ordered
    BY <2>1, <1>3, <1>4, OrderedSink DEF SinkOK, Ordered
  <2>2. CASE ~ Ordered
    <3>1. /\ pending' = {} /\ Increasing(shown')
          /\ \A i \in DOMAIN shown' : shown'[i] <= e
      BY <2>2, <1>1, <1>3, <1>4, PlainSink
    <3>2. ASSUME NEW d \in batch, NEW i \in DOMAIN shown'
          PROVE  shown'[i] <= after'[d]
      <4>1. d = c
        BY <2>2, <1>1, OneCall
      <4>2. after'[d] = e
        BY <4>1, <1>1, <1>3
      <4> QED BY <4>2, <3>1
    <3> QED BY <3>1, <3>2, <2>2, <1>3 DEF SinkOK, Ordered, Increasing
  <2> QED BY <2>1, <2>2
<1> QED BY <1>7, <1>8, <1>9, <1>10 DEF ReadersOK

-----------------------------------------------------------------------------
(* Steps of the trees.                                                     *)

LEMMA InvInParts == ReadersOK' /\ TreeTypeOK' /\ TreeLogged' => IInv'
BY DEF IInv, ReadersOK, TypeOK, LogTypeOK, TreeTypeOK

\* What the log tells of calls after an event is appended.
LEMMA LogTells ==
  ASSUME IInv, NEW x \in Event, log' = Append(log, x), NEW c, NEW n
  PROVE  /\ Started(c, n)' <=>
              Started(c, n) \/ x = [kind |-> "started", call |-> <<c, n>>]
         /\ Terminal(c, n)' <=>
              Terminal(c, n) \/ x = [kind |-> "terminal", call |-> <<c, n>>]
<1>1. log \in Seq(Event)
  BY DEF IInv, LogOK
<1>2. \A y : (\E k \in DOMAIN log' : log'[k] = y) <=>
             (\E k \in DOMAIN log : log[k] = y) \/ y = x
  <2> HIDE DEF Event
  <2> QED BY <1>1, LogGrows
<1> QED BY <1>2 DEF Started, Terminal

\* The trees stay, and so does what the log tells of them.
LEMMA TreesStay ==
  ASSUME IInv, tree' = tree,
         \A c \in Calls : phase'[c] \notin {"spawned", "working"} =>
           phase[c] \notin {"spawned", "working"},
         \A c \in Calls : \A n \in Nat :
           (Started(c, n)' <=> Started(c, n)) /\ (Terminal(c, n)' <=> Terminal(c, n))
  PROVE  TreeTypeOK' /\ TreeLogged'
<1>1. TreeTypeOK'
  BY DEF IInv, TypeOK, TreeTypeOK, Node, States
<1>2. TreeLogged'
  BY DEF IInv, TreeLogged
<1> QED BY <1>1, <1>2

\* A tree grows by a running call, and the log by its start.
LEMMA TreeGrows ==
  ASSUME IInv, NEW c \in Calls, phase[c] = "working", phase' = phase,
         NEW node \in Node, node.state = "running", Len(tree[c]) < MaxCalls,
         tree' = [tree EXCEPT ![c] = Append(@, node)],
         NEW x, x = [kind |-> "started", call |-> <<c, Len(tree[c]) + 1>>],
         log' = Append(log, x), x \in Event
  PROVE  TreeTypeOK' /\ TreeLogged'
<1>1. /\ tree \in [Calls -> Seq(Node)] /\ Len(tree[c]) \in Nat
      /\ DOMAIN tree[c] = 1 .. Len(tree[c])
  BY DEF IInv, TypeOK
<1>2. PICK l \in Nat : l = Len(tree[c])
  BY <1>1
<1>3. /\ tree'[c] = Append(tree[c], node)
      /\ \A d \in Calls : d # c => tree'[d] = tree[d]
      /\ tree' \in [Calls -> Seq(Node)]
  BY <1>1
<1>4. /\ Len(tree'[c]) = l + 1
      /\ DOMAIN tree'[c] = 1 .. l + 1
      /\ \A n \in DOMAIN tree[c] : tree'[c][n] = tree[c][n]
      /\ tree'[c][l + 1] = node
  BY <1>1, <1>2, <1>3
<1>5. TreeTypeOK'
  <2>1. \A d \in Calls : Len(tree'[d]) <= MaxCalls
    <3>1. Len(tree'[c]) <= MaxCalls
      BY <1>2, <1>4, CallTreeAssumption
    <3> QED BY <3>1, <1>3 DEF IInv, TypeOK
  <2>2. ASSUME NEW d \in Calls, phase'[d] \notin {"spawned", "working"}
        PROVE  \A n \in DOMAIN tree'[d] : tree'[d][n].state # "running"
    <3>1. d # c
      BY <2>2
    <3> QED BY <3>1, <2>2, <1>3 DEF IInv, TypeOK
  <2>3. Node' = Node
    BY DEF Node, States
  <2> QED BY <1>3, <2>1, <2>2, <2>3 DEF TreeTypeOK
<1>6. TreeLogged'
  <2> SUFFICES ASSUME NEW d \in Calls, NEW n \in Nat
               PROVE  /\ Started(d, n)' <=> n \in DOMAIN tree'[d]
                      /\ Terminal(d, n)' <=>
                           n \in DOMAIN tree'[d] /\ tree'[d][n].state = "returned"
    BY DEF TreeLogged
  <2>1. /\ Started(d, n)' <=> Started(d, n) \/ (d = c /\ n = l + 1)
        /\ Terminal(d, n)' <=> Terminal(d, n)
    <3>1. /\ Started(d, n)' <=>
               Started(d, n) \/ x = [kind |-> "started", call |-> <<d, n>>]
          /\ Terminal(d, n)' <=>
               Terminal(d, n) \/ x = [kind |-> "terminal", call |-> <<d, n>>]
      <4> HIDE DEF Event
      <4> QED BY LogTells
    <3>2. x = [kind |-> "started", call |-> <<d, n>>] <=> (d = c /\ n = l + 1)
      BY <1>2
    <3>3. x # [kind |-> "terminal", call |-> <<d, n>>]
      OBVIOUS
    <3> QED BY <3>1, <3>2, <3>3
  <2>2. /\ Started(d, n) <=> n \in DOMAIN tree[d]
        /\ Terminal(d, n) <=> n \in DOMAIN tree[d] /\ tree[d][n].state = "returned"
    BY DEF IInv, TreeLogged
  <2>3. CASE d # c
    BY <2>1, <2>2, <2>3, <1>3
  <2>4. CASE d = c /\ n = l + 1
    BY <2>1, <2>2, <2>4, <1>1, <1>2, <1>4
  <2>5. CASE d = c /\ n # l + 1
    <3>1. n \in DOMAIN tree'[d] <=> n \in DOMAIN tree[d]
      BY <2>5, <1>1, <1>2, <1>4
    <3> QED BY <2>1, <2>2, <2>5, <3>1, <1>4
  <2> QED BY <2>3, <2>4, <2>5
<1> QED BY <1>5, <1>6

\* Calls of a tree are cancelled: no event tells of it, none had returned.
LEMMA TreeIsCut ==
  ASSUME IInv, NEW c \in Calls, NEW ns, log' = log,
         tree' = [tree EXCEPT ![c] = Cancelled(c, ns)],
         \A d \in Calls \ {c} : phase'[d] = phase[d],
         phase'[c] \in {"spawned", "working"} \/ ns = DOMAIN tree[c],
         phase[c] \in {"spawned", "working"}
  PROVE  TreeTypeOK' /\ TreeLogged'
<1>1. /\ tree \in [Calls -> Seq(Node)] /\ tree[c] \in Seq(Node)
      /\ Len(tree[c]) \in Nat /\ DOMAIN tree[c] = 1 .. Len(tree[c])
  BY DEF IInv, TypeOK
<1>2. PICK cut : cut = Cancelled(c, ns)
  OBVIOUS
<1>3. /\ DOMAIN cut = DOMAIN tree[c]
      /\ \A n \in DOMAIN tree[c] :
           /\ cut[n] \in Node
           /\ cut[n].state = "returned" <=> tree[c][n].state = "returned"
           /\ n \in ns => cut[n].state # "running"
  <2>1. ASSUME NEW n \in DOMAIN tree[c]
        PROVE  cut[n] = IF n \in ns /\ tree[c][n].state = "running"
                        THEN [tree[c][n] EXCEPT !.state = "cancelled"] ELSE tree[c][n]
    BY <1>2 DEF Cancelled
  <2>2. ASSUME NEW n \in DOMAIN tree[c]
        PROVE  /\ cut[n] \in Node
               /\ cut[n].state = "returned" <=> tree[c][n].state = "returned"
               /\ n \in ns => cut[n].state # "running"
    <3>1. tree[c][n] \in Node
      BY <1>1
    <3>2. CASE n \in ns /\ tree[c][n].state = "running"
      <4>1. cut[n] = [tree[c][n] EXCEPT !.state = "cancelled"]
        BY <2>1, <3>2
      <4>2. cut[n] \in Node /\ cut[n].state = "cancelled"
        BY <3>1, <4>1 DEF Node, States
      <4> QED BY <4>2, <3>2
    <3>3. CASE ~ (n \in ns /\ tree[c][n].state = "running")
      <4>1. cut[n] = tree[c][n]
        BY <2>1, <3>3
      <4> QED BY <4>1, <3>1, <3>3
    <3> QED BY <3>2, <3>3
  <2>3. DOMAIN cut = DOMAIN tree[c]
    BY <1>2 DEF Cancelled
  <2> QED BY <2>2, <2>3
<1>4. cut \in Seq(Node) /\ Len(cut) = Len(tree[c])
  <2>1. cut = [n \in 1 .. Len(tree[c]) |-> cut[n]]
    BY <1>1, <1>2 DEF Cancelled
  <2>2. \A n \in 1 .. Len(tree[c]) : cut[n] \in Node
    BY <1>1, <1>3
  <2>3. [n \in 1 .. Len(tree[c]) |-> cut[n]] \in Seq(Node)
    BY <2>2, <1>1, IsASeq
  <2>4. cut \in Seq(Node)
    BY <2>1, <2>3
  <2>5. DOMAIN cut = 1 .. Len(cut) /\ Len(cut) \in Nat
    BY <2>4
  <2>6. PICK a \in Nat, b \in Nat : a = Len(cut) /\ b = Len(tree[c])
    BY <2>5, <1>1
  <2>7. 1 .. a = 1 .. b
    BY <2>5, <2>6, <1>1, <1>3
  <2>8. a = b
    BY <2>7
  <2> QED BY <2>4, <2>6, <2>8
<1>5. /\ tree' \in [Calls -> Seq(Node)]
      /\ tree'[c] = cut
      /\ \A d \in Calls \ {c} : tree'[d] = tree[d]
  BY <1>1, <1>2, <1>4
<1>6. TreeTypeOK'
  <2>1. \A d \in Calls : Len(tree'[d]) <= MaxCalls
    BY <1>4, <1>5 DEF IInv, TypeOK
  <2>2. ASSUME NEW d \in Calls, phase'[d] \notin {"spawned", "working"}
        PROVE  \A n \in DOMAIN tree'[d] : tree'[d][n].state # "running"
    <3>1. CASE d = c
      BY <3>1, <2>2, <1>3, <1>5
    <3>2. CASE d # c
      BY <3>2, <2>2, <1>5 DEF IInv, TypeOK
    <3> QED BY <3>1, <3>2
  <2>3. Node' = Node
    BY DEF Node, States
  <2> QED BY <1>5, <2>1, <2>2, <2>3 DEF TreeTypeOK
<1>7. TreeLogged'
  <2> SUFFICES ASSUME NEW d \in Calls, NEW n \in Nat
               PROVE  /\ Started(d, n)' <=> n \in DOMAIN tree'[d]
                      /\ Terminal(d, n)' <=>
                           n \in DOMAIN tree'[d] /\ tree'[d][n].state = "returned"
    BY DEF TreeLogged
  <2>1. (Started(d, n)' <=> Started(d, n)) /\ (Terminal(d, n)' <=> Terminal(d, n))
    BY DEF Started, Terminal
  <2>2. /\ Started(d, n) <=> n \in DOMAIN tree[d]
        /\ Terminal(d, n) <=> n \in DOMAIN tree[d] /\ tree[d][n].state = "returned"
    BY DEF IInv, TreeLogged
  <2>3. CASE d = c
    BY <2>1, <2>2, <2>3, <1>3, <1>5
  <2>4. CASE d # c
    BY <2>1, <2>2, <2>4, <1>5
  <2> QED BY <2>3, <2>4
<1> QED BY <1>6, <1>7

\* A running call returns, and the log tells so.
LEMMA TreeReturns ==
  ASSUME IInv, NEW c \in Calls, NEW n \in DOMAIN tree[c], phase' = phase,
         tree[c][n].state = "running",
         tree' = [tree EXCEPT ![c][n].state = "returned"],
         NEW x, x = [kind |-> "terminal", call |-> <<c, n>>],
         log' = Append(log, x), x \in Event
  PROVE  TreeTypeOK' /\ TreeLogged'
<1>1. /\ tree \in [Calls -> Seq(Node)] /\ tree[c] \in Seq(Node)
      /\ Len(tree[c]) \in Nat /\ DOMAIN tree[c] = 1 .. Len(tree[c])
  BY DEF IInv, TypeOK
<1>2. PICK node : node = [tree[c][n] EXCEPT !.state = "returned"]
  OBVIOUS
<1>3. node \in Node /\ node.state = "returned"
  <2>1. tree[c][n] \in Node
    BY <1>1
  <2> QED BY <2>1, <1>2 DEF Node, States
<1>4. PICK seq : seq = [tree[c] EXCEPT ![n] = node]
  OBVIOUS
<1>5. /\ seq \in Seq(Node) /\ Len(seq) = Len(tree[c]) /\ DOMAIN seq = DOMAIN tree[c]
      /\ \A m \in DOMAIN tree[c] : seq[m] = IF m = n THEN node ELSE tree[c][m]
  <2>1. n \in 1 .. Len(tree[c])
    BY <1>1
  <2> HIDE DEF Node
  <2>2. /\ seq \in Seq(Node) /\ Len(seq) = Len(tree[c])
        /\ \A m \in 1 .. Len(tree[c]) : seq[m] = IF m = n THEN node ELSE tree[c][m]
    BY <2>1, <1>1, <1>3, <1>4, ExceptSeq
  <2>3. DOMAIN seq = DOMAIN tree[c]
    BY <1>4
  <2> QED BY <2>2, <2>3, <1>1
<1>6. /\ tree' \in [Calls -> Seq(Node)]
      /\ tree'[c] = seq
      /\ \A d \in Calls \ {c} : tree'[d] = tree[d]
  <2>1. tree' = [tree EXCEPT ![c] = seq]
    BY <1>2, <1>4
  <2> QED BY <2>1, <1>1, <1>5
<1>7. TreeTypeOK'
  <2>1. \A d \in Calls : Len(tree'[d]) <= MaxCalls
    BY <1>5, <1>6 DEF IInv, TypeOK
  <2>2. ASSUME NEW d \in Calls, phase'[d] \notin {"spawned", "working"}
        PROVE  \A m \in DOMAIN tree'[d] : tree'[d][m].state # "running"
    <3>1. \A m \in DOMAIN tree[d] : tree[d][m].state # "running"
      BY <2>2 DEF IInv, TypeOK
    <3>2. d # c
      BY <3>1
    <3> QED BY <3>1, <3>2, <1>6
  <2>3. Node' = Node
    BY DEF Node, States
  <2> QED BY <1>6, <2>1, <2>2, <2>3 DEF TreeTypeOK
<1>8. TreeLogged'
  <2> SUFFICES ASSUME NEW d \in Calls, NEW m \in Nat
               PROVE  /\ Started(d, m)' <=> m \in DOMAIN tree'[d]
                      /\ Terminal(d, m)' <=>
                           m \in DOMAIN tree'[d] /\ tree'[d][m].state = "returned"
    BY DEF TreeLogged
  <2>1. /\ Started(d, m)' <=> Started(d, m)
        /\ Terminal(d, m)' <=> Terminal(d, m) \/ (d = c /\ m = n)
    <3>1. /\ Started(d, m)' <=>
               Started(d, m) \/ x = [kind |-> "started", call |-> <<d, m>>]
          /\ Terminal(d, m)' <=>
               Terminal(d, m) \/ x = [kind |-> "terminal", call |-> <<d, m>>]
      <4> HIDE DEF Event
      <4> QED BY LogTells
    <3>2. x = [kind |-> "terminal", call |-> <<d, m>>] <=> (d = c /\ m = n)
      OBVIOUS
    <3>3. x # [kind |-> "started", call |-> <<d, m>>]
      OBVIOUS
    <3> QED BY <3>1, <3>2, <3>3
  <2>2. /\ Started(d, m) <=> m \in DOMAIN tree[d]
        /\ Terminal(d, m) <=> m \in DOMAIN tree[d] /\ tree[d][m].state = "returned"
    BY DEF IInv, TreeLogged
  <2>3. CASE d # c
    BY <2>1, <2>2, <2>3, <1>6
  <2>4. CASE d = c /\ m = n
    BY <2>1, <2>2, <2>4, <1>3, <1>5, <1>6
  <2>5. CASE d = c /\ m # n
    BY <2>1, <2>2, <2>5, <1>5, <1>6
  <2> QED BY <2>3, <2>4, <2>5
<1> QED BY <1>7, <1>8

-----------------------------------------------------------------------------
(* The invariant holds.                                                    *)

LEMMA InitInv == ASSUME Init PROVE IInv
<1>1. log = <<>> /\ Len(log) = 0 /\ DOMAIN log = {} /\ \A c \in Calls : tree[c] = <<>>
  BY DEF Init
<1>2. TypeOK
  <2>1. tree \in [Calls -> Seq(Node)] /\ \A c \in Calls : Len(tree[c]) <= MaxCalls
    BY CallTreeAssumption DEF Init
  <2>2. shown \in Seq(DOMAIN log)
    BY DEF Init
  <2> QED BY <1>1, <2>1, <2>2 DEF Init, TypeOK, Phases
<1>3. LogOK
  BY <1>1 DEF Init, LogOK
<1>4. Covered
  BY <1>1 DEF Covered
<1>5. SinkOK
  BY DEF Init, SinkOK, Increasing
<1>6. TreeLogged
  <2>1. \A c \in Calls : DOMAIN tree[c] = {}
    BY <1>1
  <2> QED BY <1>1, <2>1 DEF TreeLogged, Started, Terminal
<1> QED BY <1>2, <1>3, <1>4, <1>5, <1>6 DEF IInv

\* A call that has started is of the batch.
LEMMA StartedIsOfBatch ==
  ASSUME IInv, NEW c \in Calls, phase[c] # "waiting"
  PROVE  c \in batch
BY DEF IInv, LogOK

LEMMA ForeignInv == ASSUME IInv, Foreign PROVE IInv'
<1>1. PICK x \in Event : x = Other
  BY DEF Event
<1>2. ReadersOK'
  <2> HIDE DEF Event
  <2>1. phase' \in [Calls -> Phases]
    BY DEF Foreign, IInv, TypeOK
  <2> QED BY <1>1, <2>1, NewEvent DEF Foreign, Commit, relay
<1>3. TreeTypeOK' /\ TreeLogged'
  <2>1. \A c \in Calls : \A n \in Nat :
          (Started(c, n)' <=> Started(c, n)) /\ (Terminal(c, n)' <=> Terminal(c, n))
    <3> HIDE DEF Event
    <3>1. log' = Append(log, x)
      BY <1>1 DEF Foreign, Commit
    <3> QED BY <1>1, <3>1, LogTells DEF Other
  <2> QED BY <2>1, TreesStay DEF Foreign
<1> QED BY <1>2, <1>3, InvInParts

LEMMA EnterInv == ASSUME IInv, NEW c \in Calls, Enter(c) PROVE IInv'
<1>1. PICK x : x = [kind |-> "scope", call |-> <<c, 0>>]
  OBVIOUS
<1>2. phase[c] = "spawned" /\ c \in batch
  BY StartedIsOfBatch DEF Enter
<1>3. x \in Event
  BY <1>1, <1>2, CallTreeAssumption DEF Event
<1>4. /\ phase' \in [Calls -> Phases] /\ phase'[c] = "working"
      /\ \A d \in Calls : d # c => phase'[d] = phase[d]
  BY DEF Enter, IInv, TypeOK, Phases
<1>5. log' = Append(log, x)
  BY <1>1 DEF Enter, Commit
<1>6. ReadersOK'
  <2> HIDE DEF Event
  <2> QED BY <1>2, <1>3, <1>4, <1>5, NewEvent DEF Enter, Commit, relay
<1>7. TreeTypeOK' /\ TreeLogged'
  <2>1. \A d \in Calls : \A n \in Nat :
          (Started(d, n)' <=> Started(d, n)) /\ (Terminal(d, n)' <=> Terminal(d, n))
    <3> HIDE DEF Event
    <3> QED BY <1>1, <1>3, <1>5, LogTells
  <2> QED BY <2>1, <1>4, TreesStay DEF Enter
<1> QED BY <1>6, <1>7, InvInParts

LEMMA InvokeInv ==
  ASSUME IInv, NEW c \in Calls, phase[c] = "working",
         NEW parent \in 0 .. MaxCalls, NEW depth \in Nat, Invoke(c, parent, depth)
  PROVE  IInv'
<1>1. PICK x : x = [kind |-> "started", call |-> <<c, Len(tree[c]) + 1>>]
  OBVIOUS
<1>2. c \in batch
  BY StartedIsOfBatch
<1>3. Len(tree[c]) \in Nat /\ Len(tree[c]) < MaxCalls /\ depth \in 0 .. MaxDepth
  BY DEF Invoke, MayInvoke, IInv, TypeOK
<1>4. x \in Event
  BY <1>1, <1>2, <1>3, CallTreeAssumption DEF Event
<1>5. /\ log' = Append(log, x) /\ phase' = phase
      /\ tree' = [tree EXCEPT ![c] =
           Append(@, [parent |-> parent, depth |-> depth, state |-> "running"])]
  BY <1>1 DEF Invoke, Commit
<1>6. ReadersOK'
  <2> HIDE DEF Event
  <2>1. phase' \in [Calls -> Phases]
    BY <1>5 DEF IInv, TypeOK
  <2> QED BY <1>2, <1>4, <1>5, <2>1, NewEvent DEF Invoke, Commit, relay
<1>7. TreeTypeOK' /\ TreeLogged'
  <2>1. PICK node \in Node : node = [parent |-> parent, depth |-> depth, state |-> "running"]
    BY <1>3 DEF Node, States
  <2>2. node.state = "running" /\ tree' = [tree EXCEPT ![c] = Append(@, node)]
    BY <2>1, <1>5
  <2> HIDE DEF Event, Node
  <2> QED BY <1>1, <1>3, <1>4, <1>5, <2>2, TreeGrows
<1> QED BY <1>6, <1>7, InvInParts

LEMMA ReturnInv ==
  ASSUME IInv, NEW c \in Calls, NEW n \in DOMAIN tree[c], Return(c, n)
  PROVE  IInv'
<1>1. PICK x : x = [kind |-> "terminal", call |-> <<c, n>>]
  OBVIOUS
<1>2. phase[c] = "working" /\ tree[c][n].state = "running" /\ c \in batch
  BY StartedIsOfBatch DEF Return, Live
<1>3. n \in 0 .. MaxCalls
  <2>1. tree[c] \in Seq(Node) /\ Len(tree[c]) <= MaxCalls
    BY DEF IInv, TypeOK
  <2>2. n \in 1 .. Len(tree[c]) /\ Len(tree[c]) \in Nat
    BY <2>1
  <2> QED BY <2>1, <2>2, CallTreeAssumption
<1>4. x \in Event
  BY <1>1, <1>2, <1>3 DEF Event
<1>5. /\ log' = Append(log, x) /\ phase' = phase
      /\ tree' = [tree EXCEPT ![c][n].state = "returned"]
  BY <1>1 DEF Return, Commit
<1>6. ReadersOK'
  <2> HIDE DEF Event
  <2>1. phase' \in [Calls -> Phases]
    BY <1>5 DEF IInv, TypeOK
  <2> QED BY <1>2, <1>4, <1>5, <2>1, NewEvent DEF Return, Commit, relay
<1>7. TreeTypeOK' /\ TreeLogged'
  <2> HIDE DEF Event
  <2> QED BY <1>1, <1>2, <1>4, <1>5, TreeReturns
<1> QED BY <1>6, <1>7, InvInParts

LEMMA CutInv ==
  ASSUME IInv, NEW c \in Calls,
         WorkerEnds(c) \/ \E n \in DOMAIN tree[c] : Abandon(c, n)
  PROVE  IInv'
<1>1. /\ phase[c] \in {"spawned", "working"} /\ phase \in [Calls -> Phases]
      /\ batch' = batch /\ log' = log /\ relay' = relay /\ watchers' = watchers
      /\ failed' = failed /\ failed \subseteq batch
      /\ phase' = phase \/ phase' = [phase EXCEPT ![c] = "ended"]
  BY DEF WorkerEnds, Abandon, Live, IInv, TypeOK
<1>2. c \in batch
  BY <1>1, StartedIsOfBatch
<1>3. ReadersOK'
  <2>1. phase' \in [Calls -> Phases]
    BY <1>1 DEF Phases
  <2>2. \A d \in Calls : phase'[d] # "waiting" => d \in batch
    BY <1>1, <1>2 DEF IInv, LogOK
  <2>3. /\ after' = after /\ until' = until /\ pending' = pending /\ shown' = shown
    BY <1>1 DEF relay
  <2>4. after' \in [Calls -> 0 .. Len(log)] /\ until' \in [Calls -> 0 .. Len(log)]
    BY <2>3 DEF IInv, LogOK
  <2>5. \A d \in batch : \A e \in DOMAIN log : WillRelay(d, e) => WillRelay(d, e)'
    <3>1. ASSUME NEW d \in batch, NEW e \in DOMAIN log, WillRelay(d, e)
          PROVE  WillRelay(d, e)'
      <4>1. d \in Calls
        BY DEF IInv, TypeOK
      <4>2. phase'[d] = phase[d] \/ (d = c /\ phase'[d] = "ended")
        BY <1>1, <4>1
      <4> QED BY <3>1, <4>2, <2>3, <1>1 DEF WillRelay
    <3> QED BY <3>1
  <2>6. \A d \in Calls : after[d] <= after'[d]
    <3>1. \A d \in Calls : after[d] \in Nat
      <4>1. Len(log) \in Nat
        BY DEF IInv, LogOK
      <4> QED BY <4>1 DEF IInv, LogOK
    <3> QED BY <3>1, <2>3
  <2> QED BY <1>1, <2>1, <2>2, <2>3, <2>4, <2>5, <2>6, QuietStep
<1>4. TreeTypeOK' /\ TreeLogged'
  <2>1. CASE WorkerEnds(c)
    <3>1. \A d \in Calls \ {c} : phase'[d] = phase[d]
      BY <1>1
    <3>2. tree' = [tree EXCEPT ![c] = Cancelled(c, DOMAIN tree[c])]
      BY <2>1 DEF WorkerEnds
    <3> QED BY <1>1, <3>1, <3>2, TreeIsCut
  <2>2. ASSUME NEW n \in DOMAIN tree[c], Abandon(c, n)
        PROVE  TreeTypeOK' /\ TreeLogged'
    <3>1. PICK ns : ns = Below(c, n)
      OBVIOUS
    <3>2. tree' = [tree EXCEPT ![c] = Cancelled(c, ns)] /\ phase' = phase
      BY <2>2, <3>1 DEF Abandon
    <3> QED BY <1>1, <3>2, TreeIsCut
  <2> QED BY <2>1, <2>2
<1> QED BY <1>3, <1>4, InvInParts

\* The steps of a call's thread that relay nothing.
ThreadStep(c) ==
  \/ StartCall(c) \/ RefuseCall(c) \/ Spawn(c) \/ CannotBegin(c)
  \/ Drain(c) \/ RelayFails(c) \/ Over(c)

LEMMA ThreadInv == ASSUME IInv, NEW c \in Calls, ThreadStep(c) PROVE IInv'
<1>1. /\ log \in Seq(Event) /\ Len(log) \in Nat /\ DOMAIN log = 1 .. Len(log)
      /\ after \in [Calls -> 0 .. Len(log)] /\ until \in [Calls -> 0 .. Len(log)]
      /\ phase \in [Calls -> Phases] /\ batch \subseteq Calls
  BY DEF IInv, LogOK, TypeOK
<1>2. /\ batch' = batch /\ log' = log /\ watchers' = watchers
      /\ failed \subseteq failed' /\ failed' \subseteq batch
      /\ pending' = pending /\ shown' = shown /\ tree' = tree
      /\ c \in batch
  BY DEF ThreadStep, StartCall, RefuseCall, Spawn, CannotBegin, Drain, RelayFails, Over,
         relay, IInv, LogOK, TypeOK
<1>3. /\ phase' \in [Calls -> Phases]
      /\ \A d \in Calls : d # c => phase'[d] = phase[d]
  BY <1>1 DEF ThreadStep, StartCall, RefuseCall, Spawn, CannotBegin, Drain, RelayFails, Over,
         Phases
<1>4. /\ after' \in [Calls -> 0 .. Len(log)] /\ until' \in [Calls -> 0 .. Len(log)]
      /\ \A d \in Calls : after[d] <= after'[d]
      /\ \A d \in Calls : d # c => after'[d] = after[d] /\ until'[d] = until[d]
  <2>1. \A d \in Calls : after[d] \in Nat /\ after[d] <= Len(log)
    BY <1>1
  <2>2. CASE StartCall(c)
    BY <2>1, <2>2, <1>1 DEF StartCall
  <2>3. CASE RefuseCall(c) \/ Spawn(c) \/ CannotBegin(c) \/ RelayFails(c) \/ Over(c)
    BY <2>1, <2>3, <1>1 DEF RefuseCall, Spawn, CannotBegin, RelayFails, Over, relay
  <2>4. CASE Drain(c)
    BY <2>1, <2>4, <1>1 DEF Drain, LastPage
  <2> QED BY <2>2, <2>3, <2>4 DEF ThreadStep
<1>5. \A e \in DOMAIN log : WillRelay(c, e) => WillRelay(c, e)' \/ c \in failed'
  <2> SUFFICES ASSUME NEW e \in DOMAIN log, WillRelay(c, e)
               PROVE  WillRelay(c, e)' \/ c \in failed'
    OBVIOUS
  <2>1. CASE StartCall(c)
    BY <2>1 DEF StartCall, WillRelay
  <2>2. CASE RefuseCall(c)
    BY <2>2 DEF RefuseCall, WillRelay
  <2>3. CASE Drain(c)
    BY <2>3, <1>1 DEF Drain, LastPage, WillRelay
  <2>4. CASE Over(c)
    BY <2>4, <1>1 DEF Over, WillRelay
  <2>5. CASE Spawn(c)
    BY <2>5, <1>1 DEF Spawn, relay, WillRelay
  <2>6. CASE CannotBegin(c) \/ RelayFails(c)
    BY <2>6 DEF CannotBegin, RelayFails
  <2> QED BY <2>1, <2>2, <2>3, <2>4, <2>5, <2>6 DEF ThreadStep
<1>6. ReadersOK'
  <2>1. \A d \in Calls : phase'[d] # "waiting" => d \in batch
    BY <1>2, <1>3 DEF IInv, LogOK
  <2>2. \A d \in batch : \A e \in DOMAIN log :
          WillRelay(d, e) => WillRelay(d, e)' \/ d \in failed'
    BY <1>1, <1>3, <1>4, <1>5 DEF WillRelay
  <2> QED BY <1>2, <1>3, <1>4, <2>1, <2>2, QuietStep
<1>7. TreeTypeOK' /\ TreeLogged'
  <2>1. \A d \in Calls : phase'[d] \notin {"spawned", "working"} =>
          phase[d] \notin {"spawned", "working"}
    <3>1. phase'[c] \notin {"spawned", "working"} => phase[c] \notin {"spawned", "working"}
      BY DEF ThreadStep, StartCall, RefuseCall, Spawn, CannotBegin, Drain, RelayFails, Over
    <3> QED BY <3>1, <1>3
  <2>2. \A d \in Calls : \A n \in Nat :
          (Started(d, n)' <=> Started(d, n)) /\ (Terminal(d, n)' <=> Terminal(d, n))
    BY <1>2 DEF Started, Terminal
  <2> QED BY <2>1, <2>2, <1>2, TreesStay
<1> QED BY <1>6, <1>7, InvInParts

LEMMA RelayInv == ASSUME IInv, NEW c \in Calls, RelayOne(c) PROVE IInv'
<1>1. ReadersOK'
  BY RelayStep
<1>2. TreeTypeOK' /\ TreeLogged'
  <2>1. \A d \in Calls : \A n \in Nat :
          (Started(d, n)' <=> Started(d, n)) /\ (Terminal(d, n)' <=> Terminal(d, n))
    BY DEF RelayOne, Started, Terminal
  <2> QED BY <2>1, TreesStay DEF RelayOne
<1> QED BY <1>1, <1>2, InvInParts

LEMMA StepInv == ASSUME IInv, Next PROVE IInv'
<1>1. CASE Foreign
  BY <1>1, ForeignInv
<1>2. ASSUME NEW c \in Calls,
             \/ StartCall(c) \/ RefuseCall(c) \/ Spawn(c) \/ CannotBegin(c)
             \/ RelayOne(c) \/ Drain(c) \/ RelayFails(c) \/ Over(c)
             \/ Enter(c) \/ InvokeRoot(c) \/ WorkerEnds(c)
             \/ \E n \in DOMAIN tree[c] : InvokeNested(c, n) \/ Return(c, n) \/ Abandon(c, n)
      PROVE  IInv'
  <2>1. CASE ThreadStep(c)
    BY <2>1, ThreadInv
  <2>2. CASE RelayOne(c)
    BY <2>2, RelayInv
  <2>3. CASE Enter(c)
    BY <2>3, EnterInv
  <2>4. CASE InvokeRoot(c)
    BY <2>4, InvokeInv, CallTreeAssumption DEF InvokeRoot
  <2>5. ASSUME NEW n \in DOMAIN tree[c], InvokeNested(c, n)
        PROVE  IInv'
    <3>1. PICK depth : depth = tree[c][n].depth + 1
      OBVIOUS
    <3>2. tree[c] \in Seq(Node) /\ Len(tree[c]) <= MaxCalls /\ Len(tree[c]) \in Nat
      BY DEF IInv, TypeOK
    <3>3. n \in 1 .. Len(tree[c])
      BY <3>2
    <3>4. n \in 0 .. MaxCalls
      BY <3>2, <3>3, CallTreeAssumption
    <3>5. tree[c][n].depth \in 0 .. MaxDepth
      <4>1. tree[c][n] \in Node
        BY <3>2, <3>3
      <4> QED BY <4>1 DEF Node
    <3>6. depth \in Nat
      BY <3>1, <3>5, CallTreeAssumption
    <3>7. phase[c] = "working" /\ Invoke(c, n, depth)
      BY <2>5, <3>1 DEF InvokeNested, Live
    <3> QED BY <3>4, <3>6, <3>7, InvokeInv
  <2>6. ASSUME NEW n \in DOMAIN tree[c], Return(c, n)
        PROVE  IInv'
    BY <2>6, ReturnInv
  <2>7. CASE WorkerEnds(c) \/ \E n \in DOMAIN tree[c] : Abandon(c, n)
    BY <2>7, CutInv
  <2> QED BY <1>2, <2>1, <2>2, <2>3, <2>4, <2>5, <2>6, <2>7 DEF ThreadStep
<1> QED BY <1>1, <1>2 DEF Next

LEMMA StutterInv == ASSUME IInv, UNCHANGED vars PROVE IInv'
<1>1. /\ batch' = batch /\ log' = log /\ phase' = phase /\ watchers' = watchers /\ failed' = failed
      /\ after' = after /\ until' = until /\ pending' = pending /\ shown' = shown
      /\ tree' = tree
  BY DEF vars, relay
<1>2. TypeOK' /\ LogOK'
  BY <1>1 DEF IInv, TypeOK, LogOK, Event, Other, Node, States
<1>3. Covered' /\ SinkOK' /\ TreeLogged'
  BY <1>1 DEF IInv, Covered, Delivered, WillRelay, SinkOK, Ordered, Increasing,
              TreeLogged, Started, Terminal, Other
<1> QED BY <1>2, <1>3 DEF IInv

LEMMA Invariant == Spec => []IInv
<1>1. Init => IInv
  BY InitInv
<1>2. IInv /\ [Next]_vars => IInv'
  BY StepInv, StutterInv
<1> QED BY <1>1, <1>2, PTL DEF Spec

-----------------------------------------------------------------------------
(* The properties.                                                         *)

\* The log, the relays, the sink and the trees stay of their types; no tree has
\* more calls than max_calls, or deeper ones than max_depth, and none has a
\* running call when its worker has gone.
THEOREM TypeCorrect == Spec => []TypeOK
<1>1. IInv => TypeOK
  BY DEF IInv
<1> QED BY <1>1, Invariant, PTL

LEMMA ShownIncreases == ASSUME IInv PROVE Increasing(shown)
<1>1. CASE Ordered
  <2>1. shown \in Seq(DOMAIN log)
    BY DEF IInv, TypeOK
  <2>2. Len(shown) \in Nat /\ DOMAIN shown = 1 .. Len(shown)
    BY <2>1
  <2>3. \A i \in 1 .. Len(shown) : shown[i] = i
    BY <1>1, <2>2 DEF IInv, SinkOK
  <2> QED BY <2>2, <2>3 DEF Increasing
<1>2. CASE ~ Ordered
  BY <1>2 DEF IInv, SinkOK
<1> QED BY <1>1, <1>2

LEMMA NothingElseIsLost ==
  ASSUME IInv, AllOver, NEW n \in DOMAIN log, n \notin Range(shown), ~ Orphaned(n)
  PROVE  Ordered /\ \E m \in 1 .. n - 1 : Orphaned(m)
<1>1. \A c \in batch : \A e : ~ WillRelay(c, e)
  BY DEF AllOver, WillRelay
<1>2. \A e \in DOMAIN log : Delivered(e) \/ watchers[e] \subseteq failed
  <2> SUFFICES ASSUME NEW e \in DOMAIN log, ~ Delivered(e), NEW c \in watchers[e]
               PROVE  c \in failed
    OBVIOUS
  <2>1. c \in batch
    BY WatchersOfBatch
  <2> QED BY <2>1, <1>1 DEF IInv, Covered
<1>3. n \in pending
  BY <1>2 DEF Delivered, Orphaned
<1>4. Ordered
  BY <1>3 DEF IInv, SinkOK
<1>5. /\ shown \in Seq(DOMAIN log) /\ log \in Seq(Event)
      /\ \A i \in DOMAIN shown : shown[i] = i
      /\ Len(shown) + 1 \notin pending
  BY <1>4 DEF IInv, TypeOK, LogOK, SinkOK
<1>6. /\ Len(log) \in Nat /\ DOMAIN log = 1 .. Len(log)
      /\ Len(shown) \in Nat /\ DOMAIN shown = 1 .. Len(shown)
  BY <1>5
<1>7. PICK m : m = Len(shown) + 1
  OBVIOUS
<1>8. n \notin DOMAIN shown
  BY <1>5 DEF Range
<1>9. m \in DOMAIN log /\ m \in 1 .. n - 1
  BY <1>3, <1>5, <1>6, <1>7, <1>8
<1>10. ~ Delivered(m)
  <2>1. m \notin Range(shown)
    <3> SUFFICES ASSUME NEW i \in DOMAIN shown, shown[i] = m PROVE FALSE
      BY DEF Range
    <3> QED BY <1>5, <1>6, <1>7
  <2> QED BY <2>1, <1>5, <1>7 DEF Delivered
<1>11. Orphaned(m)
  BY <1>2, <1>9, <1>10 DEF Delivered, Orphaned
<1> QED BY <1>4, <1>9, <1>11

\* Nothing is shown twice or out of order, and when a batch is over all that a call
\* watched has been shown, but for what all its watchers failed to relay and what
\* waits behind that: however many calls there are, and whenever each starts, ends,
\* is killed or cannot begin.
THEOREM NothingIsLost == Spec => []RelayFaithful
<1>1. IInv => RelayFaithful
  BY ShownIncreases, NothingElseIsLost DEF RelayFaithful
<1> QED BY <1>1, Invariant, PTL

LEMMA LeafInv == ASSUME IInv PROVE LeafIsFree
<1> SUFFICES ASSUME NEW c \in Calls, NEW n \in DOMAIN tree[c], Live(c, n)
             PROVE  ActiveLeaf(c, n) <=>
                      \A m \in ChildrenOf(c, n) : tree[c][m].state = "returned"
  BY DEF LeafIsFree
<1>1. DOMAIN tree[c] \subseteq Nat
  <2>1. tree[c] \in Seq(Node)
    BY DEF IInv, TypeOK
  <2> QED BY <2>1
<1>2. \A m \in DOMAIN tree[c] :
        Started(c, m) /\ (Terminal(c, m) <=> tree[c][m].state = "returned")
  BY <1>1 DEF IInv, TreeLogged
<1>3. Started(c, n) /\ ~ Ended(c, n)
  BY <1>2 DEF Live, Ended
<1>4. ChildrenOf(c, n) \subseteq DOMAIN tree[c]
  BY DEF ChildrenOf
<1>5. \A m \in ChildrenOf(c, n) :
        Started(c, m) /\ (Ended(c, m) <=> tree[c][m].state = "returned")
  BY <1>2, <1>4 DEF Ended
<1> QED BY <1>3, <1>5 DEF ActiveLeaf

\* The log's active leaf is what the tree of the worker says: a running call may
\* ask for a completion exactly if all the calls it made have returned.
THEOREM LeafAgrees == Spec => []LeafIsFree
<1>1. IInv => LeafIsFree
  BY LeafInv
<1> QED BY <1>1, Invariant, PTL
=============================================================================
