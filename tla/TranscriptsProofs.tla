------------------------- MODULE TranscriptsProofs -------------------------
(***************************************************************************)
(* Proofs about Transcripts, for any number of calls, events and breaks:   *)
(* the messages of a running conversation are those of the replay, its     *)
(* calls have observations, and a turn that the user stopped is announced  *)
(* once.  A replay is followed one event at a time: what an event makes of *)
(* a replay that is sound is stated once, for each kind of event, and the  *)
(* invariants relate the replay of each session to what has happened.      *)
(***************************************************************************)
EXTENDS Transcripts, SequenceTheorems, WellFoundedInduction, TLAPS

-----------------------------------------------------------------------------
(* A replay, event after event.                                            *)

LEMMA LeastElement ==
  ASSUME NEW T, T \subseteq Nat, T # {}
  PROVE  \E x \in T : \A y \in T : x <= y
<1>1. PICK x \in T : \A y \in T : ~ (<<y, x>> \in OpToRel(<, Nat))
  BY WFMin, NatLessThanWellFounded
<1>2. \A y \in T : x <= y
  <2> SUFFICES ASSUME NEW y \in T, y < x PROVE FALSE
    OBVIOUS
  <2>1. <<y, x>> \in OpToRel(<, Nat)
    BY DEF OpToRel
  <2> QED BY <2>1, <1>1
<1> QED BY <1>2

\* g is what the first m events make of r.
Unfolds(r, events, m, g) ==
  g = [n \in 0 .. m |-> IF n = 0 THEN r ELSE Read(g[n - 1], events[n])]

LEMMA UnfoldsAt ==
  ASSUME NEW r, NEW events, NEW m \in Nat, NEW g, Unfolds(r, events, m, g)
  PROVE  /\ g[0] = r
         /\ \A n \in 1 .. m : g[n] = Read(g[n - 1], events[n])
<1> DEFINE F(n) == IF n = 0 THEN r ELSE Read(g[n - 1], events[n])
<1>1. g = [n \in 0 .. m |-> F(n)]
  BY DEF Unfolds
<1> HIDE DEF F
<1>2. \A n \in 0 .. m : g[n] = F(n)
  BY <1>1
<1>3. 0 \in 0 .. m /\ \A n \in 1 .. m : n \in 0 .. m /\ n # 0
  OBVIOUS
<1> QED BY <1>2, <1>3 DEF F

\* There is one for every length.
LEMMA UnfoldsExists ==
  ASSUME NEW r, NEW events, NEW N \in Nat
  PROVE  \E g : Unfolds(r, events, N, g)
<1> DEFINE T == {m \in Nat : ~ \E g : Unfolds(r, events, m, g)}
<1> SUFFICES ASSUME T # {} PROVE FALSE
  OBVIOUS
<1>1. PICK m \in T : \A y \in T : m <= y
  <2> HIDE DEF T
  <2>1. T \subseteq Nat
    BY DEF T
  <2> QED BY <2>1, LeastElement
<1>2. CASE m = 0
  <2>1. Unfolds(r, events, 0, [n \in 0 .. 0 |-> r])
    BY DEF Unfolds
  <2> QED BY <2>1, <1>2
<1>3. CASE m # 0
  <2>1. m \in Nat /\ m - 1 \in Nat /\ m - 1 \notin T
    BY <1>1, <1>3
  <2>2. PICK g : Unfolds(r, events, m - 1, g)
    BY <2>1
  <2> DEFINE h == [n \in 0 .. m |-> IF n < m THEN g[n] ELSE Read(g[m - 1], events[m])]
  <2>3. \A n \in 0 .. m - 1 : h[n] = g[n]
    BY <2>1
  <2>4. h[m] = Read(g[m - 1], events[m])
    BY <2>1
  <2>5. h = [n \in 0 .. m |-> h[n]]
    OBVIOUS
  <2> HIDE DEF h
  <2>6. ASSUME NEW n \in 0 .. m
        PROVE  h[n] = IF n = 0 THEN r ELSE Read(h[n - 1], events[n])
    <3>1. CASE n = 0
      <4>1. h[n] = g[0]
        BY <3>1, <2>1, <2>3
      <4> QED BY <3>1, <4>1, <2>1, <2>2, UnfoldsAt
    <3>2. CASE n \in 1 .. m - 1
      <4>1. n - 1 \in 0 .. m - 1 /\ n \in 0 .. m - 1 /\ n # 0
        BY <3>2, <2>1
      <4>2. h[n] = g[n] /\ h[n - 1] = g[n - 1]
        BY <4>1, <2>3
      <4>3. g[n] = Read(g[n - 1], events[n])
        BY <3>2, <2>1, <2>2, UnfoldsAt
      <4> QED BY <4>1, <4>2, <4>3
    <3>3. CASE n = m
      <4>1. h[n - 1] = g[m - 1]
        BY <3>3, <2>1, <2>3
      <4> QED BY <3>3, <4>1, <2>4, <1>3
    <3> QED BY <3>1, <3>2, <3>3, <2>1
  <2>7. Unfolds(r, events, m, h)
    BY <2>5, <2>6 DEF Unfolds
  <2> QED BY <2>7, <2>1
<1> QED BY <1>2, <1>3

\* The values of ReadAll are those of one that unfolds.
LEMMA ReadAllUnfolds ==
  ASSUME NEW r, NEW S, NEW events \in Seq(S)
  PROVE  \E g : Unfolds(r, events, Len(events), g) /\ ReadAll(r, events) = g[Len(events)]
<1> DEFINE state == CHOOSE g : Unfolds(r, events, Len(events), g)
<1>1. Len(events) \in Nat
  OBVIOUS
<1>2. Unfolds(r, events, Len(events), state)
  BY <1>1, UnfoldsExists
<1>3. ReadAll(r, events) = state[Len(events)]
  BY DEF ReadAll, Unfolds
<1> QED BY <1>2, <1>3

\* Two that unfold the same events agree.
LEMMA UnfoldsAgree ==
  ASSUME NEW r, NEW s, NEW t, NEW m \in Nat, NEW n \in Nat, NEW g, NEW h,
         Unfolds(r, s, m, g), Unfolds(r, t, n, h), m <= n,
         \A k \in 1 .. m : s[k] = t[k]
  PROVE  g[m] = h[m]
<1> DEFINE T == {k \in 0 .. m : g[k] # h[k]}
<1> SUFFICES ASSUME T # {} PROVE FALSE
  <2>1. m \in 0 .. m
    OBVIOUS
  <2> QED BY <2>1
<1>1. PICK k \in T : \A y \in T : k <= y
  <2> HIDE DEF T
  <2>1. T \subseteq Nat
    BY DEF T
  <2> QED BY <2>1, LeastElement
<1>2. g[0] = r /\ h[0] = r
  BY UnfoldsAt
<1>3. k \in 1 .. m /\ k \in 1 .. n /\ k - 1 \in 0 .. m
  BY <1>1, <1>2
<1>4. g[k - 1] = h[k - 1]
  <2>1. k - 1 \notin T
    <3> HIDE DEF T
    <3> QED BY <1>1, <1>3
  <2> QED BY <2>1, <1>3
<1>5. g[k] = Read(g[k - 1], s[k]) /\ h[k] = Read(h[k - 1], t[k])
  BY <1>3, UnfoldsAt
<1> QED BY <1>1, <1>3, <1>4, <1>5

\* One more event.
LEMMA ReadAllAppend ==
  ASSUME NEW r, NEW S, NEW events \in Seq(S), NEW e \in S
  PROVE  ReadAll(r, Append(events, e)) = Read(ReadAll(r, events), e)
<1> DEFINE N == Len(events)
           more == Append(events, e)
<1>1. /\ N \in Nat /\ more \in Seq(S) /\ Len(more) = N + 1
      /\ more[N + 1] = e /\ \A k \in 1 .. N : events[k] = more[k]
  OBVIOUS
<1> HIDE DEF N, more
<1>2. PICK g : Unfolds(r, events, N, g) /\ ReadAll(r, events) = g[N]
  BY ReadAllUnfolds DEF N
<1>3. PICK h : Unfolds(r, more, N + 1, h) /\ ReadAll(r, more) = h[N + 1]
  BY <1>1, ReadAllUnfolds
<1>4. g[N] = h[N]
  <2>1. N + 1 \in Nat /\ N <= N + 1
    BY <1>1
  <2> QED BY <1>1, <1>2, <1>3, <2>1, UnfoldsAgree
<1>5. h[N + 1] = Read(h[N], more[N + 1])
  <2>1. N + 1 \in Nat /\ N + 1 \in 1 .. N + 1 /\ (N + 1) - 1 = N
    BY <1>1
  <2>2. \A n \in 1 .. N + 1 : h[n] = Read(h[n - 1], more[n])
    BY <1>3, <2>1, UnfoldsAt
  <2>3. h[N + 1] = Read(h[(N + 1) - 1], more[N + 1])
    BY <2>1, <2>2
  <2> QED BY <2>1, <2>3
<1> QED BY <1>1, <1>2, <1>3, <1>4, <1>5 DEF more

LEMMA ReadAllEmpty ==
  ASSUME NEW r
  PROVE  ReadAll(r, <<>>) = r
<1>1. <<>> \in Seq({}) /\ Len(<<>>) = 0
  OBVIOUS
<1>2. PICK g : Unfolds(r, <<>>, 0, g) /\ ReadAll(r, <<>>) = g[0]
  BY <1>1, ReadAllUnfolds
<1> QED BY <1>2, UnfoldsAt

-----------------------------------------------------------------------------
(* What one event makes of a replay, by its kind.                          *)

States ==
  [messages : Seq(Messages), safe : Nat, open : SUBSET Calls, begun : BOOLEAN,
   pending : BOOLEAN]

Sound(r) == r \in States /\ r.safe <= Len(r.messages)

LEMMA BlankSound == Sound(Blank)
<1>1. <<>> \in Seq(Messages) /\ Len(<<>>) = 0
  OBVIOUS
<1>2. Blank \in States
  BY <1>1 DEF Blank, States
<1>3. Blank.safe = 0 /\ Blank.messages = <<>>
  BY DEF Blank
<1> QED BY <1>1, <1>2, <1>3 DEF Sound

LEMMA InheritFacts ==
  ASSUME NEW r, Sound(r)
  PROVE  /\ Sound(Inherit(r))
         /\ Inherit(r).messages = r.messages /\ Inherit(r).safe = Len(r.messages)
         /\ Inherit(r).open = {} /\ Inherit(r).begun = FALSE
         /\ Inherit(r).pending = r.pending
<1>1. r \in States /\ Len(r.messages) \in Nat /\ Blank \in States
  BY BlankSound DEF Sound, States
<1>2. /\ Inherit(r).messages = r.messages /\ Inherit(r).safe = Len(r.messages)
      /\ Inherit(r).open = {} /\ Inherit(r).begun = FALSE
      /\ Inherit(r).pending = r.pending
  BY DEF Inherit, Blank
<1>3. Inherit(r) \in States
  BY <1>1 DEF Inherit, States
<1> QED BY <1>1, <1>2, <1>3 DEF Sound

LEMMA CallIdsFacts ==
  ASSUME NEW e, e.id \in Ids, e.calls \in 0 .. MaxCalls
  PROVE  CallIds(e) \subseteq Calls /\ (CallIds(e) = {} <=> e.calls = 0)
<1>1. e.calls \in Nat
  BY TranscriptsAssumption
<1>2. \A i \in 1 .. e.calls : i \in 1 .. MaxCalls
  BY <1>1, TranscriptsAssumption
<1>3. CallIds(e) \subseteq Calls
  BY <1>2 DEF CallIds, Calls
<1>4. ASSUME e.calls # 0
      PROVE  <<e.id, 1>> \in CallIds(e)
  <2>1. 1 \in 1 .. e.calls
    BY <1>1, <1>4
  <2> QED BY <2>1 DEF CallIds
<1>5. ASSUME e.calls = 0
      PROVE  CallIds(e) = {}
  BY <1>5 DEF CallIds
<1> QED BY <1>3, <1>4, <1>5

LEMMA ExtendFacts ==
  ASSUME NEW r, Sound(r), NEW m \in Messages, NEW open \in SUBSET Calls
  PROVE  /\ Extend(r, m, open).messages = Append(r.messages, m)
         /\ Extend(r, m, open).open = open
         /\ Extend(r, m, open).safe = IF open = {} THEN Len(r.messages) + 1 ELSE r.safe
         /\ Extend(r, m, open).begun = r.begun
         /\ Extend(r, m, open).pending = r.pending
         /\ Sound(Extend(r, m, open))
<1>1. /\ r.messages \in Seq(Messages) /\ r.safe \in Nat /\ r.safe <= Len(r.messages)
      /\ Len(r.messages) \in Nat
      /\ r.open \in SUBSET Calls /\ r.begun \in BOOLEAN /\ r.pending \in BOOLEAN
  BY DEF Sound, States
<1>2. /\ Append(r.messages, m) \in Seq(Messages)
      /\ Len(Append(r.messages, m)) = Len(r.messages) + 1
  BY <1>1
<1>3. r \in States
  BY DEF Sound
<1>4. /\ Extend(r, m, open).messages = Append(r.messages, m)
      /\ Extend(r, m, open).open = open
      /\ Extend(r, m, open).safe = IF open = {} THEN Len(r.messages) + 1 ELSE r.safe
      /\ Extend(r, m, open).begun = r.begun
      /\ Extend(r, m, open).pending = r.pending
  BY <1>3 DEF Extend, States
<1>5. Extend(r, m, open) \in States
  <2>1. Append(r.messages, m) \in Seq(Messages) /\ Len(r.messages) + 1 \in Nat
    BY <1>1, <1>2
  <2> QED BY <1>3, <2>1 DEF Extend, States
<1> QED BY <1>1, <1>2, <1>4, <1>5 DEF Sound

LEMMA ReadUserFacts ==
  ASSUME NEW r, Sound(r), NEW e \in Entries, e.kind = "user"
  PROVE  /\ Read(r, e).messages = Append(r.messages,
              [role |-> "user", id |-> e.id, header |-> e.header \/ (r.pending /\ e.external)])
         /\ Read(r, e).open = {} /\ Read(r, e).safe = Len(r.messages) + 1
         /\ Read(r, e).begun = TRUE
         /\ Read(r, e).pending = (r.pending /\ ~ e.external)
         /\ Sound(Read(r, e))
<1> DEFINE m == [role |-> "user", id |-> e.id,
                 header |-> e.header \/ (r.pending /\ e.external)]
           q == Extend(r, m, {})
<1>1. e.id \in Ids /\ e.external \in BOOLEAN /\ e.header \in BOOLEAN /\ r.pending \in BOOLEAN
  BY DEF Entries, Sound, States
<1>2. m \in Messages
  BY <1>1 DEF Messages
<1>3. Read(r, e) = [q EXCEPT !.begun = TRUE, !.pending = @ /\ ~ e.external]
  BY DEF Read, ReadUser
<1>4. /\ q.messages = Append(r.messages, m) /\ q.open = {}
      /\ q.safe = Len(r.messages) + 1 /\ q.pending = r.pending /\ Sound(q)
  <2> HIDE DEF m
  <2> QED BY <1>2, ExtendFacts
<1> HIDE DEF q
<1>5. q = [messages |-> q.messages, safe |-> q.safe, open |-> q.open,
           begun |-> q.begun, pending |-> q.pending]
  BY <1>4 DEF Sound, States
<1>6. Read(r, e) = [messages |-> q.messages, safe |-> q.safe, open |-> q.open,
                    begun |-> TRUE, pending |-> q.pending /\ ~ e.external]
  BY <1>3, <1>5
<1>7. Read(r, e) \in States
  BY <1>4, <1>6 DEF Sound, States
<1> QED BY <1>4, <1>6, <1>7 DEF Sound

LEMMA ReadModelFacts ==
  ASSUME NEW r, Sound(r), NEW e \in Entries, e.kind = "model"
  PROVE  /\ Read(r, e).messages = Append(r.messages,
              [role |-> "assistant", id |-> e.id, calls |-> e.calls])
         /\ Read(r, e).open = CallIds(e)
         /\ Read(r, e).safe = IF CallIds(e) = {} THEN Len(r.messages) + 1 ELSE r.safe
         /\ Read(r, e).begun = r.begun /\ Read(r, e).pending = r.pending
         /\ Sound(Read(r, e))
<1>1. e.id \in Ids /\ e.calls \in 0 .. MaxCalls
  BY DEF Entries
<1>2. [role |-> "assistant", id |-> e.id, calls |-> e.calls] \in Messages
  BY <1>1 DEF Messages
<1>3. CallIds(e) \in SUBSET Calls
  BY <1>1, CallIdsFacts
<1>4. Read(r, e) = Extend(r, [role |-> "assistant", id |-> e.id, calls |-> e.calls], CallIds(e))
  BY DEF Read, ReadModel
<1> QED BY <1>2, <1>3, <1>4, ExtendFacts

LEMMA ReadObservationFacts ==
  ASSUME NEW r, Sound(r), NEW e \in Entries, e.kind = "tool_observation"
  PROVE  /\ Read(r, e).messages = Append(r.messages, [role |-> "tool", call |-> e.call])
         /\ Read(r, e).open = r.open \ {e.call}
         /\ Read(r, e).safe = IF r.open \ {e.call} = {} THEN Len(r.messages) + 1 ELSE r.safe
         /\ Read(r, e).begun = r.begun /\ Read(r, e).pending = r.pending
         /\ Sound(Read(r, e))
<1>1. e.call \in Calls
  BY DEF Entries
<1>2. [role |-> "tool", call |-> e.call] \in Messages
  BY <1>1 DEF Messages
<1>3. r.open \ {e.call} \in SUBSET Calls
  BY DEF Sound, States
<1>4. Read(r, e) = Extend(r, [role |-> "tool", call |-> e.call], r.open \ {e.call})
  BY DEF Read, ReadObservation
<1> QED BY <1>2, <1>3, <1>4, ExtendFacts

LEMMA ReadFinalFacts ==
  ASSUME NEW r, Sound(r), NEW e \in Entries, e.kind = "final"
  PROVE  /\ Read(r, e).messages = r.messages
         /\ Read(r, e).open = {} /\ Read(r, e).safe = Len(r.messages)
         /\ Read(r, e).begun = FALSE /\ Read(r, e).pending = r.pending
         /\ Sound(Read(r, e))
<1>1. /\ r.messages \in Seq(Messages) /\ Len(r.messages) \in Nat
      /\ r.pending \in BOOLEAN
  BY DEF Sound, States
<1>2. r = [messages |-> r.messages, safe |-> r.safe, open |-> r.open,
           begun |-> r.begun, pending |-> r.pending]
  BY DEF Sound, States
<1>3. Read(r, e) = [r EXCEPT !.begun = FALSE, !.safe = Len(r.messages), !.open = {}]
  BY DEF Read, ReadFinal
<1>4. Read(r, e) = [messages |-> r.messages, safe |-> Len(r.messages), open |-> {},
                    begun |-> FALSE, pending |-> r.pending]
  BY <1>2, <1>3
<1> QED BY <1>1, <1>4 DEF Sound, States

\* The messages that a cancelled turn leaves.
Cut(r) == IF r.begun THEN SubSeq(r.messages, 1, r.safe) ELSE r.messages

LEMMA CutFacts ==
  ASSUME NEW r, Sound(r)
  PROVE  /\ Cut(r) \in Seq(Messages) /\ Len(Cut(r)) \in Nat
         /\ r.safe <= Len(Cut(r)) /\ Len(Cut(r)) <= Len(r.messages)
         /\ \A k \in 1 .. Len(Cut(r)) : Cut(r)[k] = r.messages[k]
         /\ SubSeq(Cut(r), 1, r.safe) = SubSeq(r.messages, 1, r.safe)
<1>1. /\ r.messages \in Seq(Messages) /\ Len(r.messages) \in Nat
      /\ r.safe \in Nat /\ r.safe <= Len(r.messages)
  BY DEF Sound, States
<1>2. CASE ~ r.begun
  BY <1>1, <1>2 DEF Cut
<1>3. CASE r.begun
  <2>1. PICK c : c = SubSeq(r.messages, 1, r.safe)
    OBVIOUS
  <2>2. c \in Seq(Messages) /\ Len(c) = r.safe
    BY <1>1, <2>1
  <2>3. \A k \in 1 .. r.safe : c[k] = r.messages[k]
    BY <1>1, <2>1
  <2>4. SubSeq(c, 1, r.safe) = c
    BY <2>2, SubSeqFull
  <2>5. Cut(r) = c
    BY <1>3, <2>1 DEF Cut
  <2> QED BY <1>1, <2>1, <2>2, <2>3, <2>4, <2>5
<1> QED BY <1>2, <1>3

LEMMA ReadCancelledFacts ==
  ASSUME NEW r, Sound(r), NEW e \in Entries, e.kind = "cancelled"
  PROVE  /\ Read(r, e).messages = Cut(r)
         /\ Read(r, e).open = {} /\ Read(r, e).safe = r.safe
         /\ Read(r, e).begun = FALSE
         /\ Read(r, e).pending = (r.pending \/ e.user)
         /\ Sound(Read(r, e))
<1>1. /\ r.safe \in Nat /\ r.pending \in BOOLEAN /\ e.user \in BOOLEAN
  BY DEF Sound, States, Entries
<1>2. r = [messages |-> r.messages, safe |-> r.safe, open |-> r.open,
           begun |-> r.begun, pending |-> r.pending]
  BY DEF Sound, States
<1>3. Read(r, e) = [r EXCEPT !.messages = Cut(r), !.begun = FALSE, !.open = {},
                             !.pending = @ \/ e.user]
  BY DEF Read, ReadCancelled, Cut
<1>4. Read(r, e) = [messages |-> Cut(r), safe |-> r.safe, open |-> {},
                    begun |-> FALSE, pending |-> r.pending \/ e.user]
  BY <1>2, <1>3
<1>5. Cut(r) \in Seq(Messages) /\ r.safe <= Len(Cut(r))
  BY CutFacts
<1> QED BY <1>1, <1>4, <1>5 DEF Sound, States

LEMMA ReadFailedFacts ==
  ASSUME NEW r, NEW e \in Entries, e.kind = "model_failed"
  PROVE  Read(r, e) = r
BY DEF Read

LEMMA EntryKinds ==
  ASSUME NEW e \in Entries
  PROVE  e.kind \in {"user", "model", "tool_observation", "final", "model_failed", "cancelled"}
BY DEF Entries

LEMMA ReadSound ==
  ASSUME NEW r, Sound(r), NEW e \in Entries
  PROVE  Sound(Read(r, e))
<1>1. CASE e.kind = "user"
  BY <1>1, ReadUserFacts
<1>2. CASE e.kind = "model"
  BY <1>2, ReadModelFacts
<1>3. CASE e.kind = "tool_observation"
  BY <1>3, ReadObservationFacts
<1>4. CASE e.kind = "final"
  BY <1>4, ReadFinalFacts
<1>5. CASE e.kind = "cancelled"
  BY <1>5, ReadCancelledFacts
<1>6. CASE e.kind = "model_failed"
  BY <1>6, ReadFailedFacts
<1> QED BY <1>1, <1>2, <1>3, <1>4, <1>5, <1>6, EntryKinds

LEMMA ReadAllSound ==
  ASSUME NEW r, Sound(r), NEW events \in Seq(Entries)
  PROVE  Sound(ReadAll(r, events))
<1>1. PICK g : Unfolds(r, events, Len(events), g) /\ ReadAll(r, events) = g[Len(events)]
  BY ReadAllUnfolds
<1>2. Len(events) \in Nat /\ \A k \in 1 .. Len(events) : events[k] \in Entries
  OBVIOUS
<1>3. g[0] = r /\ \A k \in 1 .. Len(events) : g[k] = Read(g[k - 1], events[k])
  BY <1>1, <1>2, UnfoldsAt
<1> DEFINE T == {k \in 0 .. Len(events) : ~ Sound(g[k])}
<1> SUFFICES ASSUME T # {} PROVE FALSE
  <2>1. Len(events) \in 0 .. Len(events)
    BY <1>2
  <2> QED BY <2>1, <1>1
<1>4. PICK k \in T : \A y \in T : k <= y
  <2> HIDE DEF T
  <2>1. T \subseteq Nat
    BY DEF T
  <2> QED BY <2>1, LeastElement
<1>5. k \in 1 .. Len(events) /\ k - 1 \in 0 .. Len(events)
  BY <1>3, <1>4
<1>6. Sound(g[k - 1])
  <2>1. k - 1 \notin T
    <3> HIDE DEF T
    <3> QED BY <1>4, <1>5
  <2> QED BY <2>1, <1>5
<1>7. Sound(Read(g[k - 1], events[k]))
  BY <1>2, <1>5, <1>6, ReadSound
<1> QED BY <1>3, <1>4, <1>5, <1>7

-----------------------------------------------------------------------------
(* The replays of a step.                                                  *)

\* What a rollout has in memory is what the log says, and the calls without an
\* observation are the rest of its batch.
RolloutOK(x) ==
  /\ run[x].live = Replay(x).messages
  /\ Replay(x).begun
  /\ run[x].phase = "asking" => Replay(x).open = {}
  /\ run[x].phase = "calling" =>
       /\ run[x].done < Len(run[x].live)
       /\ Batch(x).role = "assistant"
       /\ run[x].done < Batch(x).calls
       /\ Replay(x).open = {<<Batch(x).id, i>> : i \in run[x].done + 1 .. Batch(x).calls}

FlagsOK(x) ==
  run[x].byUser => run[x].byTab /\ (run[x].graceful \/ run[x].force)

SessionOK(x) ==
  /\ \A n \in DOMAIN log[x] : log[x][n].id = <<x, n>>
  /\ Running(x) => FlagsOK(x) /\ RolloutOK(x)

TablesOK ==
  /\ log \in [Sessions -> Seq(Entries)]
  /\ child \in {"none", "fork", "compaction"}
  /\ through \in 0 .. Len(log[Root])
  /\ child = "none" => log[Child] = <<>> /\ ~ Running(Child)
  /\ run \in [Sessions -> Rollouts \cup {Idle}]
  /\ pending \in [Sessions -> BOOLEAN] /\ inherited \in [Sessions -> BOOLEAN]
  /\ handed \in BOOLEAN /\ lost \subseteq Calls /\ breaks \in 0 .. MaxBreaks

RunInv == TablesOK /\ \A x \in Sessions : SessionOK(x)

\* A session has an empty slot or a rollout.
LEMMA RunFacts ==
  ASSUME TablesOK, NEW x \in Sessions
  PROVE  /\ Running(x) => run[x] \in Rollouts
         /\ ~ Running(x) => run[x] = Idle
<1>1. run[x] \in Rollouts \cup {Idle}
  BY DEF TablesOK
<1>2. \A v \in Rollouts : v.phase \in {"asking", "calling"}
  BY DEF Rollouts
<1>3. Idle.phase = "idle"
  BY DEF Idle
<1> QED BY <1>1, <1>2, <1>3 DEF Running

LEMMA LogFacts ==
  ASSUME TablesOK, NEW x \in Sessions
  PROVE  /\ log[x] \in Seq(Entries) /\ Len(log[x]) \in Nat
         /\ DOMAIN log[x] = 1 .. Len(log[x])
         /\ NextSeq(x) \in Nat \ {0} /\ Id(x) = <<x, Len(log[x]) + 1>>
         /\ Id(x) \in Ids /\ <<x, Len(log[x]) + 2>> \in Ids
<1>1. log[x] \in Seq(Entries) /\ Len(log[x]) \in Nat /\ DOMAIN log[x] = 1 .. Len(log[x])
  BY DEF TablesOK
<1> QED BY <1>1 DEF NextSeq, Id, Ids

LEMMA AppendFacts ==
  ASSUME NEW S, NEW s \in Seq(S), NEW e \in S
  PROVE  /\ Append(s, e) \in Seq(S) /\ Len(Append(s, e)) = Len(s) + 1 /\ Len(s) \in Nat
         /\ \A k \in 1 .. Len(s) : Append(s, e)[k] = s[k]
         /\ Append(s, e)[Len(s) + 1] = e
OBVIOUS

LEMMA SubSeqFacts ==
  ASSUME NEW S, NEW s \in Seq(S), NEW n \in 0 .. Len(s)
  PROVE  /\ SubSeq(s, 1, n) \in Seq(S) /\ Len(SubSeq(s, 1, n)) = n
         /\ \A k \in 1 .. n : SubSeq(s, 1, n)[k] = s[k]
<1>1. Len(s) \in Nat /\ \A k \in 1 .. n : s[k] \in S
  OBVIOUS
<1> QED BY <1>1

\* Sequences that begin alike.
LEMMA SubSeqSame ==
  ASSUME NEW S, NEW s \in Seq(S), NEW t \in Seq(S), NEW n \in 0 .. Len(s), n <= Len(t),
         \A k \in 1 .. n : t[k] = s[k]
  PROVE  SubSeq(t, 1, n) = SubSeq(s, 1, n)
<1>1. n \in 0 .. Len(t)
  OBVIOUS
<1>2. PICK a : a = SubSeq(s, 1, n)
  OBVIOUS
<1>3. PICK b : b = SubSeq(t, 1, n)
  OBVIOUS
<1>4. a \in Seq(S) /\ Len(a) = n /\ \A k \in 1 .. n : a[k] = s[k]
  BY <1>2, SubSeqFacts
<1>5. b \in Seq(S) /\ Len(b) = n /\ \A k \in 1 .. n : b[k] = t[k]
  BY <1>1, <1>3, SubSeqFacts
<1>6. a = b
  BY <1>4, <1>5, SeqEqual
<1> QED BY <1>2, <1>3, <1>6

LEMMA ContextSound ==
  ASSUME TablesOK, NEW x \in Sessions
  PROVE  Sound(Context(x))
<1>1. PICK s : s = SubSeq(log[Root], 1, through)
  OBVIOUS
<1>2. s \in Seq(Entries)
  <2>1. Root \in Sessions
    BY DEF Sessions
  <2>2. log[Root] \in Seq(Entries) /\ through \in 0 .. Len(log[Root])
    BY <2>1 DEF TablesOK
  <2> QED BY <1>1, <2>2, SubSeqFacts
<1>3. Sound(ReadAll(Blank, s))
  BY <1>2, BlankSound, ReadAllSound
<1>4. Sound(Inherit(ReadAll(Blank, s)))
  BY <1>3, InheritFacts
<1> QED BY <1>1, <1>4, BlankSound DEF Context

LEMMA ReplaySound ==
  ASSUME TablesOK, NEW x \in Sessions
  PROVE  Sound(Replay(x))
BY ContextSound, LogFacts, ReadAllSound DEF Replay

\* A log that grows leaves the context of the sessions as it is, and the replay
\* of the other one.
LEMMA GrowFacts ==
  ASSUME TablesOK, NEW x \in Sessions, NEW s \in Seq(Entries),
         Len(log[x]) <= Len(s), \A k \in 1 .. Len(log[x]) : s[k] = log[x][k],
         log' = [log EXCEPT ![x] = s], UNCHANGED <<child, through>>
  PROVE  /\ log' \in [Sessions -> Seq(Entries)] /\ log'[x] = s
         /\ \A y \in Sessions : Context(y)' = Context(y)
         /\ \A y \in Sessions : y # x => log'[y] = log[y] /\ Replay(y)' = Replay(y)
         /\ Replay(x)' = ReadAll(Context(x), s)
<1>1. log \in [Sessions -> Seq(Entries)] /\ Root \in Sessions /\ Child \in Sessions
  BY DEF TablesOK, Sessions
<1>2. /\ log' \in [Sessions -> Seq(Entries)] /\ log'[x] = s
      /\ \A y \in Sessions : y # x => log'[y] = log[y]
  BY <1>1
<1>3. SubSeq(log'[Root], 1, through) = SubSeq(log[Root], 1, through)
  <2>1. CASE x = Root
    <3>1. log[Root] \in Seq(Entries) /\ through \in 0 .. Len(log[Root])
      BY <1>1 DEF TablesOK
    <3>2. /\ Len(log[Root]) \in Nat /\ Len(s) \in Nat /\ through \in Nat /\ through <= Len(s)
          /\ \A k \in 1 .. through : s[k] = log[Root][k]
      BY <3>1, <2>1
    <3> QED BY <3>1, <3>2, <2>1, <1>2, SubSeqSame
  <2>2. CASE x # Root
    BY <2>2, <1>1, <1>2
  <2> QED BY <2>1, <2>2
<1>4. \A y \in Sessions : Context(y)' = Context(y)
  <2>1. child' = child /\ through' = through
    OBVIOUS
  <2>2. SubSeq(log'[Root], 1, through') = SubSeq(log[Root], 1, through)
    BY <1>3, <2>1
  <2>3. ReadAll(Blank, SubSeq(log'[Root], 1, through'))
          = ReadAll(Blank, SubSeq(log[Root], 1, through))
    BY <2>2
  <2> QED BY <2>1, <2>3 DEF Context
<1> QED BY <1>2, <1>4 DEF Replay

\* One event more, or two.
LEMMA GrowByOne ==
  ASSUME TablesOK, NEW x \in Sessions, NEW e \in Entries
  PROVE  ReadAll(Context(x), Append(log[x], e)) = Read(Replay(x), e)
BY LogFacts, ReadAllAppend DEF Replay

LEMMA GrowByTwo ==
  ASSUME TablesOK, NEW x \in Sessions, NEW d \in Entries, NEW e \in Entries
  PROVE  ReadAll(Context(x), Append(Append(log[x], d), e)) = Read(Read(Replay(x), d), e)
<1>1. PICK t : t = Append(log[x], d)
  OBVIOUS
<1>2. log[x] \in Seq(Entries)
  BY LogFacts
<1>3. t \in Seq(Entries)
  BY <1>1, <1>2, AppendFacts
<1>4. ReadAll(Context(x), Append(t, e)) = Read(ReadAll(Context(x), t), e)
  BY <1>3, ReadAllAppend
<1>5. ReadAll(Context(x), t) = Read(Replay(x), d)
  BY <1>1, GrowByOne
<1> QED BY <1>1, <1>4, <1>5

LEMMA ReplaySame ==
  ASSUME UNCHANGED <<log, child, through>>, NEW x \in Sessions
  PROVE  Replay(x)' = Replay(x)
BY DEF Replay, Context

\* A step of one session.
LEMMA SessionStep ==
  ASSUME RunInv, NEW x \in Sessions, child = "none" => x # Child,
         NEW s \in Seq(Entries), NEW v \in Rollouts \cup {Idle},
         Len(log[x]) <= Len(s), \A k \in 1 .. Len(log[x]) : s[k] = log[x][k],
         \A k \in Len(log[x]) + 1 .. Len(s) : s[k].id = <<x, k>>,
         log' = [log EXCEPT ![x] = s], run' = [run EXCEPT ![x] = v],
         UNCHANGED <<child, through>>,
         pending' \in [Sessions -> BOOLEAN], inherited' \in [Sessions -> BOOLEAN],
         handed' \in BOOLEAN, lost' \subseteq Calls, breaks' \in 0 .. MaxBreaks,
         Running(x)' => FlagsOK(x)' /\ RolloutOK(x)'
  PROVE  RunInv'
<1>1. TablesOK
  BY DEF RunInv
<1>2. /\ log' \in [Sessions -> Seq(Entries)] /\ log'[x] = s
      /\ \A y \in Sessions : y # x => log'[y] = log[y] /\ Replay(y)' = Replay(y)
  BY <1>1, GrowFacts
<1>3. /\ run' \in [Sessions -> Rollouts \cup {Idle}] /\ run'[x] = v
      /\ \A y \in Sessions : y # x => run'[y] = run[y]
  BY <1>1 DEF TablesOK
<1>4. Root \in Sessions /\ Child \in Sessions /\ Root # Child
  BY TranscriptsAssumption DEF Sessions
<1>5. TablesOK'
  <2>1. through' \in 0 .. Len(log'[Root])
    <3>1. through \in 0 .. Len(log[Root]) /\ Len(log[Root]) \in Nat
      BY <1>1, <1>4, LogFacts DEF TablesOK
    <3>2. Len(s) \in Nat
      OBVIOUS
    <3>3. Len(log[Root]) <= Len(log'[Root]) /\ Len(log'[Root]) \in Nat
      <4>1. CASE x = Root
        BY <4>1, <1>2, <3>2
      <4>2. CASE x # Root
        BY <4>2, <1>2, <1>4, <3>1
      <4> QED BY <4>1, <4>2
    <3> QED BY <3>1, <3>3
  <2>2. child' = "none" => log'[Child] = <<>> /\ ~ Running(Child)'
    BY <1>1, <1>2, <1>3, <1>4 DEF TablesOK, Running
  <2>3. child' \in {"none", "fork", "compaction"}
    BY <1>1 DEF TablesOK
  <2> QED BY <1>2, <1>3, <2>1, <2>2, <2>3 DEF TablesOK
<1>6. SessionOK(x)'
  <2>1. Len(log[x]) \in Nat /\ Len(s) \in Nat /\ DOMAIN s = 1 .. Len(s)
        /\ DOMAIN log[x] = 1 .. Len(log[x])
    BY <1>1, LogFacts
  <2>2. \A n \in 1 .. Len(log[x]) : log[x][n].id = <<x, n>>
    BY <2>1 DEF RunInv, SessionOK
  <2>3. \A n \in DOMAIN s : s[n].id = <<x, n>>
    BY <2>1, <2>2
  <2> QED BY <1>2, <2>3 DEF SessionOK
<1>7. ASSUME NEW y \in Sessions, y # x
      PROVE  SessionOK(y)'
  <2>1. SessionOK(y)
    BY DEF RunInv
  <2>2. log'[y] = log[y] /\ Replay(y)' = Replay(y) /\ run'[y] = run[y]
    BY <1>2, <1>3, <1>7
  <2>3. Running(y)' = Running(y) /\ Batch(y)' = Batch(y)
    BY <2>2 DEF Running, Batch
  <2>4. FlagsOK(y) => FlagsOK(y)'
    BY <2>2 DEF FlagsOK
  <2>5. RolloutOK(y) => RolloutOK(y)'
    BY <2>2, <2>3 DEF RolloutOK
  <2> QED BY <2>1, <2>2, <2>3, <2>4, <2>5 DEF SessionOK
<1> QED BY <1>5, <1>6, <1>7 DEF RunInv

-----------------------------------------------------------------------------
(* Every step keeps what is said of the rollouts.                          *)

LEMMA InitRun == Init => RunInv
<1> SUFFICES ASSUME Init PROVE RunInv
  OBVIOUS
<1>1. <<>> \in Seq(Entries) /\ Len(<<>>) = 0 /\ DOMAIN <<>> = {}
  OBVIOUS
<1>2. Root \in Sessions /\ Child \in Sessions
  BY DEF Sessions
<1>3. \A x \in Sessions : log[x] = <<>> /\ run[x] = Idle /\ ~ Running(x)
  BY DEF Init, Running, Idle
<1>4. log \in [Sessions -> Seq(Entries)] /\ run \in [Sessions -> Rollouts \cup {Idle}]
  BY <1>1 DEF Init
<1>5. TablesOK
  <2>1. /\ child = "none" /\ log[Child] = <<>> /\ ~ Running(Child)
        /\ through = 0 /\ Len(log[Root]) = 0
    BY <1>1, <1>2, <1>3 DEF Init
  <2>2. pending \in [Sessions -> BOOLEAN] /\ inherited \in [Sessions -> BOOLEAN]
    BY DEF Init
  <2>3. handed \in BOOLEAN /\ lost \subseteq Calls /\ breaks \in 0 .. MaxBreaks
    <3>1. handed = FALSE /\ lost = {} /\ breaks = 0
      BY DEF Init
    <3>2. {} \subseteq Calls
      OBVIOUS
    <3>3. 0 \in 0 .. MaxBreaks
      BY TranscriptsAssumption
    <3> QED BY <3>1, <3>2, <3>3
  <2> QED BY <1>4, <2>1, <2>2, <2>3 DEF TablesOK
<1> QED BY <1>1, <1>3, <1>5 DEF RunInv, SessionOK

\* A rollout under way.
LEMMA ActiveFacts ==
  ASSUME RunInv, NEW x \in Sessions, Running(x)
  PROVE  /\ TablesOK /\ (child = "none" => x # Child)
         /\ run[x] \in Rollouts /\ FlagsOK(x) /\ RolloutOK(x)
         /\ Sound(Replay(x)) /\ run[x].live \in Seq(Messages)
<1>1. TablesOK
  BY DEF RunInv
<1>2. run[x] \in Rollouts
  BY <1>1, RunFacts
<1>3. run[x].live \in Seq(Messages)
  BY <1>2 DEF Rollouts
<1>4. child = "none" => x # Child
  BY <1>1 DEF TablesOK
<1>5. FlagsOK(x) /\ RolloutOK(x)
  BY DEF RunInv, SessionOK
<1> QED BY <1>1, <1>2, <1>3, <1>4, <1>5, ReplaySound

\* The batch whose observations are appended.
LEMMA BatchFacts ==
  ASSUME RunInv, NEW x \in Sessions, Running(x), run[x].phase = "calling"
  PROVE  /\ Batch(x).id \in Ids /\ Batch(x).calls \in Nat /\ run[x].done \in Nat
         /\ Batch(x).calls <= MaxCalls
         /\ run[x].done + 1 \in 1 .. Batch(x).calls
         /\ <<Batch(x).id, run[x].done + 1>> \in Calls
         /\ <<Batch(x).id, run[x].done + 1>> \in Replay(x).open
<1>1. run[x] \in Rollouts /\ RolloutOK(x) /\ run[x].live \in Seq(Messages)
  BY ActiveFacts
<1>2. run[x].done \in Nat
  BY <1>1, TranscriptsAssumption DEF Rollouts
<1>3. /\ run[x].done < Len(run[x].live) /\ Batch(x).role = "assistant"
      /\ run[x].done < Batch(x).calls
      /\ Replay(x).open = {<<Batch(x).id, i>> : i \in run[x].done + 1 .. Batch(x).calls}
  BY <1>1 DEF RolloutOK
<1>4. Batch(x) \in Messages
  <2>1. Len(run[x].live) - run[x].done \in 1 .. Len(run[x].live)
    BY <1>1, <1>2, <1>3
  <2> QED BY <1>1, <2>1 DEF Batch
<1>5. Batch(x).id \in Ids /\ Batch(x).calls \in 0 .. MaxCalls
  BY <1>3, <1>4 DEF Messages
<1>6. run[x].done + 1 \in 1 .. Batch(x).calls /\ run[x].done + 1 \in 1 .. MaxCalls
  BY <1>2, <1>3, <1>5, TranscriptsAssumption
<1>7. <<Batch(x).id, run[x].done + 1>> \in Calls
  BY <1>5, <1>6 DEF Calls
<1>8. run[x].done + 1 \in run[x].done + 1 .. Batch(x).calls
  BY <1>6, <1>2
<1>9. Batch(x).calls \in Nat /\ Batch(x).calls <= MaxCalls
  BY <1>5, TranscriptsAssumption
<1> QED BY <1>2, <1>3, <1>5, <1>6, <1>7, <1>8, <1>9

\* A log grows by no event.
LEMMA GrowByNone ==
  ASSUME TablesOK, NEW x \in Sessions, NEW s, s = log[x]
  PROVE  /\ s \in Seq(Entries) /\ Len(log[x]) <= Len(s)
         /\ \A k \in 1 .. Len(log[x]) : s[k] = log[x][k]
         /\ \A k \in Len(log[x]) + 1 .. Len(s) : s[k].id = <<x, k>>
<1>1. s \in Seq(Entries) /\ Len(s) \in Nat
  <2>1. log[x] \in Seq(Entries) /\ Len(log[x]) \in Nat
    BY LogFacts
  <2> QED BY <2>1
<1>2. \A k \in Len(s) + 1 .. Len(s) : FALSE
  BY <1>1
<1>3. Len(log[x]) = Len(s) /\ Len(s) <= Len(s)
  BY <1>1
<1>4. Len(log[x]) <= Len(s)
  BY <1>3
<1>5. \A k \in 1 .. Len(log[x]) : s[k] = log[x][k]
  OBVIOUS
<1>6. \A k \in Len(log[x]) + 1 .. Len(s) : s[k].id = <<x, k>>
  BY <1>2, <1>3
<1> QED BY <1>1, <1>4, <1>5, <1>6

\* A step that leaves the logs and ends a rollout or changes its flags.
LEMMA SameLog ==
  ASSUME RunInv, NEW x \in Sessions, Running(x), NEW v \in Rollouts \cup {Idle},
         run' = [run EXCEPT ![x] = v],
         UNCHANGED <<log, child, through>>,
         pending' \in [Sessions -> BOOLEAN], inherited' \in [Sessions -> BOOLEAN],
         handed' \in BOOLEAN, lost' \subseteq Calls, breaks' \in 0 .. MaxBreaks,
         Running(x)' => FlagsOK(x)' /\ RolloutOK(x)'
  PROVE  RunInv'
<1>1. TablesOK /\ (child = "none" => x # Child)
  BY ActiveFacts
<1>2. PICK s : s = log[x]
  OBVIOUS
<1>3. /\ s \in Seq(Entries) /\ Len(log[x]) <= Len(s)
      /\ \A k \in 1 .. Len(log[x]) : s[k] = log[x][k]
      /\ \A k \in Len(log[x]) + 1 .. Len(s) : s[k].id = <<x, k>>
  BY <1>1, <1>2, GrowByNone
<1>4. log' = [log EXCEPT ![x] = s]
  <2>1. log \in [Sessions -> Seq(Entries)]
    BY <1>1 DEF TablesOK
  <2> QED BY <2>1, <1>2
<1>5. UNCHANGED <<child, through>>
  OBVIOUS
<1> QED BY <1>1, <1>3, <1>4, <1>5, SessionStep

\* Other flags of the same rollout.
LEMMA FlagsChange ==
  ASSUME RunInv, NEW x \in Sessions, Running(x), NEW v \in Rollouts,
         v.phase = run[x].phase, v.done = run[x].done, v.live = run[x].live,
         v.byUser => v.byTab /\ (v.graceful \/ v.force),
         run' = [run EXCEPT ![x] = v],
         UNCHANGED <<log, context, handle, lost, breaks>>
  PROVE  RunInv'
<1>1. TablesOK /\ RolloutOK(x) /\ run[x] \in Rollouts
  BY ActiveFacts
<1>2. run'[x] = v
  BY <1>1 DEF TablesOK
<1>3. UNCHANGED <<log, child, through>>
  BY DEF context
<1>4. FlagsOK(x)'
  BY <1>2 DEF FlagsOK
<1>5. Replay(x)' = Replay(x) /\ Batch(x)' = Batch(x)
  BY <1>2, <1>3, ReplaySame DEF Batch
<1>6. RolloutOK(x)'
  BY <1>1, <1>2, <1>5 DEF RolloutOK
<1>7. /\ pending' \in [Sessions -> BOOLEAN] /\ inherited' \in [Sessions -> BOOLEAN]
      /\ handed' \in BOOLEAN /\ lost' \subseteq Calls /\ breaks' \in 0 .. MaxBreaks
  BY <1>1 DEF TablesOK, context, handle
<1> QED BY <1>3, <1>4, <1>6, <1>7, SameLog

LEMMA GracefulStopRun ==
  ASSUME RunInv, NEW x \in Sessions, GracefulStop(x)
  PROVE  RunInv'
<1>1. TablesOK
  BY DEF RunInv
<1>2. Running(x)
  <2>1. run[x] # Idle
    BY DEF GracefulStop, Idle
  <2> QED BY <2>1, <1>1, RunFacts
<1>3. run[x] \in Rollouts /\ FlagsOK(x)
  BY <1>2, ActiveFacts
<1> DEFINE v == [run[x] EXCEPT !.graceful = TRUE, !.byUser = TRUE]
<1>4. v \in Rollouts
  BY <1>3 DEF Rollouts
<1>5. /\ v.phase = run[x].phase /\ v.done = run[x].done /\ v.live = run[x].live
      /\ v.byTab = run[x].byTab /\ v.graceful = TRUE
  BY <1>3 DEF Rollouts
<1>6. run' = [run EXCEPT ![x] = v]
  BY DEF GracefulStop
<1>7. run[x].byTab /\ UNCHANGED <<log, context, handle, lost, breaks>>
  BY DEF GracefulStop
<1> HIDE DEF v
<1> QED BY <1>2, <1>4, <1>5, <1>6, <1>7, FlagsChange

LEMMA ForceStopRun ==
  ASSUME RunInv, NEW x \in Sessions, NEW user \in BOOLEAN, ForceStop(x, user)
  PROVE  RunInv'
<1>1. Running(x) /\ (user => run[x].byTab)
  BY DEF ForceStop
<1>2. run[x] \in Rollouts /\ FlagsOK(x)
  BY <1>1, ActiveFacts
<1> DEFINE v == [run[x] EXCEPT !.force = TRUE, !.byUser = @ \/ user]
<1>3. v \in Rollouts
  BY <1>2 DEF Rollouts
<1>4. /\ v.phase = run[x].phase /\ v.done = run[x].done /\ v.live = run[x].live
      /\ v.byTab = run[x].byTab /\ v.force = TRUE /\ v.byUser = (run[x].byUser \/ user)
  BY <1>2 DEF Rollouts
<1>5. v.byUser => v.byTab /\ v.force
  BY <1>1, <1>2, <1>4 DEF FlagsOK
<1>6. run' = [run EXCEPT ![x] = v]
  BY DEF ForceStop
<1>7. UNCHANGED <<log, context, handle, lost, breaks>>
  BY DEF ForceStop
<1> HIDE DEF v
<1> QED BY <1>1, <1>3, <1>4, <1>5, <1>6, <1>7, FlagsChange

\* The replay of a session to whose log an event is appended.
LEMMA AppendedReplay ==
  ASSUME TablesOK, NEW x \in Sessions, NEW e \in Entries,
         log' = [log EXCEPT ![x] = Append(log[x], e)], UNCHANGED <<child, through>>
  PROVE  /\ log'[x] = Append(log[x], e) /\ Replay(x)' = Read(Replay(x), e)
         /\ \A y \in Sessions : y # x => log'[y] = log[y] /\ Replay(y)' = Replay(y)
<1>1. PICK s : s = Append(log[x], e)
  OBVIOUS
<1>2. /\ s \in Seq(Entries) /\ Len(s) = Len(log[x]) + 1 /\ Len(log[x]) \in Nat
      /\ \A k \in 1 .. Len(log[x]) : s[k] = log[x][k]
  <2>1. log[x] \in Seq(Entries)
    BY LogFacts
  <2> QED BY <2>1, <1>1, AppendFacts
<1>3. Len(log[x]) <= Len(s)
  BY <1>2
<1>4. log' = [log EXCEPT ![x] = s]
  BY <1>1
<1>5. /\ log'[x] = s /\ Replay(x)' = ReadAll(Context(x), s)
      /\ \A y \in Sessions : y # x => log'[y] = log[y] /\ Replay(y)' = Replay(y)
  BY <1>2, <1>3, <1>4, GrowFacts
<1> QED BY <1>1, <1>5, GrowByOne

LEMMA AppendStep ==
  ASSUME RunInv, NEW x \in Sessions, child = "none" => x # Child,
         NEW e \in Entries, e.id = Id(x), NEW v \in Rollouts \cup {Idle},
         log' = [log EXCEPT ![x] = Append(log[x], e)], run' = [run EXCEPT ![x] = v],
         UNCHANGED <<child, through>>,
         pending' \in [Sessions -> BOOLEAN], inherited' \in [Sessions -> BOOLEAN],
         handed' \in BOOLEAN, lost' \subseteq Calls, breaks' \in 0 .. MaxBreaks,
         Running(x)' => FlagsOK(x)' /\ RolloutOK(x)'
  PROVE  RunInv'
<1>1. TablesOK
  BY DEF RunInv
<1>2. PICK s : s = Append(log[x], e)
  OBVIOUS
<1>3. /\ s \in Seq(Entries) /\ Len(s) = Len(log[x]) + 1 /\ Len(log[x]) \in Nat
      /\ \A k \in 1 .. Len(log[x]) : s[k] = log[x][k]
      /\ s[Len(log[x]) + 1] = e
  <2>1. log[x] \in Seq(Entries)
    BY <1>1, LogFacts
  <2> QED BY <2>1, <1>2, AppendFacts
<1>4. Len(log[x]) <= Len(s)
  BY <1>3
<1>5. e.id = <<x, Len(log[x]) + 1>>
  BY <1>1, LogFacts
<1>6. \A k \in Len(log[x]) + 1 .. Len(s) : s[k].id = <<x, k>>
  <2>1. \A k \in Len(log[x]) + 1 .. Len(s) : k = Len(log[x]) + 1
    BY <1>3
  <2> QED BY <2>1, <1>3, <1>5
<1>7. log' = [log EXCEPT ![x] = s]
  BY <1>2
<1> QED BY <1>3, <1>4, <1>6, <1>7, SessionStep

LEMMA BegunFacts ==
  ASSUME NEW byTab \in BOOLEAN, NEW live \in Seq(Messages)
  PROVE  /\ Begun(byTab, live) \in Rollouts
         /\ Begun(byTab, live).phase = "asking" /\ Begun(byTab, live).live = live
         /\ Begun(byTab, live).byUser = FALSE
<1> DEFINE Slots == [phase : {"idle", "asking", "calling"}, byTab : BOOLEAN,
                     done : 0 .. MaxCalls, live : Seq(Messages),
                     graceful : BOOLEAN, force : BOOLEAN, byUser : BOOLEAN]
<1>1. Idle \in Slots /\ Idle.byUser = FALSE
  <2>1. 0 \in 0 .. MaxCalls /\ <<>> \in Seq(Messages)
    BY TranscriptsAssumption
  <2> QED BY <2>1 DEF Idle
<1>2. Begun(byTab, live) \in Slots
  BY <1>1 DEF Begun
<1>3. /\ Begun(byTab, live).phase = "asking" /\ Begun(byTab, live).live = live
      /\ Begun(byTab, live).byUser = FALSE
  BY <1>1 DEF Begun
<1> QED BY <1>2, <1>3 DEF Rollouts

\* The handle begins with the messages of the replay and the prompt, whose
\* header is what a replay would give it.
LEMMA PromptRun ==
  ASSUME RunInv, NEW x \in Sessions, NEW external \in BOOLEAN, Prompt(x, external)
  PROVE  RunInv'
<1> DEFINE r == Replay(x)
           header == external /\ (r.pending \/ inherited[x])
           e == [id |-> Id(x), kind |-> "user", external |-> external, header |-> header]
           m == [role |-> "user", id |-> Id(x), header |-> header]
           v == Begun(external /\ InTab(x), Append(r.messages, m))
<1>1. TablesOK
  BY DEF RunInv
<1>2. child = "none" => x # Child
  BY DEF Prompt, MayPrompt
<1>3. Sound(r) /\ r.pending \in BOOLEAN /\ inherited[x] \in BOOLEAN /\ Id(x) \in Ids
  BY <1>1, ReplaySound, LogFacts DEF Sound, States, TablesOK
<1>4. header \in BOOLEAN
  BY <1>3
<1>5. /\ log' = [log EXCEPT ![x] = Append(log[x], e)]
      /\ run' = [run EXCEPT ![x] = v]
      /\ pending' = [pending EXCEPT ![x] = @ /\ ~ external]
      /\ inherited' = [inherited EXCEPT ![x] = @ /\ ~ external]
      /\ UNCHANGED <<context, lost, breaks>>
  BY DEF Prompt, Refreshed
<1>6. e \in Entries /\ e.id = Id(x) /\ e.kind = "user" /\ e.external = external
      /\ e.header = header
  <2> HIDE DEF header
  <2> QED BY <1>3, <1>4 DEF Entries
<1>7. [role |-> "user", id |-> e.id, header |-> e.header \/ (r.pending /\ e.external)] = m
  <2>1. (e.header \/ (r.pending /\ e.external)) = header
    BY <1>3, <1>6
  <2> HIDE DEF e, header
  <2> QED BY <1>6, <2>1
<1>8. m \in Messages
  <2> HIDE DEF header
  <2> QED BY <1>3, <1>4 DEF Messages
<1>9. Append(r.messages, m) \in Seq(Messages)
  <2> HIDE DEF m, r
  <2> QED BY <1>3, <1>8, AppendFacts DEF Sound, States
<1> HIDE DEF m, e, header, r
<1>10. /\ v \in Rollouts /\ v.phase = "asking" /\ v.live = Append(r.messages, m)
       /\ v.byUser = FALSE
  <2>1. (external /\ InTab(x)) \in BOOLEAN
    BY DEF InTab
  <2> QED BY <2>1, <1>9, BegunFacts
<1> HIDE DEF v
<1>11. UNCHANGED <<child, through>> /\ run'[x] = v
  BY <1>1, <1>5 DEF context, TablesOK
<1>12. Replay(x)' = Read(r, e)
  BY <1>1, <1>5, <1>6, <1>11, AppendedReplay DEF r
<1>13. /\ Replay(x)'.messages = Append(r.messages, m)
       /\ Replay(x)'.begun = TRUE /\ Replay(x)'.open = {}
  BY <1>3, <1>6, <1>7, <1>12, ReadUserFacts
<1>14. FlagsOK(x)' /\ RolloutOK(x)'
  BY <1>10, <1>11, <1>13 DEF FlagsOK, RolloutOK
<1>15. /\ pending' \in [Sessions -> BOOLEAN] /\ inherited' \in [Sessions -> BOOLEAN]
       /\ handed' \in BOOLEAN /\ lost' \subseteq Calls /\ breaks' \in 0 .. MaxBreaks
  BY <1>1, <1>5 DEF TablesOK, context
<1> QED BY <1>2, <1>5, <1>6, <1>10, <1>11, <1>14, <1>15, AppendStep

\* A rollout that ends leaves nothing to be shown of it.
LEMMA EndStep ==
  ASSUME RunInv, NEW x \in Sessions, Running(x), NEW s \in Seq(Entries),
         Len(log[x]) <= Len(s), \A k \in 1 .. Len(log[x]) : s[k] = log[x][k],
         \A k \in Len(log[x]) + 1 .. Len(s) : s[k].id = <<x, k>>,
         log' = [log EXCEPT ![x] = s], run' = [run EXCEPT ![x] = Idle],
         UNCHANGED <<child, through>>,
         pending' \in [Sessions -> BOOLEAN], inherited' \in [Sessions -> BOOLEAN],
         handed' \in BOOLEAN, lost' \subseteq Calls, breaks' \in 0 .. MaxBreaks
  PROVE  RunInv'
<1>1. TablesOK /\ (child = "none" => x # Child)
  BY ActiveFacts
<1>2. ~ Running(x)'
  <2>1. run'[x] = Idle
    BY <1>1 DEF TablesOK
  <2> QED BY <2>1 DEF Running, Idle
<1> QED BY <1>1, <1>2, SessionStep

LEMMA EndCancelledRun ==
  ASSUME RunInv, NEW x \in Sessions, Running(x), NEW events \in Seq(Entries),
         Len(log[x]) <= Len(events), \A k \in 1 .. Len(log[x]) : events[k] = log[x][k],
         \A k \in Len(log[x]) + 1 .. Len(events) : events[k].id = <<x, k>>,
         NEW user \in BOOLEAN, EndCancelled(x, events, user)
  PROVE  RunInv'
<1> DEFINE e == [id |-> <<x, Len(events) + 1>>, kind |-> "cancelled", user |-> user]
<1>1. TablesOK
  BY DEF RunInv
<1>2. Len(events) \in Nat /\ Len(log[x]) \in Nat
  BY <1>1, LogFacts
<1>3. e \in Entries /\ e.id = <<x, Len(events) + 1>>
  <2>1. <<x, Len(events) + 1>> \in Ids
    BY <1>2 DEF Ids
  <2> QED BY <2>1 DEF Entries
<1>4. log' = [log EXCEPT ![x] = Append(events, e)]
  BY DEF EndCancelled
<1> HIDE DEF e
<1>5. PICK s : s = Append(events, e)
  OBVIOUS
<1>6. /\ s \in Seq(Entries) /\ Len(s) = Len(events) + 1
      /\ \A k \in 1 .. Len(events) : s[k] = events[k]
      /\ s[Len(events) + 1] = e
  BY <1>3, <1>5, AppendFacts
<1>7. Len(log[x]) <= Len(s) /\ \A k \in 1 .. Len(log[x]) : s[k] = log[x][k]
  BY <1>2, <1>6
<1>8. \A k \in Len(log[x]) + 1 .. Len(s) : s[k].id = <<x, k>>
  <2> SUFFICES ASSUME NEW k \in Len(log[x]) + 1 .. Len(s) PROVE s[k].id = <<x, k>>
    OBVIOUS
  <2>1. CASE k = Len(events) + 1
    BY <2>1, <1>3, <1>6
  <2>2. CASE k # Len(events) + 1
    <3>1. k \in Len(log[x]) + 1 .. Len(events) /\ k \in 1 .. Len(events)
      BY <2>2, <1>2, <1>6
    <3> QED BY <3>1, <1>6
  <2> QED BY <2>1, <2>2
<1>9. log' = [log EXCEPT ![x] = s] /\ run' = [run EXCEPT ![x] = Idle]
  BY <1>4, <1>5 DEF EndCancelled
<1>10. UNCHANGED <<context, inherited, lost, breaks>>
  BY DEF EndCancelled
<1>11. UNCHANGED <<child, through>>
  BY <1>10 DEF context
<1>12. pending' \in [Sessions -> BOOLEAN]
  <2>1. log'[x] = s
    BY <1>9, <1>1 DEF TablesOK
  <2>2. Sound(ReadAll(Context(x), s))
    BY <1>1, <1>6, ContextSound, ReadAllSound
  <2>3. ReadAll(Context(x), log'[x]).pending \in BOOLEAN
    BY <2>1, <2>2 DEF Sound, States
  <2>4. pending' = [pending EXCEPT ![x] =
          IF run[x].byTab THEN ReadAll(Context(x), log'[x]).pending ELSE @]
    BY DEF EndCancelled
  <2>5. pending \in [Sessions -> BOOLEAN]
    BY <1>1 DEF TablesOK
  <2> QED BY <2>3, <2>4, <2>5
<1>13. /\ inherited' \in [Sessions -> BOOLEAN]
       /\ handed' \in BOOLEAN /\ lost' \subseteq Calls /\ breaks' \in 0 .. MaxBreaks
  BY <1>1, <1>10 DEF TablesOK, context
<1> QED BY <1>6, <1>7, <1>8, <1>9, <1>11, <1>12, <1>13, EndStep

LEMMA StoppedRun ==
  ASSUME RunInv, NEW x \in Sessions, Stopped(x)
  PROVE  RunInv'
<1>1. TablesOK
  BY DEF RunInv
<1>2. Running(x)
  <2>1. run[x] # Idle
    BY DEF Stopped, Idle
  <2> QED BY <2>1, <1>1, RunFacts
<1>3. run[x].byUser \in BOOLEAN
  BY <1>2, ActiveFacts DEF Rollouts
<1>4. PICK s : s = log[x]
  OBVIOUS
<1>5. /\ s \in Seq(Entries) /\ Len(log[x]) <= Len(s)
      /\ \A k \in 1 .. Len(log[x]) : s[k] = log[x][k]
      /\ \A k \in Len(log[x]) + 1 .. Len(s) : s[k].id = <<x, k>>
  BY <1>1, <1>4, GrowByNone
<1>6. EndCancelled(x, s, run[x].byUser)
  BY <1>4 DEF Stopped
<1> QED BY <1>2, <1>3, <1>5, <1>6, EndCancelledRun

LEMMA ToolCancelledRun ==
  ASSUME RunInv, NEW x \in Sessions, ToolCancelled(x)
  PROVE  RunInv'
<1>1. TablesOK
  BY DEF RunInv
<1>2. Running(x)
  BY DEF ToolCancelled, Calling, Running
<1>3. PICK s : s = log[x]
  OBVIOUS
<1>4. /\ s \in Seq(Entries) /\ Len(log[x]) <= Len(s)
      /\ \A k \in 1 .. Len(log[x]) : s[k] = log[x][k]
      /\ \A k \in Len(log[x]) + 1 .. Len(s) : s[k].id = <<x, k>>
  BY <1>1, <1>3, GrowByNone
<1>5. EndCancelled(x, s, FALSE)
  BY <1>3 DEF ToolCancelled
<1> QED BY <1>2, <1>4, <1>5, EndCancelledRun

\* The two events of an answer.
LEMMA AnswerLog ==
  ASSUME RunInv, NEW x \in Sessions, Answer(x)
  PROVE  \E d \in Entries, e \in Entries :
           /\ d = [id |-> Id(x), kind |-> "model", calls |-> 0]
           /\ e = [id |-> <<x, Len(log[x]) + 2>>, kind |-> "final"]
           /\ log' = [log EXCEPT ![x] = Append(Append(log[x], d), e)]
<1> DEFINE d == [id |-> Id(x), kind |-> "model", calls |-> 0]
           e == [id |-> <<x, Len(log[x]) + 2>>, kind |-> "final"]
<1>1. TablesOK
  BY DEF RunInv
<1>2. log[x] \in Seq(Entries) /\ Id(x) \in Ids /\ <<x, Len(log[x]) + 2>> \in Ids
  BY <1>1, LogFacts
<1>3. 0 \in 0 .. MaxCalls
  BY TranscriptsAssumption
<1>4. d \in Entries /\ e \in Entries
  BY <1>2, <1>3 DEF Entries
<1>5. log' = [log EXCEPT ![x] = log[x] \o <<d, e>>]
  BY DEF Answer
<1>6. log[x] \o <<d, e>> = Append(Append(log[x], d), e)
  <2> HIDE DEF d, e
  <2>1. PICK a : a = log[x] \o <<d, e>>
    OBVIOUS
  <2>2. PICK b : b = Append(log[x], d)
    OBVIOUS
  <2>3. PICK c : c = Append(b, e)
    OBVIOUS
  <2>4. /\ a \in Seq(Entries) /\ Len(a) = Len(log[x]) + 2 /\ Len(log[x]) \in Nat
        /\ \A k \in 1 .. Len(log[x]) : a[k] = log[x][k]
        /\ a[Len(log[x]) + 1] = d /\ a[Len(log[x]) + 2] = e
    BY <1>2, <1>4, <2>1
  <2>5. /\ b \in Seq(Entries) /\ Len(b) = Len(log[x]) + 1
        /\ \A k \in 1 .. Len(log[x]) : b[k] = log[x][k]
        /\ b[Len(log[x]) + 1] = d
    BY <1>2, <1>4, <2>2, AppendFacts
  <2>6. /\ c \in Seq(Entries) /\ Len(c) = Len(b) + 1
        /\ \A k \in 1 .. Len(b) : c[k] = b[k]
        /\ c[Len(b) + 1] = e
    BY <1>4, <2>3, <2>5, AppendFacts
  <2>7. Len(a) = Len(c)
    BY <2>4, <2>5, <2>6
  <2>8. \A k \in 1 .. Len(a) : a[k] = c[k]
    <3> SUFFICES ASSUME NEW k \in 1 .. Len(a) PROVE a[k] = c[k]
      OBVIOUS
    <3>1. CASE k \in 1 .. Len(log[x])
      BY <3>1, <2>4, <2>5, <2>6
    <3>2. CASE k = Len(log[x]) + 1
      BY <3>2, <2>4, <2>5, <2>6
    <3>3. CASE k = Len(log[x]) + 2
      <4>1. k = Len(b) + 1
        BY <3>3, <2>4, <2>5
      <4> QED BY <4>1, <3>3, <2>4, <2>6
    <3> QED BY <3>1, <3>2, <3>3, <2>4
  <2>9. a = c
    BY <2>4, <2>6, <2>7, <2>8, SeqEqual
  <2> QED BY <2>1, <2>2, <2>3, <2>9
<1>7. log' = [log EXCEPT ![x] = Append(Append(log[x], d), e)]
  BY <1>5, <1>6
<1> QED BY <1>4, <1>7

LEMMA AnswerRun ==
  ASSUME RunInv, NEW x \in Sessions, Answer(x)
  PROVE  RunInv'
<1>1. TablesOK
  BY DEF RunInv
<1>2. Running(x)
  BY DEF Answer, Asking, Running
<1>3. PICK d \in Entries, e \in Entries :
        /\ d = [id |-> Id(x), kind |-> "model", calls |-> 0]
        /\ e = [id |-> <<x, Len(log[x]) + 2>>, kind |-> "final"]
        /\ log' = [log EXCEPT ![x] = Append(Append(log[x], d), e)]
  BY AnswerLog
<1>4. d.id = <<x, Len(log[x]) + 1>> /\ e.id = <<x, Len(log[x]) + 2>>
  BY <1>1, <1>3, LogFacts
<1>5. PICK t : t = Append(log[x], d)
  OBVIOUS
<1>6. PICK s : s = Append(t, e)
  OBVIOUS
<1>7. log[x] \in Seq(Entries)
  BY <1>1, LogFacts
<1>8. /\ t \in Seq(Entries) /\ Len(t) = Len(log[x]) + 1 /\ Len(log[x]) \in Nat
      /\ \A k \in 1 .. Len(log[x]) : t[k] = log[x][k]
      /\ t[Len(log[x]) + 1] = d
  BY <1>5, <1>7, AppendFacts
<1>9. /\ s \in Seq(Entries) /\ Len(s) = Len(t) + 1
      /\ \A k \in 1 .. Len(t) : s[k] = t[k]
      /\ s[Len(t) + 1] = e
  BY <1>6, <1>8, AppendFacts
<1>10. Len(log[x]) <= Len(s) /\ \A k \in 1 .. Len(log[x]) : s[k] = log[x][k]
  BY <1>8, <1>9
<1>11. \A k \in Len(log[x]) + 1 .. Len(s) : s[k].id = <<x, k>>
  <2> SUFFICES ASSUME NEW k \in Len(log[x]) + 1 .. Len(s) PROVE s[k].id = <<x, k>>
    OBVIOUS
  <2>1. CASE k = Len(log[x]) + 1
    <3>1. k \in 1 .. Len(t)
      BY <2>1, <1>8
    <3> QED BY <3>1, <2>1, <1>4, <1>8, <1>9
  <2>2. CASE k = Len(log[x]) + 2
    <3>1. k = Len(t) + 1
      BY <2>2, <1>8
    <3> QED BY <3>1, <2>2, <1>4, <1>9
  <2> QED BY <2>1, <2>2, <1>8, <1>9
<1>12. log' = [log EXCEPT ![x] = s] /\ run' = [run EXCEPT ![x] = Idle]
  BY <1>3, <1>5, <1>6 DEF Answer
<1>13. UNCHANGED <<context, handle, lost, breaks>>
  BY DEF Answer
<1>14. UNCHANGED <<child, through>>
  BY <1>13 DEF context
<1>15. /\ pending' \in [Sessions -> BOOLEAN] /\ inherited' \in [Sessions -> BOOLEAN]
       /\ handed' \in BOOLEAN /\ lost' \subseteq Calls /\ breaks' \in 0 .. MaxBreaks
  BY <1>1, <1>13 DEF TablesOK, context, handle
<1> QED BY <1>2, <1>9, <1>10, <1>11, <1>12, <1>14, <1>15, EndStep

LEMMA ModelFailsRun ==
  ASSUME RunInv, NEW x \in Sessions, ModelFails(x)
  PROVE  RunInv'
<1> DEFINE e == [id |-> Id(x), kind |-> "model_failed"]
<1>1. Running(x)
  BY DEF ModelFails, Asking, Running
<1>2. TablesOK /\ (child = "none" => x # Child)
  BY <1>1, ActiveFacts
<1>3. e \in Entries /\ e.id = Id(x)
  <2>1. Id(x) \in Ids
    BY <1>2, LogFacts
  <2> QED BY <2>1 DEF Entries
<1>4. log' = [log EXCEPT ![x] = Append(log[x], e)] /\ run' = [run EXCEPT ![x] = Idle]
  BY DEF ModelFails
<1>5. UNCHANGED <<context, handle, lost, breaks>>
  BY DEF ModelFails
<1> HIDE DEF e
<1>6. UNCHANGED <<child, through>>
  BY <1>5 DEF context
<1>7. /\ pending' \in [Sessions -> BOOLEAN] /\ inherited' \in [Sessions -> BOOLEAN]
      /\ handed' \in BOOLEAN /\ lost' \subseteq Calls /\ breaks' \in 0 .. MaxBreaks
  BY <1>2, <1>5 DEF TablesOK, context, handle
<1>8. ~ Running(x)'
  <2>1. run'[x] = Idle
    BY <1>2, <1>4 DEF TablesOK
  <2> QED BY <2>1 DEF Running, Idle
<1> QED BY <1>2, <1>3, <1>4, <1>6, <1>7, <1>8, AppendStep

\* The calls that the model asks for are the batch, and all are open.
LEMMA AskForCallsRun ==
  ASSUME RunInv, NEW x \in Sessions, NEW n \in 1 .. MaxCalls, AskForCalls(x, n)
  PROVE  RunInv'
<1> DEFINE e == [id |-> Id(x), kind |-> "model", calls |-> n]
           m == [role |-> "assistant", id |-> Id(x), calls |-> n]
           v == [run[x] EXCEPT !.live = Append(@, m), !.phase = "calling", !.done = 0]
<1>1. Running(x) /\ run[x].phase = "asking"
  BY DEF AskForCalls, Asking, Running
<1>2. /\ TablesOK /\ (child = "none" => x # Child) /\ Sound(Replay(x))
      /\ run[x] \in Rollouts /\ FlagsOK(x) /\ RolloutOK(x) /\ run[x].live \in Seq(Messages)
  BY <1>1, ActiveFacts
<1>3. Id(x) \in Ids /\ n \in 0 .. MaxCalls /\ n \in Nat /\ n # 0
  <2>1. n \in 0 .. MaxCalls /\ n \in Nat /\ n # 0
    BY TranscriptsAssumption
  <2> QED BY <2>1, <1>2, LogFacts
<1>4. e \in Entries /\ e.id = Id(x) /\ e.kind = "model" /\ e.calls = n
  BY <1>3 DEF Entries
<1>5. m \in Messages /\ m.role = "assistant" /\ m.calls = n /\ m.id = Id(x)
  BY <1>3 DEF Messages
<1>6. log' = [log EXCEPT ![x] = Append(log[x], e)]
  BY DEF AskForCalls
<1>7. run' = [run EXCEPT ![x] = v]
  BY <1>2 DEF AskForCalls, TablesOK
<1>8. UNCHANGED <<context, handle, lost, breaks>>
  BY DEF AskForCalls
<1>9. [role |-> "assistant", id |-> e.id, calls |-> e.calls] = m
  OBVIOUS
<1> HIDE DEF e, m
<1>10. /\ Append(run[x].live, m) \in Seq(Messages)
       /\ Len(Append(run[x].live, m)) = Len(run[x].live) + 1
       /\ Len(run[x].live) \in Nat
       /\ Append(run[x].live, m)[Len(run[x].live) + 1] = m
  BY <1>2, <1>5, AppendFacts
<1>11. 0 \in 0 .. MaxCalls
  BY TranscriptsAssumption
<1>12. v \in Rollouts
  BY <1>2, <1>10, <1>11 DEF Rollouts
<1>13. /\ v.phase = "calling" /\ v.done = 0 /\ v.live = Append(run[x].live, m)
       /\ v.byUser = run[x].byUser /\ v.byTab = run[x].byTab
       /\ v.graceful = run[x].graceful /\ v.force = run[x].force
  BY <1>2 DEF Rollouts
<1> HIDE DEF v
<1>14. UNCHANGED <<child, through>> /\ run'[x] = v
  BY <1>2, <1>7, <1>8 DEF context, TablesOK
<1>15. Replay(x)' = Read(Replay(x), e)
  BY <1>2, <1>4, <1>6, <1>14, AppendedReplay
<1>16. /\ Replay(x)'.messages = Append(Replay(x).messages, m)
       /\ Replay(x)'.begun = Replay(x).begun /\ Replay(x)'.open = CallIds(e)
  BY <1>2, <1>4, <1>9, <1>15, ReadModelFacts
<1>17. FlagsOK(x)'
  BY <1>2, <1>13, <1>14 DEF FlagsOK
<1>18. Batch(x)' = m
  <2>1. Len(v.live) - v.done = Len(run[x].live) + 1
    BY <1>10, <1>13
  <2>2. v.live[Len(v.live) - v.done] = m
    BY <2>1, <1>10, <1>13
  <2> QED BY <2>2, <1>14 DEF Batch
<1>19. CallIds(e) = {<<m.id, i>> : i \in v.done + 1 .. m.calls}
  <2>1. v.done + 1 = 1
    BY <1>13
  <2> QED BY <2>1, <1>4, <1>5 DEF CallIds
<1>20. v.done < Len(v.live) /\ v.done < m.calls
  BY <1>3, <1>5, <1>10, <1>13
<1>21. RolloutOK(x)'
  BY <1>2, <1>5, <1>13, <1>14, <1>16, <1>18, <1>19, <1>20 DEF RolloutOK
<1>22. /\ pending' \in [Sessions -> BOOLEAN] /\ inherited' \in [Sessions -> BOOLEAN]
       /\ handed' \in BOOLEAN /\ lost' \subseteq Calls /\ breaks' \in 0 .. MaxBreaks
  BY <1>2, <1>8 DEF TablesOK, context, handle
<1> QED BY <1>2, <1>4, <1>6, <1>7, <1>12, <1>14, <1>17, <1>21, <1>22, AppendStep

\* The event of the next observation of a batch.
Observation(x) ==
  [id |-> Id(x), kind |-> "tool_observation", call |-> <<Batch(x).id, run[x].done + 1>>]

IsLast(x) == run[x].done + 1 = Batch(x).calls

LEMMA ObservationFacts ==
  ASSUME RunInv, NEW x \in Sessions, Running(x), run[x].phase = "calling"
  PROVE  /\ Observation(x) \in Entries /\ Observation(x).kind = "tool_observation"
         /\ Observation(x).id = Id(x)
         /\ Observation(x).call = <<Batch(x).id, run[x].done + 1>>
         /\ Observation(x).call \in Replay(x).open
         /\ Replay(x).open \ {Observation(x).call}
              = {<<Batch(x).id, i>> : i \in run[x].done + 2 .. Batch(x).calls}
         /\ IsLast(x) <=> Replay(x).open \ {Observation(x).call} = {}
<1>1. TablesOK /\ RolloutOK(x)
  BY ActiveFacts
<1>2. Id(x) \in Ids
  BY <1>1, LogFacts
<1>3. <<Batch(x).id, run[x].done + 1>> \in Calls
      /\ <<Batch(x).id, run[x].done + 1>> \in Replay(x).open
  BY BatchFacts
<1>4. /\ Observation(x) \in Entries /\ Observation(x).kind = "tool_observation"
      /\ Observation(x).id = Id(x)
      /\ Observation(x).call = <<Batch(x).id, run[x].done + 1>>
  BY <1>2, <1>3 DEF Observation, Entries
<1>5. run[x].done \in Nat /\ Batch(x).calls \in Nat /\ run[x].done + 1 \in 1 .. Batch(x).calls
  BY BatchFacts
<1>6. PICK b, d, c : b = Batch(x).id /\ d = run[x].done /\ c = Batch(x).calls
  OBVIOUS
<1>7. Replay(x).open = {<<b, i>> : i \in d + 1 .. c}
  BY <1>1, <1>6 DEF RolloutOK
<1>8. d \in Nat /\ c \in Nat /\ d + 1 <= c
  BY <1>5, <1>6
<1>9. {<<b, i>> : i \in d + 1 .. c} \ {<<b, d + 1>>} = {<<b, i>> : i \in d + 2 .. c}
  <2>1. \A i \in d + 1 .. c : i # d + 1 => i \in d + 2 .. c
    BY <1>8
  <2>2. \A i \in d + 2 .. c : i \in d + 1 .. c /\ i # d + 1
    BY <1>8
  <2> QED BY <2>1, <2>2
<1>10. d + 1 = c <=> {<<b, i>> : i \in d + 2 .. c} = {}
  <2>1. ASSUME d + 1 # c
        PROVE  <<b, c>> \in {<<b, i>> : i \in d + 2 .. c}
    <3>1. c \in d + 2 .. c
      BY <2>1, <1>8
    <3> QED BY <3>1
  <2>2. ASSUME d + 1 = c
        PROVE  {<<b, i>> : i \in d + 2 .. c} = {}
    <3>1. \A i \in d + 2 .. c : FALSE
      BY <2>2, <1>8
    <3> QED BY <3>1
  <2> QED BY <2>1, <2>2
<1> QED BY <1>3, <1>4, <1>6, <1>7, <1>9, <1>10 DEF IsLast

\* The observation that does not end the turn.
LEMMA ObservedRun ==
  ASSUME RunInv, NEW x \in Sessions, Calling(x),
         log' = [log EXCEPT ![x] = Append(log[x], Observation(x))],
         run' = [run EXCEPT
           ![x].live = Append(@, [role |-> "tool", call |-> Observation(x).call]),
           ![x].done = IF IsLast(x) THEN 0 ELSE @ + 1,
           ![x].phase = IF IsLast(x) THEN "asking" ELSE @],
         UNCHANGED <<context, handle, lost, breaks>>
  PROVE  RunInv'
<1> DEFINE e == Observation(x)
           m == [role |-> "tool", call |-> e.call]
           v == [run[x] EXCEPT !.live = Append(@, m),
                               !.done = IF IsLast(x) THEN 0 ELSE @ + 1,
                               !.phase = IF IsLast(x) THEN "asking" ELSE @]
<1>1. Running(x) /\ run[x].phase = "calling"
  BY DEF Calling, Running
<1>2. /\ TablesOK /\ (child = "none" => x # Child) /\ Sound(Replay(x))
      /\ run[x] \in Rollouts /\ FlagsOK(x) /\ RolloutOK(x) /\ run[x].live \in Seq(Messages)
  BY <1>1, ActiveFacts
<1>3. /\ e \in Entries /\ e.kind = "tool_observation" /\ e.id = Id(x)
      /\ e.call \in Replay(x).open
      /\ Replay(x).open \ {e.call} = {<<Batch(x).id, i>> : i \in run[x].done + 2 .. Batch(x).calls}
      /\ IsLast(x) <=> Replay(x).open \ {e.call} = {}
  BY <1>1, ObservationFacts
<1>4. log' = [log EXCEPT ![x] = Append(log[x], e)]
  OBVIOUS
<1>5. run' = [run EXCEPT ![x] = v]
  BY <1>2 DEF TablesOK
<1> HIDE DEF e
<1>6. m \in Messages
  <2>1. e.call \in Calls
    BY <1>2, <1>3 DEF Sound, States
  <2> QED BY <2>1 DEF Messages
<1> HIDE DEF m
<1>7. /\ Append(run[x].live, m) \in Seq(Messages)
      /\ Len(Append(run[x].live, m)) = Len(run[x].live) + 1
      /\ Len(run[x].live) \in Nat
      /\ \A k \in 1 .. Len(run[x].live) : Append(run[x].live, m)[k] = run[x].live[k]
  BY <1>2, <1>6, AppendFacts
<1>8. /\ run[x].done \in Nat /\ Batch(x).calls \in Nat
      /\ run[x].done + 1 \in 1 .. Batch(x).calls /\ Batch(x).calls <= MaxCalls
  BY <1>1, BatchFacts
<1>9. 0 \in 0 .. MaxCalls /\ run[x].done + 1 \in 0 .. MaxCalls
  BY <1>8, TranscriptsAssumption
<1>10. v \in Rollouts
  BY <1>2, <1>7, <1>9 DEF Rollouts
<1>11. /\ v.live = Append(run[x].live, m) /\ v.byUser = run[x].byUser
       /\ v.byTab = run[x].byTab /\ v.graceful = run[x].graceful /\ v.force = run[x].force
       /\ v.done = IF IsLast(x) THEN 0 ELSE run[x].done + 1
       /\ v.phase = IF IsLast(x) THEN "asking" ELSE run[x].phase
  BY <1>2 DEF Rollouts
<1> HIDE DEF v
<1>12. UNCHANGED <<child, through>> /\ run'[x] = v
  BY <1>2, <1>5 DEF context, TablesOK
<1>13. Replay(x)' = Read(Replay(x), e)
  BY <1>2, <1>3, <1>4, <1>12, AppendedReplay
<1>14. /\ Replay(x)'.messages = Append(Replay(x).messages, m)
       /\ Replay(x)'.begun = Replay(x).begun
       /\ Replay(x)'.open = Replay(x).open \ {e.call}
  BY <1>2, <1>3, <1>13, ReadObservationFacts DEF m
<1>15. FlagsOK(x)'
  BY <1>2, <1>11, <1>12 DEF FlagsOK
<1>16. RolloutOK(x)'
  <2>1. run'[x].live = Replay(x)'.messages /\ Replay(x)'.begun
    BY <1>2, <1>11, <1>12, <1>14 DEF RolloutOK
  <2>2. CASE IsLast(x)
    <3>1. run'[x].phase = "asking" /\ Replay(x)'.open = {}
      BY <2>2, <1>3, <1>11, <1>12, <1>14
    <3> QED BY <2>1, <3>1 DEF RolloutOK
  <2>3. CASE ~ IsLast(x)
    <3>1. run'[x].phase = "calling" /\ run'[x].done = run[x].done + 1
          /\ run'[x].live = Append(run[x].live, m)
      BY <2>3, <1>1, <1>11, <1>12
    <3>2. run[x].done < Len(run[x].live) /\ Batch(x).role = "assistant"
      BY <1>1, <1>2 DEF RolloutOK
    <3>3. Len(run'[x].live) - run'[x].done = Len(run[x].live) - run[x].done
      <4>1. Len(run'[x].live) = Len(run[x].live) + 1
        BY <3>1, <1>7
      <4>2. run'[x].done = run[x].done + 1
        BY <3>1
      <4>3. \A a, b \in Nat : (a + 1) - (b + 1) = a - b
        OBVIOUS
      <4>4. Len(run[x].live) \in Nat /\ run[x].done \in Nat
        BY <1>7, <1>8
      <4> QED BY <4>1, <4>2, <4>3, <4>4
    <3>4. Len(run[x].live) - run[x].done \in 1 .. Len(run[x].live)
      BY <3>2, <1>7, <1>8
    <3>5. Batch(x)' = Batch(x)
      <4>1. run'[x].live[Len(run[x].live) - run[x].done]
              = run[x].live[Len(run[x].live) - run[x].done]
        BY <3>1, <3>4, <1>7
      <4> QED BY <4>1, <3>3 DEF Batch
    <3>6. run'[x].done < Len(run'[x].live)
      BY <3>1, <3>2, <1>7, <1>8
    <3>7. run'[x].done < Batch(x).calls
      BY <2>3, <3>1, <1>8 DEF IsLast
    <3>8. Replay(x)'.open = {<<Batch(x).id, i>> : i \in run'[x].done + 1 .. Batch(x).calls}
      <4>1. run'[x].done + 1 = run[x].done + 2
        BY <3>1, <1>8
      <4> QED BY <4>1, <1>3, <1>14
    <3> QED BY <2>1, <3>1, <3>2, <3>5, <3>6, <3>7, <3>8 DEF RolloutOK
  <2> QED BY <2>2, <2>3
<1>17. /\ pending' \in [Sessions -> BOOLEAN] /\ inherited' \in [Sessions -> BOOLEAN]
       /\ handed' \in BOOLEAN /\ lost' \subseteq Calls /\ breaks' \in 0 .. MaxBreaks
  BY <1>2 DEF TablesOK, context, handle
<1> QED BY <1>2, <1>3, <1>4, <1>5, <1>10, <1>12, <1>15, <1>16, <1>17, AppendStep

\* An observation ends the turn, or does not.
LEMMA ObserveCases ==
  ASSUME NEW x \in Sessions, Observe(x)
  PROVE  /\ Calling(x)
         /\ \/ /\ IsLast(x) /\ run[x].graceful
               /\ EndCancelled(x, Append(log[x], Observation(x)), run[x].byUser)
            \/ /\ ~ (IsLast(x) /\ run[x].graceful)
               /\ log' = [log EXCEPT ![x] = Append(log[x], Observation(x))]
               /\ run' = [run EXCEPT
                    ![x].live = Append(@, [role |-> "tool", call |-> Observation(x).call]),
                    ![x].done = IF IsLast(x) THEN 0 ELSE @ + 1,
                    ![x].phase = IF IsLast(x) THEN "asking" ELSE @]
               /\ UNCHANGED <<context, handle, lost, breaks>>
BY DEF Observe, Observation, IsLast

LEMMA ObserveRun ==
  ASSUME RunInv, NEW x \in Sessions, Observe(x)
  PROVE  RunInv'
<1>1. Calling(x) /\ Running(x) /\ run[x].phase = "calling"
  BY ObserveCases DEF Calling, Running
<1>2. CASE EndCancelled(x, Append(log[x], Observation(x)), run[x].byUser)
  <2>1. TablesOK /\ run[x].byUser \in BOOLEAN
    BY <1>1, ActiveFacts DEF Rollouts
  <2>2. Observation(x) \in Entries /\ Observation(x).id = <<x, Len(log[x]) + 1>>
    BY <1>1, <2>1, ObservationFacts, LogFacts
  <2>3. log[x] \in Seq(Entries)
    BY <2>1, LogFacts
  <2>4. PICK s : s = Append(log[x], Observation(x))
    OBVIOUS
  <2>5. /\ s \in Seq(Entries) /\ Len(s) = Len(log[x]) + 1 /\ Len(log[x]) \in Nat
        /\ \A k \in 1 .. Len(log[x]) : s[k] = log[x][k]
        /\ s[Len(log[x]) + 1] = Observation(x)
    BY <2>2, <2>3, <2>4, AppendFacts
  <2>6. Len(log[x]) <= Len(s)
    BY <2>5
  <2>7. \A k \in Len(log[x]) + 1 .. Len(s) : s[k].id = <<x, k>>
    <3>1. \A k \in Len(log[x]) + 1 .. Len(s) : k = Len(log[x]) + 1
      BY <2>5
    <3> QED BY <3>1, <2>2, <2>5
  <2>8. EndCancelled(x, s, run[x].byUser)
    BY <1>2, <2>4
  <2> QED BY <1>1, <2>1, <2>5, <2>6, <2>7, <2>8, EndCancelledRun
<1>3. CASE ~ EndCancelled(x, Append(log[x], Observation(x)), run[x].byUser)
  BY <1>1, <1>3, ObserveCases, ObservedRun
<1> QED BY <1>2, <1>3

LEMMA BreakRun ==
  ASSUME RunInv, NEW x \in Sessions, Break(x)
  PROVE  RunInv'
<1>1. Running(x) /\ breaks < MaxBreaks
  BY DEF Break
<1>2. TablesOK /\ Sound(Replay(x))
  BY <1>1, ActiveFacts
<1>3. run' = [run EXCEPT ![x] = Idle] /\ UNCHANGED <<log, context, handle>>
  BY DEF Break
<1>4. breaks' \in 0 .. MaxBreaks
  BY <1>1, <1>2, TranscriptsAssumption DEF Break, TablesOK
<1>5. lost' \subseteq Calls
  BY <1>2 DEF Break, TablesOK, Sound, States
<1>6. /\ pending' \in [Sessions -> BOOLEAN] /\ inherited' \in [Sessions -> BOOLEAN]
      /\ handed' \in BOOLEAN
  BY <1>2, <1>3 DEF TablesOK, context, handle
<1>7. ~ Running(x)'
  <2>1. run'[x] = Idle
    BY <1>2, <1>3 DEF TablesOK
  <2> QED BY <2>1 DEF Running, Idle
<1>8. UNCHANGED <<log, child, through>>
  BY <1>3 DEF context
<1> QED BY <1>1, <1>3, <1>4, <1>5, <1>6, <1>7, <1>8, SameLog

\* A step after which no rollout is under way, or those that were.
LEMMA ChildStep ==
  ASSUME RunInv, log' = log, run' = run, UNCHANGED <<lost, breaks>>,
         child = "none", child' \in {"fork", "compaction"},
         through' \in 0 .. Len(log[Root]),
         pending' \in [Sessions -> BOOLEAN], inherited' \in [Sessions -> BOOLEAN],
         handed' \in BOOLEAN
  PROVE  RunInv'
<1>1. TablesOK
  BY DEF RunInv
<1>2. TablesOK'
  BY <1>1 DEF TablesOK, Running
<1>3. ASSUME NEW x \in Sessions
      PROVE  SessionOK(x)'
  <2>1. SessionOK(x)
    BY DEF RunInv
  <2>2. CASE x = Child
    <3>1. ~ Running(x)'
      BY <2>2, <1>1 DEF TablesOK, Running
    <3> QED BY <2>1, <3>1 DEF SessionOK
  <2>3. CASE x # Child
    <3>1. Replay(x)' = Replay(x)
      BY <2>3 DEF Replay, Context
    <3>2. Running(x)' = Running(x) /\ FlagsOK(x)' = FlagsOK(x) /\ Batch(x)' = Batch(x)
      BY DEF Running, FlagsOK, Batch
    <3>3. RolloutOK(x) => RolloutOK(x)'
      BY <3>1, <3>2 DEF RolloutOK
    <3> QED BY <2>1, <3>2, <3>3 DEF SessionOK
  <2> QED BY <2>2, <2>3
<1> QED BY <1>2, <1>3 DEF RunInv

Ends(e) == e.kind \in {"final", "cancelled"}

\* The boundary of a fork is the end of a turn, or the beginning of the log.
LEMMA BoundaryFacts ==
  ASSUME NEW events \in Seq(Entries)
  PROVE  /\ Boundary(events) \in 0 .. Len(events)
         /\ Boundary(events) # 0 => Ends(events[Boundary(events)])
<1> DEFINE ends == {n \in DOMAIN events : Ends(events[n])}
           T == {k \in Nat : \A m \in ends : m <= k}
<1>1. Len(events) \in Nat /\ DOMAIN events = 1 .. Len(events) /\ ends \subseteq 1 .. Len(events)
  OBVIOUS
<1>2. Boundary(events) = IF ends = {} THEN 0 ELSE CHOOSE n \in ends : \A m \in ends : m <= n
  BY DEF Boundary, Completed, Ends
<1>3. CASE ends = {}
  <2>1. Boundary(events) = 0
    BY <1>2, <1>3
  <2> QED BY <2>1, <1>1
<1>4. CASE ends # {}
  <2>1. \E n \in ends : \A m \in ends : m <= n
    <3> HIDE DEF ends
    <3>1. Len(events) \in T
      BY <1>1
    <3>2. PICK k \in T : \A y \in T : k <= y
      <4> HIDE DEF T
      <4>1. T \subseteq Nat
        BY DEF T
      <4> QED BY <3>1, <4>1, LeastElement
    <3>3. k \in ends
      <4> SUFFICES ASSUME k \notin ends PROVE FALSE
        OBVIOUS
      <4>1. PICK m \in ends : TRUE
        BY <1>4
      <4>2. k - 1 \in Nat /\ \A i \in ends : i <= k - 1
        BY <4>1, <1>1, <3>2
      <4> QED BY <4>2, <3>2
    <3> QED BY <3>2, <3>3
  <2>2. Boundary(events) \in ends
    <3> HIDE DEF ends
    <3> QED BY <1>2, <1>4, <2>1
  <2>3. Boundary(events) \in 1 .. Len(events) /\ Ends(events[Boundary(events)])
    BY <2>2, <1>1
  <2> QED BY <2>3, <1>1
<1> QED BY <1>3, <1>4

LEMMA CrashRun ==
  ASSUME RunInv, Crash
  PROVE  RunInv'
<1>1. TablesOK
  BY DEF RunInv
<1>2. /\ run' = [x \in Sessions |-> Idle] /\ UNCHANGED <<log, child, through>>
      /\ breaks' = breaks + 1 /\ breaks < MaxBreaks
  BY DEF Crash
<1>3. \A x \in Sessions : Replay(x).open \subseteq Calls /\ Replay(x).pending \in BOOLEAN
  BY <1>1, ReplaySound DEF Sound, States
<1>4. \A x \in Sessions : ~ Running(x)'
  BY <1>2 DEF Running, Idle
<1>5. TablesOK'
  <2>1. lost' \subseteq Calls
    <3>1. lost \subseteq Calls
      BY <1>1 DEF TablesOK
    <3> QED BY <3>1, <1>3 DEF Crash
  <2>2. pending' \in [Sessions -> BOOLEAN] /\ inherited' \in [Sessions -> BOOLEAN]
    BY <1>3 DEF Crash
  <2>3. handed' \in BOOLEAN
    BY DEF Crash
  <2>4. breaks' \in 0 .. MaxBreaks
    BY <1>1, <1>2, TranscriptsAssumption DEF TablesOK
  <2>5. run' \in [Sessions -> Rollouts \cup {Idle}]
    BY <1>2
  <2>6. Child \in Sessions
    BY DEF Sessions
  <2>7. /\ log' \in [Sessions -> Seq(Entries)] /\ child' \in {"none", "fork", "compaction"}
        /\ through' \in 0 .. Len(log'[Root])
        /\ child' = "none" => log'[Child] = <<>> /\ ~ Running(Child)'
    BY <1>1, <1>2, <1>4, <2>6 DEF TablesOK
  <2> QED BY <2>1, <2>2, <2>3, <2>4, <2>5, <2>7 DEF TablesOK
<1>6. \A x \in Sessions : SessionOK(x)'
  BY <1>2, <1>4 DEF RunInv, SessionOK
<1> QED BY <1>5, <1>6 DEF RunInv

LEMMA ForkRun ==
  ASSUME RunInv, Fork
  PROVE  RunInv'
<1>1. TablesOK /\ Root \in Sessions
  BY DEF RunInv, Sessions
<1>2. /\ log' = log /\ run' = run /\ UNCHANGED <<lost, breaks>>
      /\ child = "none" /\ child' \in {"fork", "compaction"}
      /\ through' = Boundary(log[Root]) /\ UNCHANGED <<handed, handle>>
  BY DEF Fork
<1>3. through' \in 0 .. Len(log[Root])
  BY <1>1, <1>2, LogFacts, BoundaryFacts
<1>4. /\ pending' \in [Sessions -> BOOLEAN] /\ inherited' \in [Sessions -> BOOLEAN]
      /\ handed' \in BOOLEAN
  BY <1>1, <1>2 DEF TablesOK, handle
<1> QED BY <1>2, <1>3, <1>4, ChildStep

LEMMA CompactRun ==
  ASSUME RunInv, Compact
  PROVE  RunInv'
<1>1. TablesOK /\ Root \in Sessions
  BY DEF RunInv, Sessions
<1>2. /\ log' = log /\ run' = run /\ UNCHANGED <<lost, breaks>>
      /\ child = "none" /\ child' \in {"fork", "compaction"} /\ through' = through
  BY DEF Compact
<1>3. through' \in 0 .. Len(log[Root])
  BY <1>1, <1>2 DEF TablesOK
<1>4. pending[Root] \in BOOLEAN
  BY <1>1 DEF TablesOK
<1>5. /\ pending' \in [Sessions -> BOOLEAN] /\ inherited' \in [Sessions -> BOOLEAN]
      /\ handed' \in BOOLEAN
  BY <1>1, <1>4 DEF TablesOK, Compact
<1> QED BY <1>2, <1>3, <1>5, ChildStep

LEMMA RunInvKept == RunInv /\ [Next]_vars => RunInv'
<1> SUFFICES ASSUME RunInv, [Next]_vars PROVE RunInv'
  OBVIOUS
<1>1. ASSUME NEW x \in Sessions, NEW external \in BOOLEAN, Prompt(x, external)
      PROVE  RunInv'
  BY <1>1, PromptRun
<1>2. ASSUME NEW x \in Sessions, GracefulStop(x) PROVE RunInv'
  BY <1>2, GracefulStopRun
<1>3. ASSUME NEW x \in Sessions, NEW user \in BOOLEAN, ForceStop(x, user) PROVE RunInv'
  BY <1>3, ForceStopRun
<1>4. ASSUME NEW x \in Sessions, Stopped(x) PROVE RunInv'
  BY <1>4, StoppedRun
<1>5. ASSUME NEW x \in Sessions, Answer(x) PROVE RunInv'
  BY <1>5, AnswerRun
<1>6. ASSUME NEW x \in Sessions, NEW n \in 1 .. MaxCalls, AskForCalls(x, n) PROVE RunInv'
  BY <1>6, AskForCallsRun
<1>7. ASSUME NEW x \in Sessions, ModelFails(x) PROVE RunInv'
  BY <1>7, ModelFailsRun
<1>8. ASSUME NEW x \in Sessions, Observe(x) PROVE RunInv'
  BY <1>8, ObserveRun
<1>9. ASSUME NEW x \in Sessions, ToolCancelled(x) PROVE RunInv'
  BY <1>9, ToolCancelledRun
<1>10. ASSUME NEW x \in Sessions, Break(x) PROVE RunInv'
  BY <1>10, BreakRun
<1>11. CASE Crash
  BY <1>11, CrashRun
<1>12. CASE Fork
  BY <1>12, ForkRun
<1>13. CASE Compact
  BY <1>13, CompactRun
<1>14. CASE UNCHANGED vars
  <2>1. UNCHANGED <<log, child, through, run, pending, inherited, handed, lost, breaks>>
    BY <1>14 DEF vars, context, handle
  <2>2. TablesOK'
    BY <2>1 DEF RunInv, TablesOK, Running
  <2>3. ASSUME NEW x \in Sessions
        PROVE  SessionOK(x)'
    <3>1. SessionOK(x) /\ Replay(x)' = Replay(x)
      BY <2>1, ReplaySame DEF RunInv
    <3>2. Running(x)' = Running(x) /\ FlagsOK(x)' = FlagsOK(x) /\ Batch(x)' = Batch(x)
      BY <2>1 DEF Running, FlagsOK, Batch
    <3>3. RolloutOK(x) => RolloutOK(x)'
      BY <2>1, <3>1, <3>2 DEF RolloutOK
    <3> QED BY <2>1, <3>1, <3>2, <3>3 DEF SessionOK
  <2> QED BY <2>2, <2>3 DEF RunInv
<1> QED
  BY <1>1, <1>2, <1>3, <1>4, <1>5, <1>6, <1>7, <1>8, <1>9, <1>10, <1>11, <1>12, <1>13,
     <1>14 DEF Next

\* The invariant implies what the runs check.
LEMMA RunInvTypes == RunInv => TypeOK /\ LiveIsReplay
<1> SUFFICES ASSUME RunInv PROVE TypeOK /\ LiveIsReplay
  OBVIOUS
<1>1. TablesOK
  BY DEF RunInv
<1>2. ASSUME NEW x \in Sessions, Running(x)
      PROVE  /\ run[x].byUser => run[x].byTab /\ (run[x].graceful \/ run[x].force)
             /\ run[x].phase = "calling" <=> Replay(x).open # {}
             /\ run[x].live = Replay(x).messages
  <2>1. run[x] \in Rollouts /\ FlagsOK(x) /\ RolloutOK(x)
    BY <1>2, ActiveFacts
  <2>2. run[x].phase = "calling" => Replay(x).open # {}
    BY <1>2, BatchFacts
  <2>3. run[x].phase \in {"asking", "calling"}
    BY <2>1 DEF Rollouts
  <2>4. Replay(x).open # {} => run[x].phase = "calling"
    BY <2>1, <2>3 DEF RolloutOK
  <2> QED BY <2>1, <2>2, <2>4 DEF FlagsOK, RolloutOK
<1>3. \A x \in Sessions : \A n \in DOMAIN log[x] : log[x][n].id = <<x, n>>
  BY DEF RunInv, SessionOK
<1> QED BY <1>1, <1>2, <1>3 DEF TablesOK, TypeOK, LiveIsReplay

LEMMA RunInvHolds == Spec => []RunInv
<1>1. Init => RunInv
  BY InitRun
<1>2. RunInv /\ [Next]_vars => RunInv'
  BY RunInvKept
<1> QED BY <1>1, <1>2, PTL DEF Spec

\* The logs, the replays and the rollouts are what their types say; a batch has
\* calls without an observation as long as its observations are appended, and
\* not a moment longer (_run).
THEOREM TypeCorrect == Spec => []TypeOK
<1>1. RunInv => TypeOK
  BY RunInvTypes
<1> QED BY <1>1, RunInvHolds, PTL

\* The messages of a running conversation are those that anyone would rebuild
\* from the log (_run, _refresh_messages, _session_replay).
THEOREM MemoryIsTheLog == Spec => []LiveIsReplay
<1>1. RunInv => LiveIsReplay
  BY RunInvTypes
<1> QED BY <1>1, RunInvHolds, PTL

-----------------------------------------------------------------------------
(* What each step appends.                                                 *)

\* One event is appended to the log of x, or two, or none to any, and no other
\* rollout changes.
Alone(x) == UNCHANGED <<child, through>> /\ \A y \in Sessions : y # x => run'[y] = run[y]

One(x, e) == Alone(x) /\ log' = [log EXCEPT ![x] = Append(log[x], e)]

Two(x, d, e) == Alone(x) /\ log' = [log EXCEPT ![x] = Append(Append(log[x], d), e)]

LEMMA AloneFacts ==
  ASSUME TablesOK, NEW x \in Sessions, NEW v, run' = [run EXCEPT ![x] = v],
         UNCHANGED <<child, through>>
  PROVE  Alone(x) /\ run'[x] = v
BY DEF Alone, TablesOK

LEMMA IdleAfter ==
  ASSUME TablesOK, NEW x \in Sessions, run' = [run EXCEPT ![x] = Idle],
         UNCHANGED <<child, through>>
  PROVE  Alone(x) /\ ~ Running(x)'
<1>1. Alone(x) /\ run'[x] = Idle
  BY AloneFacts
<1> QED BY <1>1 DEF Running, Idle

LEMMA PromptAppends ==
  ASSUME RunInv, NEW x \in Sessions, NEW external \in BOOLEAN, Prompt(x, external)
  PROVE  \E e \in Entries :
           /\ e.kind = "user" /\ e.id = Id(x) /\ e.external = external
           /\ e.header = (external /\ (Replay(x).pending \/ inherited[x]))
           /\ One(x, e) /\ ~ Running(x)
<1> DEFINE header == external /\ (Replay(x).pending \/ inherited[x])
           e == [id |-> Id(x), kind |-> "user", external |-> external, header |-> header]
<1>1. TablesOK
  BY DEF RunInv
<1>2. Sound(Replay(x)) /\ inherited[x] \in BOOLEAN /\ Id(x) \in Ids
  BY <1>1, ReplaySound, LogFacts DEF TablesOK
<1>3. header \in BOOLEAN
  BY <1>2 DEF Sound, States
<1>4. log' = [log EXCEPT ![x] = Append(log[x], e)]
  BY DEF Prompt, Refreshed
<1>5. ~ Running(x)
  BY DEF Prompt, MayPrompt
<1>6. Alone(x)
  <2>1. UNCHANGED <<child, through>>
    BY DEF Prompt, context
  <2>2. PICK v : run' = [run EXCEPT ![x] = v]
    BY DEF Prompt
  <2> QED BY <1>1, <2>1, <2>2, AloneFacts
<1>7. e \in Entries
  <2> HIDE DEF header
  <2> QED BY <1>2, <1>3 DEF Entries
<1> QED BY <1>4, <1>5, <1>6, <1>7 DEF One

LEMMA AskForCallsAppends ==
  ASSUME RunInv, NEW x \in Sessions, NEW n \in 1 .. MaxCalls, AskForCalls(x, n)
  PROVE  \E e \in Entries : e.kind = "model" /\ e.id = Id(x) /\ One(x, e) /\ Running(x)'
<1> DEFINE e == [id |-> Id(x), kind |-> "model", calls |-> n]
<1>1. TablesOK
  BY DEF RunInv
<1>2. Id(x) \in Ids /\ n \in 0 .. MaxCalls
  <2>1. n \in 0 .. MaxCalls
    BY TranscriptsAssumption
  <2> QED BY <2>1, <1>1, LogFacts
<1>3. e \in Entries
  BY <1>2 DEF Entries
<1>4. run[x] \in Rollouts
  BY <1>1, RunFacts DEF AskForCalls, Asking, Running
<1> DEFINE v == [run[x] EXCEPT
                   !.live = Append(@, [role |-> "assistant", id |-> Id(x), calls |-> n]),
                   !.phase = "calling", !.done = 0]
<1>5. run' = [run EXCEPT ![x] = v]
  BY <1>1 DEF AskForCalls, TablesOK
<1>6. v.phase = "calling"
  BY <1>4 DEF Rollouts
<1> HIDE DEF v
<1>7. UNCHANGED <<child, through>>
  BY DEF AskForCalls, context
<1>8. Alone(x) /\ run'[x] = v
  BY <1>1, <1>5, <1>7, AloneFacts
<1>9. log' = [log EXCEPT ![x] = Append(log[x], e)]
  BY DEF AskForCalls
<1> QED BY <1>3, <1>6, <1>8, <1>9 DEF One, Running

LEMMA ModelFailsAppends ==
  ASSUME RunInv, NEW x \in Sessions, ModelFails(x)
  PROVE  \E e \in Entries :
           e.kind = "model_failed" /\ e.id = Id(x) /\ One(x, e) /\ ~ Running(x)'
<1> DEFINE e == [id |-> Id(x), kind |-> "model_failed"]
<1>1. TablesOK
  BY DEF RunInv
<1>2. e \in Entries
  <2>1. Id(x) \in Ids
    BY <1>1, LogFacts
  <2> QED BY <2>1 DEF Entries
<1>3. Alone(x) /\ ~ Running(x)'
  BY <1>1, IdleAfter DEF ModelFails, context
<1>4. log' = [log EXCEPT ![x] = Append(log[x], e)]
  BY DEF ModelFails
<1> QED BY <1>2, <1>3, <1>4 DEF One

LEMMA AnswerAppends ==
  ASSUME RunInv, NEW x \in Sessions, Answer(x)
  PROVE  \E d \in Entries, e \in Entries :
           /\ d.kind = "model" /\ d.calls = 0 /\ d.id = Id(x)
           /\ e.kind = "final" /\ e.id = <<x, Len(log[x]) + 2>>
           /\ Two(x, d, e) /\ ~ Running(x)'
<1>1. TablesOK
  BY DEF RunInv
<1>2. PICK d \in Entries, e \in Entries :
        /\ d = [id |-> Id(x), kind |-> "model", calls |-> 0]
        /\ e = [id |-> <<x, Len(log[x]) + 2>>, kind |-> "final"]
        /\ log' = [log EXCEPT ![x] = Append(Append(log[x], d), e)]
  BY AnswerLog
<1>3. Alone(x) /\ ~ Running(x)'
  BY <1>1, IdleAfter DEF Answer, context
<1> QED BY <1>2, <1>3 DEF Two

\* The end of a turn that was cancelled.
LEMMA CancelledAppends ==
  ASSUME RunInv, NEW x \in Sessions, NEW user \in BOOLEAN, EndCancelled(x, log[x], user)
  PROVE  \E e \in Entries :
           /\ e.kind = "cancelled" /\ e.id = Id(x) /\ e.user = user
           /\ One(x, e) /\ ~ Running(x)'
<1> DEFINE e == [id |-> <<x, Len(log[x]) + 1>>, kind |-> "cancelled", user |-> user]
<1>1. TablesOK
  BY DEF RunInv
<1>2. Id(x) \in Ids /\ Id(x) = <<x, Len(log[x]) + 1>>
  BY <1>1, LogFacts
<1>3. e \in Entries
  BY <1>2 DEF Entries
<1>4. Alone(x) /\ ~ Running(x)'
  BY <1>1, IdleAfter DEF EndCancelled, context
<1>5. log' = [log EXCEPT ![x] = Append(log[x], e)]
  BY DEF EndCancelled
<1> QED BY <1>2, <1>3, <1>4, <1>5 DEF One

LEMMA StoppedAppends ==
  ASSUME RunInv, NEW x \in Sessions, Stopped(x) \/ ToolCancelled(x)
  PROVE  \E e \in Entries :
           e.kind = "cancelled" /\ e.id = Id(x) /\ One(x, e) /\ Running(x) /\ ~ Running(x)'
<1>1. TablesOK
  BY DEF RunInv
<1>2. Running(x)
  <2>1. run[x] # Idle
    <3>1. CASE Stopped(x)
      BY <3>1 DEF Stopped, Idle
    <3>2. CASE ToolCancelled(x)
      BY <3>2 DEF ToolCancelled, Calling, Idle
    <3> QED BY <3>1, <3>2
  <2> QED BY <2>1, <1>1, RunFacts
<1>3. run[x].byUser \in BOOLEAN
  BY <1>2, ActiveFacts DEF Rollouts
<1>4. PICK user \in BOOLEAN : EndCancelled(x, log[x], user)
  BY <1>3 DEF Stopped, ToolCancelled
<1> QED BY <1>2, <1>4, CancelledAppends

LEMMA ObserveAppends ==
  ASSUME RunInv, NEW x \in Sessions, Observe(x)
  PROVE  /\ Running(x) /\ run[x].phase = "calling"
         /\ \/ One(x, Observation(x)) /\ Running(x)'
            \/ \E e \in Entries :
                 /\ e.kind = "cancelled" /\ e.id = <<x, Len(log[x]) + 2>>
                 /\ Two(x, Observation(x), e) /\ IsLast(x) /\ ~ Running(x)'
<1>1. Running(x) /\ run[x].phase = "calling"
  BY ObserveCases DEF Calling, Running
<1>2. TablesOK /\ run[x] \in Rollouts
  BY <1>1, ActiveFacts
<1>3. CASE IsLast(x) /\ run[x].graceful
  <2> DEFINE e == [id |-> <<x, Len(log[x]) + 2>>, kind |-> "cancelled",
                   user |-> run[x].byUser]
  <2>1. EndCancelled(x, Append(log[x], Observation(x)), run[x].byUser)
    BY <1>3, ObserveCases
  <2>2. Observation(x) \in Entries /\ log[x] \in Seq(Entries)
    BY <1>1, <1>2, ObservationFacts, LogFacts
  <2>3. Len(Append(log[x], Observation(x))) + 1 = Len(log[x]) + 2
    <3>1. Len(Append(log[x], Observation(x))) = Len(log[x]) + 1 /\ Len(log[x]) \in Nat
      BY <2>2, AppendFacts
    <3> QED BY <3>1
  <2>4. log' = [log EXCEPT ![x] = Append(Append(log[x], Observation(x)), e)]
    BY <2>1, <2>3 DEF EndCancelled
  <2>5. Alone(x) /\ ~ Running(x)'
    BY <1>2, <2>1, IdleAfter DEF EndCancelled, context
  <2>6. e \in Entries
    <3>1. <<x, Len(log[x]) + 2>> \in Ids /\ run[x].byUser \in BOOLEAN
      BY <1>2, LogFacts DEF Rollouts
    <3> QED BY <3>1 DEF Entries
  <2>7. e.kind = "cancelled" /\ e.id = <<x, Len(log[x]) + 2>>
    OBVIOUS
  <2> HIDE DEF e
  <2>8. Two(x, Observation(x), e)
    BY <2>4, <2>5 DEF Two
  <2> QED BY <1>1, <1>3, <2>5, <2>6, <2>7, <2>8
<1>4. CASE ~ (IsLast(x) /\ run[x].graceful)
  <2> DEFINE v == [run[x] EXCEPT
                     !.live = Append(@, [role |-> "tool", call |-> Observation(x).call]),
                     !.done = IF IsLast(x) THEN 0 ELSE @ + 1,
                     !.phase = IF IsLast(x) THEN "asking" ELSE @]
  <2>1. /\ log' = [log EXCEPT ![x] = Append(log[x], Observation(x))]
        /\ run' = [run EXCEPT ![x] = v] /\ UNCHANGED <<child, through>>
    <3>1. /\ log' = [log EXCEPT ![x] = Append(log[x], Observation(x))]
          /\ run' = [run EXCEPT
               ![x].live = Append(@, [role |-> "tool", call |-> Observation(x).call]),
               ![x].done = IF IsLast(x) THEN 0 ELSE @ + 1,
               ![x].phase = IF IsLast(x) THEN "asking" ELSE @]
          /\ UNCHANGED <<context, handle, lost, breaks>>
      BY <1>4, ObserveCases
    <3>2. run \in [Sessions -> Rollouts \cup {Idle}]
      BY <1>2 DEF TablesOK
    <3>3. run' = [run EXCEPT ![x] = v]
      BY <3>1, <3>2
    <3> QED BY <3>1, <3>3 DEF context
  <2>2. v.phase \in {"asking", "calling"}
    BY <1>1, <1>2 DEF Rollouts
  <2> HIDE DEF v
  <2>3. Alone(x) /\ run'[x] = v
    BY <1>2, <2>1, AloneFacts
  <2> QED BY <1>1, <2>1, <2>2, <2>3 DEF One, Running
<1> QED BY <1>3, <1>4

-----------------------------------------------------------------------------
(* Calls without an observation.                                           *)

\* The call c of message n has no observation after it.
OpenFrom(m, n, c) ==
  /\ m[n].role = "assistant" /\ c \in CallIds(m[n])
  /\ \A k \in n + 1 .. Len(m) : m[k].role = "tool" => m[k].call # c

LEMMA UnansweredIs ==
  ASSUME NEW m, NEW c
  PROVE  c \in Unanswered(m) <=> \E n \in DOMAIN m : OpenFrom(m, n, c)
<1> DEFINE answers(n) == {m[k].call : k \in {j \in n + 1 .. Len(m) : m[j].role = "tool"}}
<1>1. Unanswered(m) =
        UNION {CallIds(m[n]) \ answers(n) : n \in {i \in DOMAIN m : m[i].role = "assistant"}}
  BY DEF Unanswered
<1>2. \A n : c \notin answers(n)
               <=> \A k \in n + 1 .. Len(m) : m[k].role = "tool" => m[k].call # c
  OBVIOUS
<1> HIDE DEF answers
<1>3. c \in Unanswered(m) <=>
        \E n \in {i \in DOMAIN m : m[i].role = "assistant"} : c \in CallIds(m[n]) \ answers(n)
  BY <1>1
<1> QED BY <1>2, <1>3 DEF OpenFrom

\* A message more.
LEMMA UnansweredAppend ==
  ASSUME NEW m \in Seq(Messages), NEW a \in Messages
  PROVE  /\ a.role = "user" => Unanswered(Append(m, a)) \subseteq Unanswered(m)
         /\ a.role = "assistant" =>
              Unanswered(Append(m, a)) \subseteq Unanswered(m) \cup CallIds(a)
         /\ a.role = "tool" => Unanswered(Append(m, a)) \subseteq Unanswered(m) \ {a.call}
<1>1. PICK t : t = Append(m, a)
  OBVIOUS
<1>2. /\ t \in Seq(Messages) /\ Len(t) = Len(m) + 1 /\ Len(m) \in Nat
      /\ \A k \in 1 .. Len(m) : t[k] = m[k]
      /\ t[Len(m) + 1] = a
  BY <1>1, AppendFacts
<1>3. DOMAIN t = 1 .. Len(m) + 1 /\ DOMAIN m = 1 .. Len(m)
  BY <1>2
<1>4. ASSUME NEW c, NEW n \in DOMAIN t, OpenFrom(t, n, c), n # Len(m) + 1
      PROVE  c \in Unanswered(m) /\ (a.role = "tool" => a.call # c)
  <2>1. n \in 1 .. Len(m)
    BY <1>2, <1>3, <1>4
  <2>2. t[n] = m[n]
    BY <1>2, <2>1
  <2>3. ASSUME NEW k \in n + 1 .. Len(m), m[k].role = "tool"
        PROVE  m[k].call # c
    <3>1. k \in 1 .. Len(m) /\ k \in n + 1 .. Len(t)
      BY <2>1, <1>2
    <3>2. t[k] = m[k]
      BY <3>1, <1>2
    <3> QED BY <2>3, <3>1, <3>2, <1>4 DEF OpenFrom
  <2>4. OpenFrom(m, n, c)
    BY <1>4, <2>2, <2>3 DEF OpenFrom
  <2>5. Len(m) + 1 \in n + 1 .. Len(t)
    BY <2>1, <1>2
  <2>6. a.role = "tool" => a.call # c
    BY <2>5, <1>2, <1>4 DEF OpenFrom
  <2>7. n \in DOMAIN m
    BY <2>1, <1>3
  <2> QED BY <2>4, <2>6, <2>7, UnansweredIs
<1>5. ASSUME NEW c, OpenFrom(t, Len(m) + 1, c)
      PROVE  a.role = "assistant" /\ c \in CallIds(a)
  BY <1>5, <1>2 DEF OpenFrom
<1>6. ASSUME NEW c \in Unanswered(t)
      PROVE  \/ c \in Unanswered(m) /\ (a.role = "tool" => a.call # c)
             \/ a.role = "assistant" /\ c \in CallIds(a)
  <2>1. PICK n \in DOMAIN t : OpenFrom(t, n, c)
    BY UnansweredIs
  <2>2. CASE n = Len(m) + 1
    BY <2>1, <2>2, <1>5
  <2>3. CASE n # Len(m) + 1
    BY <2>1, <2>3, <1>4
  <2> QED BY <2>2, <2>3
<1>7. a.role = "user" => Unanswered(t) \subseteq Unanswered(m)
  BY <1>6
<1>8. a.role = "assistant" => Unanswered(t) \subseteq Unanswered(m) \cup CallIds(a)
  BY <1>6
<1>9. a.role = "tool" => Unanswered(t) \subseteq Unanswered(m) \ {a.call}
  BY <1>6
<1> QED BY <1>1, <1>7, <1>8, <1>9

LEMMA UnansweredEmpty == Unanswered(<<>>) = {}
<1>1. DOMAIN <<>> = {}
  OBVIOUS
<1>2. \A c : c \notin Unanswered(<<>>)
  BY <1>1, UnansweredIs
<1> QED BY <1>2

\* The calls of r without an observation are known or open, and those before
\* the last complete batch are known.
Explained(r, open, known) ==
  /\ Unanswered(r.messages) \subseteq known \cup open
  /\ Unanswered(SubSeq(r.messages, 1, r.safe)) \subseteq known

\* What is safe of messages that grow.
LEMMA SafeFacts ==
  ASSUME NEW m \in Seq(Messages), NEW a \in Messages, NEW n \in Nat, n <= Len(m)
  PROVE  /\ SubSeq(Append(m, a), 1, n) = SubSeq(m, 1, n)
         /\ SubSeq(Append(m, a), 1, Len(m) + 1) = Append(m, a)
<1>1. PICK t : t = Append(m, a)
  OBVIOUS
<1>2. /\ t \in Seq(Messages) /\ Len(t) = Len(m) + 1 /\ Len(m) \in Nat
      /\ \A k \in 1 .. Len(m) : t[k] = m[k]
  BY <1>1, AppendFacts
<1>3. n \in 0 .. Len(m) /\ n <= Len(t) /\ \A k \in 1 .. n : t[k] = m[k]
  BY <1>2
<1>4. SubSeq(t, 1, n) = SubSeq(m, 1, n)
  BY <1>2, <1>3, SubSeqSame
<1>5. SubSeq(t, 1, Len(t)) = t
  BY <1>2, SubSeqFull
<1> QED BY <1>1, <1>2, <1>4, <1>5

\* What is appended to a replay whose calls are explained.
LEMMA ExplainedAppend ==
  ASSUME NEW r, Sound(r), NEW q, NEW a \in Messages, NEW open, NEW more, NEW known,
         Explained(r, open, known),
         q.messages = Append(r.messages, a),
         q.safe = IF more = {} THEN Len(r.messages) + 1 ELSE r.safe,
         Unanswered(q.messages) \subseteq known \cup more
  PROVE  Explained(q, more, known)
<1>1. r.messages \in Seq(Messages) /\ r.safe \in Nat /\ r.safe <= Len(r.messages)
  BY DEF Sound, States
<1>2. /\ SubSeq(q.messages, 1, r.safe) = SubSeq(r.messages, 1, r.safe)
      /\ SubSeq(q.messages, 1, Len(r.messages) + 1) = q.messages
  BY <1>1, SafeFacts
<1>3. CASE more = {}
  BY <1>2, <1>3 DEF Explained
<1>4. CASE more # {}
  BY <1>2, <1>4 DEF Explained
<1> QED BY <1>3, <1>4

LEMMA ExplainedUser ==
  ASSUME NEW r, Sound(r), NEW e \in Entries, e.kind = "user", NEW known,
         Explained(r, {}, known)
  PROVE  Explained(Read(r, e), Read(r, e).open, known)
<1> DEFINE a == [role |-> "user", id |-> e.id, header |-> e.header \/ (r.pending /\ e.external)]
<1>1. /\ Read(r, e).messages = Append(r.messages, a) /\ Read(r, e).open = {}
      /\ Read(r, e).safe = Len(r.messages) + 1
  BY ReadUserFacts
<1>2. e.id \in Ids /\ (e.header \/ (r.pending /\ e.external)) \in BOOLEAN
  BY DEF Entries
<1>3. a \in Messages /\ a.role = "user"
  BY <1>2 DEF Messages
<1> HIDE DEF a
<1>4. r.messages \in Seq(Messages)
  BY DEF Sound, States
<1>5. Unanswered(Append(r.messages, a)) \subseteq Unanswered(r.messages)
  BY <1>3, <1>4, UnansweredAppend
<1>6. Unanswered(Read(r, e).messages) \subseteq known \cup {}
  BY <1>1, <1>5 DEF Explained
<1> QED BY <1>1, <1>3, <1>6, ExplainedAppend

LEMMA ExplainedModel ==
  ASSUME NEW r, Sound(r), NEW e \in Entries, e.kind = "model", NEW known,
         Explained(r, {}, known)
  PROVE  Explained(Read(r, e), Read(r, e).open, known)
<1> DEFINE a == [role |-> "assistant", id |-> e.id, calls |-> e.calls]
<1>1. /\ Read(r, e).messages = Append(r.messages, a) /\ Read(r, e).open = CallIds(e)
      /\ Read(r, e).safe = IF CallIds(e) = {} THEN Len(r.messages) + 1 ELSE r.safe
  BY ReadModelFacts
<1>2. e.id \in Ids /\ e.calls \in 0 .. MaxCalls
  BY DEF Entries
<1>3. a \in Messages /\ a.role = "assistant" /\ CallIds(a) = CallIds(e)
  BY <1>2 DEF Messages, CallIds
<1> HIDE DEF a
<1>4. r.messages \in Seq(Messages)
  BY DEF Sound, States
<1>5. Unanswered(Append(r.messages, a)) \subseteq Unanswered(r.messages) \cup CallIds(e)
  BY <1>3, <1>4, UnansweredAppend
<1>6. Unanswered(Read(r, e).messages) \subseteq known \cup CallIds(e)
  BY <1>1, <1>5 DEF Explained
<1> QED BY <1>1, <1>3, <1>6, ExplainedAppend

LEMMA ExplainedObservation ==
  ASSUME NEW r, Sound(r), NEW e \in Entries, e.kind = "tool_observation", NEW known,
         Explained(r, r.open, known)
  PROVE  Explained(Read(r, e), Read(r, e).open, known)
<1> DEFINE a == [role |-> "tool", call |-> e.call]
           more == r.open \ {e.call}
<1>1. /\ Read(r, e).messages = Append(r.messages, a) /\ Read(r, e).open = more
      /\ Read(r, e).safe = IF more = {} THEN Len(r.messages) + 1 ELSE r.safe
  BY ReadObservationFacts
<1>2. a \in Messages /\ a.role = "tool" /\ a.call = e.call
  <2>1. e.call \in Calls
    BY DEF Entries
  <2> QED BY <2>1 DEF Messages
<1> HIDE DEF a
<1>3. r.messages \in Seq(Messages)
  BY DEF Sound, States
<1>4. Unanswered(Append(r.messages, a)) \subseteq Unanswered(r.messages) \ {e.call}
  BY <1>2, <1>3, UnansweredAppend
<1>5. Unanswered(Read(r, e).messages) \subseteq known \cup more
  BY <1>1, <1>4 DEF Explained
<1> HIDE DEF more
<1> QED BY <1>1, <1>2, <1>5, ExplainedAppend

LEMMA ExplainedFinal ==
  ASSUME NEW r, Sound(r), NEW e \in Entries, e.kind = "final", NEW known,
         Explained(r, {}, known)
  PROVE  Explained(Read(r, e), {}, known)
<1>1. Read(r, e).messages = r.messages /\ Read(r, e).safe = Len(r.messages)
  BY ReadFinalFacts
<1>2. r.messages \in Seq(Messages)
  BY DEF Sound, States
<1>3. SubSeq(r.messages, 1, Len(r.messages)) = r.messages
  BY <1>2, SubSeqFull
<1> QED BY <1>1, <1>3 DEF Explained

\* A turn that is cut off leaves its last complete batch.
LEMMA ExplainedCancelled ==
  ASSUME NEW r, Sound(r), r.begun, NEW e \in Entries, e.kind = "cancelled",
         NEW open, NEW known, Explained(r, open, known)
  PROVE  Explained(Read(r, e), {}, known)
<1>1. Read(r, e).messages = Cut(r) /\ Read(r, e).safe = r.safe
  BY ReadCancelledFacts
<1>2. Cut(r) = SubSeq(r.messages, 1, r.safe)
  BY DEF Cut
<1>3. SubSeq(Cut(r), 1, r.safe) = SubSeq(r.messages, 1, r.safe)
  BY CutFacts
<1> QED BY <1>1, <1>2, <1>3 DEF Explained

-----------------------------------------------------------------------------
(* The model goes on from no call without its observation.                 *)

\* The calls that a rollout under way has yet to observe.
ToObserve(x) == IF Running(x) THEN Replay(x).open ELSE {}

\* The log of the root up to an event.
Until(n) == SubSeq(log[Root], 1, n)

\* In each session, and wherever a fork could begin.
AnswersInv ==
  /\ \A x \in Sessions : Explained(Replay(x), ToObserve(x), lost)
  /\ \A n \in DOMAIN log[Root] :
       Ends(log[Root][n]) => Unanswered(ReadAll(Blank, Until(n)).messages) \subseteq lost

LEMMA RootReplay == Replay(Root) = ReadAll(Blank, log[Root])
BY TranscriptsAssumption DEF Replay, Context

\* The beginnings of the root's log stay.
LEMMA UntilKept ==
  ASSUME TablesOK, NEW x \in Sessions, NEW s \in Seq(Entries),
         Len(log[x]) <= Len(s), \A k \in 1 .. Len(log[x]) : s[k] = log[x][k],
         log' = [log EXCEPT ![x] = s], UNCHANGED <<child, through>>
  PROVE  /\ \A n \in 0 .. Len(log[Root]) : Until(n)' = Until(n)
         /\ \A n \in 1 .. Len(log[Root]) : log'[Root][n] = log[Root][n]
         /\ DOMAIN log'[Root] = 1 .. Len(log'[Root]) /\ Len(log'[Root]) \in Nat
         /\ \A n \in DOMAIN log'[Root] : n \notin 1 .. Len(log[Root]) =>
              x = Root /\ log'[Root] = s /\ n \in Len(log[x]) + 1 .. Len(s)
         /\ SubSeq(log'[Root], 1, Len(log'[Root])) = log'[Root]
<1>1. /\ log' \in [Sessions -> Seq(Entries)] /\ log'[x] = s
      /\ \A y \in Sessions : y # x => log'[y] = log[y]
  BY GrowFacts
<1>2. Root \in Sessions
  BY DEF Sessions
<1>3. PICK a : a = log[Root]
  OBVIOUS
<1>4. PICK b : b = log'[Root]
  OBVIOUS
<1>5. a \in Seq(Entries) /\ b \in Seq(Entries) /\ Len(a) \in Nat /\ Len(b) \in Nat
  <2>1. log[Root] \in Seq(Entries) /\ log'[Root] \in Seq(Entries)
    BY <1>1, <1>2, LogFacts
  <2> QED BY <2>1, <1>3, <1>4
<1>6. Len(a) <= Len(b) /\ \A n \in 1 .. Len(a) : b[n] = a[n]
  <2>1. CASE x = Root
    BY <2>1, <1>1, <1>3, <1>4
  <2>2. CASE x # Root
    <3>1. a = b
      BY <2>2, <1>1, <1>2, <1>3, <1>4
    <3>2. Len(a) <= Len(a)
      BY <1>5
    <3> QED BY <3>1, <3>2
  <2> QED BY <2>1, <2>2
<1>7. ASSUME NEW n \in 0 .. Len(a)
      PROVE  SubSeq(b, 1, n) = SubSeq(a, 1, n)
  <2>1. n <= Len(b) /\ \A k \in 1 .. n : b[k] = a[k]
    BY <1>5, <1>6
  <2> QED BY <2>1, <1>5, SubSeqSame
<1>8. SubSeq(b, 1, Len(b)) = b /\ DOMAIN b = 1 .. Len(b)
  BY <1>5, SubSeqFull
<1>9. ASSUME NEW n \in DOMAIN b, n \notin 1 .. Len(a)
      PROVE  x = Root /\ b = s /\ n \in Len(log[x]) + 1 .. Len(s)
  <2>1. x = Root
    <3>1. CASE x # Root
      <4>1. a = b
        BY <3>1, <1>1, <1>2, <1>3, <1>4
      <4> QED BY <4>1, <1>8, <1>9
    <3> QED BY <3>1
  <2>2. b = s /\ a = log[x]
    BY <2>1, <1>1, <1>3, <1>4
  <2>3. n \in 1 .. Len(b)
    BY <1>8
  <2>4. n \in Len(a) + 1 .. Len(b)
    BY <2>3, <1>5, <1>9
  <2> QED BY <2>1, <2>2, <2>4
<1>10. \A n \in 0 .. Len(log[Root]) : Until(n)' = Until(n)
  BY <1>3, <1>4, <1>7 DEF Until
<1> QED BY <1>3, <1>4, <1>5, <1>6, <1>8, <1>9, <1>10

LEMMA AnswersStep ==
  ASSUME RunInv, AnswersInv, NEW x \in Sessions, NEW s \in Seq(Entries),
         Len(log[x]) <= Len(s), \A k \in 1 .. Len(log[x]) : s[k] = log[x][k],
         log' = [log EXCEPT ![x] = s], Alone(x), lost \subseteq lost',
         Explained(Replay(x)', ToObserve(x)', lost'),
         \A k \in Len(log[x]) + 1 .. Len(s) : Ends(s[k]) => k = Len(s) /\ ~ Running(x)'
  PROVE  AnswersInv'
<1>1. TablesOK /\ UNCHANGED <<child, through>>
  BY DEF RunInv, Alone
<1>2. ASSUME NEW y \in Sessions, y # x
      PROVE  Explained(Replay(y)', ToObserve(y)', lost')
  <2>1. Replay(y)' = Replay(y)
    BY <1>1, <1>2, GrowFacts
  <2>2. ToObserve(y)' = ToObserve(y)
    BY <2>1, <1>2 DEF ToObserve, Running, Alone
  <2> QED BY <2>1, <2>2 DEF AnswersInv, Explained
<1>3. ASSUME NEW n \in DOMAIN log'[Root], Ends(log'[Root][n])
      PROVE  Unanswered(ReadAll(Blank, Until(n)').messages) \subseteq lost'
  <2>1. CASE n \in 1 .. Len(log[Root])
    <3>1. n \in 0 .. Len(log[Root]) /\ n \in DOMAIN log[Root]
      <4>1. Root \in Sessions
        BY DEF Sessions
      <4> QED BY <4>1, <2>1, <1>1, LogFacts
    <3>2. Until(n)' = Until(n) /\ log'[Root][n] = log[Root][n]
      BY <2>1, <3>1, <1>1, UntilKept
    <3> QED BY <3>1, <3>2, <1>3 DEF AnswersInv
  <2>2. CASE n \notin 1 .. Len(log[Root])
    <3>1. x = Root /\ log'[Root] = s /\ n \in Len(log[x]) + 1 .. Len(s)
      BY <2>2, <1>1, UntilKept
    <3>2. n = Len(s) /\ ~ Running(x)'
      BY <3>1, <1>3
    <3>3. Until(n)' = log'[Root]
      <4>1. SubSeq(log'[Root], 1, Len(log'[Root])) = log'[Root]
        BY <1>1, UntilKept
      <4> QED BY <4>1, <3>1, <3>2 DEF Until
    <3>4. ReadAll(Blank, Until(n)') = Replay(x)'
      <4>1. Replay(Root)' = ReadAll(Blank, log'[Root])
        BY TranscriptsAssumption DEF Replay, Context
      <4> QED BY <4>1, <3>1, <3>2, <3>3
    <3>5. ToObserve(x)' = {}
      BY <3>2 DEF ToObserve
    <3> QED BY <3>4, <3>5 DEF Explained
  <2> QED BY <2>1, <2>2
<1>4. \A y \in Sessions : Explained(Replay(y)', ToObserve(y)', lost')
  BY <1>2
<1> QED BY <1>3, <1>4 DEF AnswersInv, Until

LEMMA AnswersOne ==
  ASSUME RunInv, AnswersInv, NEW x \in Sessions, NEW e \in Entries, One(x, e),
         lost' = lost, Ends(e) => ~ Running(x)',
         Explained(Read(Replay(x), e),
                   IF Running(x)' THEN Read(Replay(x), e).open ELSE {}, lost)
  PROVE  AnswersInv'
<1>1. TablesOK /\ UNCHANGED <<child, through>> /\ Alone(x)
  BY DEF RunInv, One, Alone
<1>2. PICK s : s = Append(log[x], e)
  OBVIOUS
<1>3. log[x] \in Seq(Entries)
  BY <1>1, LogFacts
<1>4. /\ s \in Seq(Entries) /\ Len(s) = Len(log[x]) + 1 /\ Len(log[x]) \in Nat
      /\ \A k \in 1 .. Len(log[x]) : s[k] = log[x][k]
      /\ s[Len(log[x]) + 1] = e
  BY <1>2, <1>3, AppendFacts
<1>5. Len(log[x]) <= Len(s)
  BY <1>4
<1>6. log' = [log EXCEPT ![x] = s]
  BY <1>2 DEF One
<1>7. Replay(x)' = Read(Replay(x), e)
  BY <1>1, <1>2, <1>6, AppendedReplay
<1>8. Explained(Replay(x)', ToObserve(x)', lost')
  BY <1>7 DEF ToObserve
<1>9. \A k \in Len(log[x]) + 1 .. Len(s) : Ends(s[k]) => k = Len(s) /\ ~ Running(x)'
  <2>1. \A k \in Len(log[x]) + 1 .. Len(s) : k = Len(log[x]) + 1 /\ k = Len(s)
    BY <1>4
  <2> QED BY <2>1, <1>4
<1>10. lost \subseteq lost'
  OBVIOUS
<1> QED BY <1>1, <1>4, <1>5, <1>6, <1>8, <1>9, <1>10, AnswersStep

\* A log that grows by two.
LEMMA TwoFacts ==
  ASSUME TablesOK, NEW x \in Sessions, NEW d \in Entries, NEW e \in Entries, Two(x, d, e)
  PROVE  \E s \in Seq(Entries) :
           /\ Len(s) = Len(log[x]) + 2 /\ Len(log[x]) \in Nat /\ Len(log[x]) <= Len(s)
           /\ \A k \in 1 .. Len(log[x]) : s[k] = log[x][k]
           /\ s[Len(log[x]) + 1] = d /\ s[Len(log[x]) + 2] = e
           /\ s = Append(Append(log[x], d), e)
           /\ log' = [log EXCEPT ![x] = s] /\ log'[x] = s
           /\ Replay(x)' = Read(Read(Replay(x), d), e)
<1>1. UNCHANGED <<child, through>>
  BY DEF Two, Alone
<1>2. PICK t : t = Append(log[x], d)
  OBVIOUS
<1>3. PICK s : s = Append(t, e)
  OBVIOUS
<1>4. log[x] \in Seq(Entries)
  BY LogFacts
<1>5. /\ t \in Seq(Entries) /\ Len(t) = Len(log[x]) + 1 /\ Len(log[x]) \in Nat
      /\ \A k \in 1 .. Len(log[x]) : t[k] = log[x][k]
      /\ t[Len(log[x]) + 1] = d
  BY <1>2, <1>4, AppendFacts
<1>6. /\ s \in Seq(Entries) /\ Len(s) = Len(t) + 1
      /\ \A k \in 1 .. Len(t) : s[k] = t[k]
      /\ s[Len(t) + 1] = e
  BY <1>3, <1>5, AppendFacts
<1>7. /\ Len(s) = Len(log[x]) + 2 /\ Len(log[x]) <= Len(s)
      /\ \A k \in 1 .. Len(log[x]) : s[k] = log[x][k]
      /\ s[Len(log[x]) + 1] = d /\ s[Len(log[x]) + 2] = e
  <2>1. Len(s) = Len(log[x]) + 2 /\ Len(log[x]) <= Len(s) /\ Len(t) + 1 = Len(log[x]) + 2
    BY <1>5, <1>6
  <2>2. \A k \in 1 .. Len(log[x]) : s[k] = log[x][k]
    BY <1>5, <1>6
  <2>3. s[Len(log[x]) + 1] = d
    <3>1. Len(log[x]) + 1 \in 1 .. Len(t)
      BY <1>5
    <3> QED BY <3>1, <1>5, <1>6
  <2>4. s[Len(log[x]) + 2] = e
    BY <2>1, <1>6
  <2> QED BY <2>1, <2>2, <2>3, <2>4
<1>8. log' = [log EXCEPT ![x] = s]
  BY <1>2, <1>3 DEF Two
<1>9. log'[x] = s /\ Replay(x)' = ReadAll(Context(x), s)
  BY <1>1, <1>6, <1>7, <1>8, GrowFacts
<1>10. Replay(x)' = Read(Read(Replay(x), d), e)
  BY <1>2, <1>3, <1>9, GrowByTwo
<1> QED BY <1>2, <1>3, <1>5, <1>6, <1>7, <1>8, <1>9, <1>10

LEMMA AnswersTwo ==
  ASSUME RunInv, AnswersInv, NEW x \in Sessions, NEW d \in Entries, NEW e \in Entries,
         Two(x, d, e), lost' = lost, ~ Ends(d), ~ Running(x)',
         Explained(Read(Read(Replay(x), d), e), {}, lost)
  PROVE  AnswersInv'
<1>1. TablesOK /\ Alone(x)
  BY DEF RunInv, Two
<1>2. PICK s \in Seq(Entries) :
           /\ Len(s) = Len(log[x]) + 2 /\ Len(log[x]) \in Nat /\ Len(log[x]) <= Len(s)
           /\ \A k \in 1 .. Len(log[x]) : s[k] = log[x][k]
           /\ s[Len(log[x]) + 1] = d
           /\ log' = [log EXCEPT ![x] = s]
           /\ Replay(x)' = Read(Read(Replay(x), d), e)
  BY <1>1, TwoFacts
<1>3. Explained(Replay(x)', ToObserve(x)', lost')
  BY <1>2 DEF ToObserve
<1>4. \A k \in Len(log[x]) + 1 .. Len(s) : Ends(s[k]) => k = Len(s) /\ ~ Running(x)'
  <2>1. \A k \in Len(log[x]) + 1 .. Len(s) : k = Len(log[x]) + 1 \/ k = Len(s)
    BY <1>2
  <2> QED BY <2>1, <1>2
<1>5. lost \subseteq lost'
  OBVIOUS
<1> QED BY <1>1, <1>2, <1>3, <1>4, <1>5, AnswersStep

LEMMA InitReplay ==
  ASSUME Init, NEW x \in Sessions
  PROVE  Replay(x) = Blank /\ ~ Running(x) /\ log[x] = <<>>
<1>1. log[x] = <<>> /\ run[x] = Idle /\ child = "none"
  BY DEF Init
<1>2. Context(x) = Blank
  BY <1>1 DEF Context
<1> QED BY <1>1, <1>2, ReadAllEmpty DEF Replay, Running, Idle

LEMMA BlankExplained == ASSUME NEW known PROVE Explained(Blank, {}, known)
<1>1. Blank.messages = <<>> /\ Blank.safe = 0
  BY DEF Blank
<1>2. SubSeq(<<>>, 1, 0) = <<>>
  OBVIOUS
<1> QED BY <1>1, <1>2, UnansweredEmpty DEF Explained

LEMMA InitAnswers == Init => AnswersInv
<1> SUFFICES ASSUME Init PROVE AnswersInv
  OBVIOUS
<1>1. \A x \in Sessions : Explained(Replay(x), ToObserve(x), lost)
  BY InitReplay, BlankExplained DEF ToObserve
<1>2. DOMAIN log[Root] = {}
  <2>1. log[Root] = <<>>
    BY InitReplay DEF Sessions
  <2> QED BY <2>1
<1> QED BY <1>1, <1>2 DEF AnswersInv

\* A step that changes neither the logs nor what is to be observed.
LEMMA AnswersSame ==
  ASSUME AnswersInv, log' = log, lost' = lost,
         \A y \in Sessions : Replay(y)' = Replay(y) /\ Running(y)' = Running(y)
  PROVE  AnswersInv'
<1>1. \A y \in Sessions : ToObserve(y)' = ToObserve(y)
  BY DEF ToObserve
<1>2. \A n : Until(n)' = Until(n)
  BY DEF Until
<1> QED BY <1>1, <1>2 DEF AnswersInv

LEMMA PromptAnswers ==
  ASSUME RunInv, AnswersInv, NEW x \in Sessions, NEW external \in BOOLEAN,
         Prompt(x, external)
  PROVE  AnswersInv'
<1>1. PICK e \in Entries : e.kind = "user" /\ One(x, e) /\ ~ Running(x)
  BY PromptAppends
<1>2. Sound(Replay(x)) /\ lost' = lost
  BY ReplaySound DEF RunInv, Prompt
<1>3. Explained(Replay(x), {}, lost)
  BY <1>1 DEF AnswersInv, ToObserve
<1>4. Explained(Read(Replay(x), e), Read(Replay(x), e).open, lost)
  BY <1>1, <1>2, <1>3, ExplainedUser
<1>5. Read(Replay(x), e).open = {}
  BY <1>1, <1>2, ReadUserFacts
<1>6. ~ Ends(e)
  BY <1>1 DEF Ends
<1> QED BY <1>1, <1>2, <1>4, <1>5, <1>6, AnswersOne

LEMMA AskForCallsAnswers ==
  ASSUME RunInv, AnswersInv, NEW x \in Sessions, NEW n \in 1 .. MaxCalls, AskForCalls(x, n)
  PROVE  AnswersInv'
<1>1. PICK e \in Entries : e.kind = "model" /\ One(x, e) /\ Running(x)'
  BY AskForCallsAppends
<1>2. Running(x) /\ run[x].phase = "asking" /\ lost' = lost
  BY DEF AskForCalls, Asking, Running
<1>3. Sound(Replay(x)) /\ Replay(x).open = {}
  BY <1>2, ActiveFacts DEF RolloutOK
<1>4. Explained(Replay(x), {}, lost)
  BY <1>2, <1>3 DEF AnswersInv, ToObserve
<1>5. Explained(Read(Replay(x), e), Read(Replay(x), e).open, lost)
  BY <1>1, <1>3, <1>4, ExplainedModel
<1>6. ~ Ends(e)
  BY <1>1 DEF Ends
<1> QED BY <1>1, <1>2, <1>5, <1>6, AnswersOne

LEMMA ModelFailsAnswers ==
  ASSUME RunInv, AnswersInv, NEW x \in Sessions, ModelFails(x)
  PROVE  AnswersInv'
<1>1. PICK e \in Entries : e.kind = "model_failed" /\ One(x, e) /\ ~ Running(x)'
  BY ModelFailsAppends
<1>2. Running(x) /\ run[x].phase = "asking" /\ lost' = lost
  BY DEF ModelFails, Asking, Running
<1>3. Replay(x).open = {}
  BY <1>2, ActiveFacts DEF RolloutOK
<1>4. Explained(Replay(x), {}, lost)
  BY <1>2, <1>3 DEF AnswersInv, ToObserve
<1>5. Read(Replay(x), e) = Replay(x)
  BY <1>1, ReadFailedFacts
<1> QED BY <1>1, <1>2, <1>4, <1>5, AnswersOne

LEMMA AnswerAnswers ==
  ASSUME RunInv, AnswersInv, NEW x \in Sessions, Answer(x)
  PROVE  AnswersInv'
<1>1. PICK d \in Entries, e \in Entries :
        d.kind = "model" /\ d.calls = 0 /\ e.kind = "final" /\ Two(x, d, e) /\ ~ Running(x)'
  BY AnswerAppends
<1>2. Running(x) /\ run[x].phase = "asking" /\ lost' = lost
  BY DEF Answer, Asking, Running
<1>3. Sound(Replay(x)) /\ Replay(x).open = {}
  BY <1>2, ActiveFacts DEF RolloutOK
<1>4. Explained(Replay(x), {}, lost)
  BY <1>2, <1>3 DEF AnswersInv, ToObserve
<1>5. CallIds(d) = {}
  BY <1>1 DEF CallIds
<1>6. Explained(Read(Replay(x), d), {}, lost) /\ Sound(Read(Replay(x), d))
  BY <1>1, <1>3, <1>4, <1>5, ExplainedModel, ReadModelFacts
<1>7. Explained(Read(Read(Replay(x), d), e), {}, lost)
  BY <1>1, <1>6, ExplainedFinal
<1>8. ~ Ends(d)
  BY <1>1 DEF Ends
<1> QED BY <1>1, <1>2, <1>7, <1>8, AnswersTwo

LEMMA StoppedAnswers ==
  ASSUME RunInv, AnswersInv, NEW x \in Sessions, Stopped(x) \/ ToolCancelled(x)
  PROVE  AnswersInv'
<1>1. PICK e \in Entries : e.kind = "cancelled" /\ One(x, e) /\ Running(x) /\ ~ Running(x)'
  BY StoppedAppends
<1>2. Sound(Replay(x)) /\ Replay(x).begun
  BY <1>1, ActiveFacts DEF RolloutOK
<1>3. Explained(Replay(x), ToObserve(x), lost)
  BY DEF AnswersInv
<1>4. Explained(Read(Replay(x), e), {}, lost)
  BY <1>1, <1>2, <1>3, ExplainedCancelled
<1>5. lost' = lost
  BY DEF Stopped, ToolCancelled, EndCancelled
<1> QED BY <1>1, <1>4, <1>5, AnswersOne

LEMMA ObserveAnswers ==
  ASSUME RunInv, AnswersInv, NEW x \in Sessions, Observe(x)
  PROVE  AnswersInv'
<1> DEFINE d == Observation(x)
<1>1. Running(x) /\ run[x].phase = "calling"
  BY ObserveAppends
<1>2. Sound(Replay(x)) /\ Replay(x).begun
  BY <1>1, ActiveFacts DEF RolloutOK
<1>3. /\ d \in Entries /\ d.kind = "tool_observation"
      /\ IsLast(x) <=> Replay(x).open \ {d.call} = {}
  BY <1>1, ObservationFacts
<1>4. lost' = lost
  <2>1. CASE EndCancelled(x, Append(log[x], Observation(x)), run[x].byUser)
    BY <2>1 DEF EndCancelled
  <2>2. CASE ~ EndCancelled(x, Append(log[x], Observation(x)), run[x].byUser)
    BY <2>2, ObserveCases
  <2> QED BY <2>1, <2>2
<1>5. Explained(Replay(x), Replay(x).open, lost)
  BY <1>1 DEF AnswersInv, ToObserve
<1> HIDE DEF d
<1>6. /\ Explained(Read(Replay(x), d), Read(Replay(x), d).open, lost)
      /\ Sound(Read(Replay(x), d)) /\ Read(Replay(x), d).begun
      /\ Read(Replay(x), d).open = Replay(x).open \ {d.call}
  BY <1>2, <1>3, <1>5, ExplainedObservation, ReadObservationFacts
<1>7. ~ Ends(d)
  BY <1>3 DEF Ends
<1>8. CASE One(x, d) /\ Running(x)'
  BY <1>3, <1>4, <1>6, <1>7, <1>8, AnswersOne
<1>9. CASE ~ (One(x, d) /\ Running(x)')
  <2>1. PICK e \in Entries : e.kind = "cancelled" /\ Two(x, d, e) /\ ~ Running(x)'
    BY <1>9, ObserveAppends DEF d
  <2>2. Explained(Read(Read(Replay(x), d), e), {}, lost)
    BY <1>6, <2>1, ExplainedCancelled
  <2> QED BY <1>3, <1>4, <1>7, <2>1, <2>2, AnswersTwo
<1> QED BY <1>8, <1>9

LEMMA FlagsAnswers ==
  ASSUME RunInv, AnswersInv, NEW x \in Sessions,
         GracefulStop(x) \/ \E user \in BOOLEAN : ForceStop(x, user)
  PROVE  AnswersInv'
<1>1. TablesOK
  BY DEF RunInv
<1>2. UNCHANGED <<log, child, through>> /\ lost' = lost
  <2>1. CASE GracefulStop(x)
    BY <2>1 DEF GracefulStop, context
  <2>2. CASE ~ GracefulStop(x)
    BY <2>2 DEF ForceStop, context
  <2> QED BY <2>1, <2>2
<1>3. \A y \in Sessions : run'[y].phase = run[y].phase
  <2>1. run[x] \in Rollouts
    <3>1. run[x] # Idle \/ Running(x)
      BY DEF GracefulStop, ForceStop, Idle
    <3> QED BY <3>1, <1>1, RunFacts
  <2>2. CASE GracefulStop(x)
    BY <2>1, <2>2, <1>1 DEF GracefulStop, TablesOK, Rollouts
  <2>3. CASE \E user \in BOOLEAN : ForceStop(x, user)
    <3>1. PICK user \in BOOLEAN : ForceStop(x, user)
      BY <2>3
    <3> QED BY <2>1, <3>1, <1>1 DEF ForceStop, TablesOK, Rollouts
  <2> QED BY <2>2, <2>3
<1>4. \A y \in Sessions : Replay(y)' = Replay(y) /\ Running(y)' = Running(y)
  BY <1>2, <1>3, ReplaySame DEF Running
<1> QED BY <1>2, <1>4, AnswersSame

LEMMA BreakAnswers ==
  ASSUME RunInv, AnswersInv, NEW x \in Sessions, Break(x)
  PROVE  AnswersInv'
<1>1. TablesOK /\ Running(x)
  BY DEF RunInv, Break
<1>2. /\ UNCHANGED <<log, child, through>> /\ run' = [run EXCEPT ![x] = Idle]
      /\ lost' = lost \cup Replay(x).open
  BY DEF Break, context
<1>3. Alone(x) /\ ~ Running(x)'
  BY <1>1, <1>2, IdleAfter
<1>4. PICK s : s = log[x]
  OBVIOUS
<1>5. /\ s \in Seq(Entries) /\ Len(log[x]) <= Len(s)
      /\ \A k \in 1 .. Len(log[x]) : s[k] = log[x][k]
      /\ Len(log[x]) = Len(s) /\ Len(s) \in Nat
  <2>1. Len(s) \in Nat /\ Len(log[x]) = Len(s)
    BY <1>1, <1>4, LogFacts
  <2> QED BY <1>1, <1>4, <2>1, GrowByNone
<1>6. log' = [log EXCEPT ![x] = s]
  <2>1. log \in [Sessions -> Seq(Entries)]
    BY <1>1 DEF TablesOK
  <2> QED BY <2>1, <1>2, <1>4
<1>7. Explained(Replay(x), Replay(x).open, lost)
  BY <1>1 DEF AnswersInv, ToObserve
<1>8. Explained(Replay(x)', ToObserve(x)', lost')
  <2>1. Replay(x)' = Replay(x) /\ ToObserve(x)' = {}
    BY <1>2, <1>3, ReplaySame DEF ToObserve
  <2> QED BY <2>1, <1>2, <1>7 DEF Explained
<1>9. \A k \in Len(log[x]) + 1 .. Len(s) : FALSE
  BY <1>5
<1>10. lost \subseteq lost'
  BY <1>2
<1> QED BY <1>3, <1>5, <1>6, <1>8, <1>9, <1>10, AnswersStep

LEMMA CrashAnswers ==
  ASSUME RunInv, AnswersInv, Crash
  PROVE  AnswersInv'
<1>1. /\ UNCHANGED <<log, child, through>> /\ run' = [x \in Sessions |-> Idle]
      /\ lost' = lost \cup UNION {Replay(x).open : x \in {y \in Sessions : Running(y)}}
  BY DEF Crash
<1>2. ASSUME NEW x \in Sessions
      PROVE  Explained(Replay(x)', ToObserve(x)', lost')
  <2>1. Replay(x)' = Replay(x) /\ ToObserve(x)' = {}
    BY <1>1, ReplaySame DEF ToObserve, Running, Idle
  <2>2. ToObserve(x) \subseteq lost' /\ lost \subseteq lost'
    BY <1>1 DEF ToObserve
  <2>3. Explained(Replay(x), ToObserve(x), lost)
    BY DEF AnswersInv
  <2>4. Explained(Replay(x), {}, lost')
    BY <2>2, <2>3 DEF Explained
  <2> QED BY <2>1, <2>4
<1>3. \A n : Until(n)' = Until(n)
  BY <1>1 DEF Until
<1>4. lost \subseteq lost'
  BY <1>1
<1> QED BY <1>1, <1>2, <1>3, <1>4 DEF AnswersInv

\* A fork begins where a turn of the root ended.
LEMMA ForkReplay ==
  ASSUME RunInv, Fork
  PROVE  /\ Replay(Child)' = Inherit(ReadAll(Blank, Until(through')))
         /\ Replay(Root)' = Replay(Root)
         /\ through' \in 0 .. Len(log[Root])
         /\ through' # 0 => through' \in DOMAIN log[Root] /\ Ends(log[Root][through'])
         /\ Sound(ReadAll(Blank, Until(through')))
<1>1. TablesOK /\ Root \in Sessions /\ Child \in Sessions
  BY DEF RunInv, Sessions
<1>2. child = "none" /\ child' = "fork" /\ log' = log /\ through' = Boundary(log[Root])
  BY DEF Fork
<1>3. log[Child] = <<>> /\ log[Root] \in Seq(Entries) /\ DOMAIN log[Root] = 1 .. Len(log[Root])
  BY <1>1, <1>2, LogFacts DEF TablesOK
<1>4. through' \in 0 .. Len(log[Root]) /\ (through' # 0 => Ends(log[Root][through']))
  BY <1>2, <1>3, BoundaryFacts
<1>5. Context(Child)' = Inherit(ReadAll(Blank, Until(through')))
  BY <1>2 DEF Context, Until
<1>6. Replay(Child)' = Context(Child)'
  BY <1>2, <1>3, ReadAllEmpty DEF Replay
<1>7. Replay(Root)' = Replay(Root)
  BY <1>2, TranscriptsAssumption DEF Replay, Context
<1>8. Until(through') \in Seq(Entries)
  BY <1>3, <1>4, SubSeqFacts DEF Until
<1>9. through' # 0 => through' \in DOMAIN log[Root]
  BY <1>3, <1>4
<1> QED BY <1>4, <1>5, <1>6, <1>7, <1>8, <1>9, BlankSound, ReadAllSound

LEMMA UntilNone == ASSUME RunInv PROVE Until(0) = <<>>
<1>1. log[Root] \in Seq(Entries)
  BY LogFacts DEF RunInv, Sessions
<1> QED BY <1>1, SubSeqEmpty DEF Until

LEMMA ForkAnswers ==
  ASSUME RunInv, AnswersInv, Fork
  PROVE  AnswersInv'
<1> DEFINE r == ReadAll(Blank, Until(through'))
<1>1. /\ Replay(Child)' = Inherit(r) /\ Replay(Root)' = Replay(Root) /\ Sound(r)
      /\ through' # 0 => through' \in DOMAIN log[Root] /\ Ends(log[Root][through'])
  BY ForkReplay
<1>2. log' = log /\ lost' = lost /\ run' = run /\ child = "none"
  BY DEF Fork
<1>3. Unanswered(r.messages) \subseteq lost
  <2>1. CASE through' = 0
    <3>1. r = Blank
      BY <2>1, UntilNone, ReadAllEmpty
    <3> QED BY <3>1, BlankExplained DEF Explained
  <2>2. CASE through' # 0
    BY <1>1, <2>2 DEF AnswersInv
  <2> QED BY <2>1, <2>2
<1> HIDE DEF r
<1>4. /\ Inherit(r).messages = r.messages /\ Inherit(r).safe = Len(r.messages)
      /\ Inherit(r).open = {} /\ r.messages \in Seq(Messages)
  BY <1>1, InheritFacts DEF Sound, States
<1>5. SubSeq(r.messages, 1, Len(r.messages)) = r.messages
  BY <1>4, SubSeqFull
<1>6. Explained(Replay(Child)', ToObserve(Child)', lost')
  <2>1. ToObserve(Child)' = {}
    BY <1>1, <1>4 DEF ToObserve
  <2> QED BY <2>1, <1>1, <1>2, <1>3, <1>4, <1>5 DEF Explained
<1>7. Explained(Replay(Root)', ToObserve(Root)', lost')
  <2>1. ToObserve(Root)' = ToObserve(Root)
    BY <1>1, <1>2 DEF ToObserve, Running
  <2> QED BY <2>1, <1>1, <1>2 DEF AnswersInv, Sessions
<1>8. \A n : Until(n)' = Until(n)
  BY <1>2 DEF Until
<1> QED BY <1>2, <1>6, <1>7, <1>8 DEF AnswersInv, Sessions

LEMMA CompactReplay ==
  ASSUME Compact, NEW y \in Sessions
  PROVE  Replay(y)' = Replay(y)
<1>1. log' = log /\ through' = through /\ child = "none" /\ child' = "compaction"
  BY DEF Compact
<1> QED BY <1>1 DEF Replay, Context

LEMMA AnswersKept == RunInv /\ AnswersInv /\ [Next]_vars => AnswersInv'
<1> SUFFICES ASSUME RunInv, AnswersInv, [Next]_vars PROVE AnswersInv'
  OBVIOUS
<1>1. ASSUME NEW x \in Sessions, NEW external \in BOOLEAN, Prompt(x, external)
      PROVE  AnswersInv'
  BY <1>1, PromptAnswers
<1>2. ASSUME NEW x \in Sessions, GracefulStop(x) \/ \E user \in BOOLEAN : ForceStop(x, user)
      PROVE  AnswersInv'
  BY <1>2, FlagsAnswers
<1>3. ASSUME NEW x \in Sessions, Stopped(x) \/ ToolCancelled(x) PROVE AnswersInv'
  BY <1>3, StoppedAnswers
<1>4. ASSUME NEW x \in Sessions, Answer(x) PROVE AnswersInv'
  BY <1>4, AnswerAnswers
<1>5. ASSUME NEW x \in Sessions, NEW n \in 1 .. MaxCalls, AskForCalls(x, n) PROVE AnswersInv'
  BY <1>5, AskForCallsAnswers
<1>6. ASSUME NEW x \in Sessions, ModelFails(x) PROVE AnswersInv'
  BY <1>6, ModelFailsAnswers
<1>7. ASSUME NEW x \in Sessions, Observe(x) PROVE AnswersInv'
  BY <1>7, ObserveAnswers
<1>8. ASSUME NEW x \in Sessions, Break(x) PROVE AnswersInv'
  BY <1>8, BreakAnswers
<1>9. CASE Crash
  BY <1>9, CrashAnswers
<1>10. CASE Fork
  BY <1>10, ForkAnswers
<1>11. CASE Compact
  <2>1. log' = log /\ lost' = lost /\ run' = run
    BY <1>11 DEF Compact
  <2> QED BY <2>1, <1>11, CompactReplay, AnswersSame DEF Running
<1>12. CASE UNCHANGED vars
  <2>1. UNCHANGED <<log, child, through, run, lost>>
    BY <1>12 DEF vars, context
  <2> QED BY <2>1, ReplaySame, AnswersSame DEF Running
<1> QED
  BY <1>1, <1>2, <1>3, <1>4, <1>5, <1>6, <1>7, <1>8, <1>9, <1>10, <1>11, <1>12 DEF Next

LEMMA AnswersImply == RunInv /\ AnswersInv => CallsAnswered
<1> SUFFICES ASSUME RunInv, AnswersInv, NEW x \in Sessions, run[x].phase = "asking"
             PROVE  Unanswered(run[x].live) \subseteq lost
  BY DEF CallsAnswered
<1>1. Running(x)
  BY DEF Running
<1>2. RolloutOK(x)
  BY <1>1, ActiveFacts
<1>3. run[x].live = Replay(x).messages /\ Replay(x).open = {}
  BY <1>2 DEF RolloutOK
<1>4. Explained(Replay(x), {}, lost)
  BY <1>1, <1>3 DEF AnswersInv, ToObserve
<1> QED BY <1>3, <1>4 DEF Explained

\* The model goes on from no call of its own without the call's observation,
\* unless the rollout of that call was broken off (_session_replay's repair of
\* a cancelled turn, the boundary of a fork).
THEOREM NoCallIsOpen == Spec => []CallsAnswered
<1>1. Init => AnswersInv
  BY InitAnswers
<1>2. RunInv /\ AnswersInv /\ [Next]_vars => AnswersInv'
  BY AnswersKept
<1>3. RunInv /\ AnswersInv => CallsAnswered
  BY AnswersImply
<1> QED BY <1>1, <1>2, <1>3, RunInvHolds, PTL DEF Spec

-----------------------------------------------------------------------------
(* What a replay tells of the turns that were stopped.                     *)

\* The prompts that announce a stop, in the messages of a replay.
Marks(r) == {m.id : m \in {k \in Range(r.messages) : k.role = "user" /\ k.header}}

\* No prompt of the user before position n.
NoneBefore(h, n) == \A k \in 1 .. n - 1 : ~ IsExternal(h[k])

Announces(h, n, first) == IsExternal(h[n]) /\ (Due(h, n) \/ (first /\ NoneBefore(h, n)))

\* The replay r of the events h has the announcements it should have; first
\* says that the user's first prompt has one to make.  No prompt is cut off.
Told(h, r, first) ==
  /\ \A n \in DOMAIN h : h[n].kind = "user" => (h[n].id \in Marks(r) <=> Announces(h, n, first))
  /\ r.pending <=> Due(h, Len(h) + 1)
  /\ \A k \in DOMAIN r.messages : r.messages[k].role = "user" =>
       /\ \E n \in DOMAIN h : h[n].id = r.messages[k].id
       /\ r.begun => k <= r.safe

LEMMA MarksIs ==
  ASSUME NEW r, NEW i
  PROVE  i \in Marks(r) <=> \E k \in DOMAIN r.messages :
           r.messages[k].role = "user" /\ r.messages[k].header /\ r.messages[k].id = i
BY DEF Marks, Range

\* What is due depends on the events before.
LEMMA DueBefore ==
  ASSUME NEW S, NEW h \in Seq(S), NEW e \in S, NEW n \in 1 .. Len(h) + 1
  PROVE  /\ Due(Append(h, e), n) <=> Due(h, n)
         /\ NoneBefore(Append(h, e), n) <=> NoneBefore(h, n)
<1>1. PICK g : g = Append(h, e)
  OBVIOUS
<1>2. Len(h) \in Nat /\ \A k \in 1 .. Len(h) : g[k] = h[k]
  BY <1>1, AppendFacts
<1>3. \A k \in 1 .. n - 1 : g[k] = h[k]
  BY <1>2
<1>4. Due(g, n) <=> Due(h, n)
  <2>1. \A m \in 1 .. n - 1 : \A k \in m + 1 .. n - 1 : k \in 1 .. n - 1
    BY <1>2
  <2>2. ASSUME NEW m \in 1 .. n - 1
        PROVE  (\A k \in m + 1 .. n - 1 : ~ IsExternal(g[k]))
                 <=> (\A k \in m + 1 .. n - 1 : ~ IsExternal(h[k]))
    BY <1>3, <2>1
  <2> QED BY <1>3, <2>2 DEF Due
<1>5. NoneBefore(g, n) <=> NoneBefore(h, n)
  BY <1>3 DEF NoneBefore
<1> QED BY <1>1, <1>4, <1>5

\* What an event makes due.
LEMMA DueAfter ==
  ASSUME NEW S, NEW h \in Seq(S), NEW e \in S
  PROVE  /\ Due(Append(h, e), Len(h) + 2)
              <=> \/ e.kind = "cancelled" /\ e.user
                  \/ Due(h, Len(h) + 1) /\ ~ IsExternal(e)
         /\ NoneBefore(Append(h, e), Len(h) + 2)
              <=> NoneBefore(h, Len(h) + 1) /\ ~ IsExternal(e)
<1>1. PICK g : g = Append(h, e)
  OBVIOUS
<1>2. PICK N : N = Len(h)
  OBVIOUS
<1>3. N \in Nat /\ (\A k \in 1 .. N : g[k] = h[k]) /\ g[N + 1] = e
  BY <1>1, <1>2, AppendFacts
<1>4. (N + 2) - 1 = N + 1 /\ (N + 1) - 1 = N
  BY <1>3
<1>5. Due(g, N + 2) <=> \E m \in 1 .. N + 1 :
        /\ g[m].kind = "cancelled" /\ g[m].user
        /\ \A k \in m + 1 .. N + 1 : ~ IsExternal(g[k])
  BY <1>4 DEF Due
<1>6. Due(h, N + 1) <=> \E m \in 1 .. N :
        /\ h[m].kind = "cancelled" /\ h[m].user
        /\ \A k \in m + 1 .. N : ~ IsExternal(h[k])
  BY <1>4 DEF Due
<1>7. ASSUME NEW m \in 1 .. N
      PROVE  (\A k \in m + 1 .. N + 1 : ~ IsExternal(g[k]))
               <=> (\A k \in m + 1 .. N : ~ IsExternal(h[k])) /\ ~ IsExternal(e)
  <2>1. \A k \in m + 1 .. N : k \in 1 .. N /\ k \in m + 1 .. N + 1
    BY <1>3
  <2>2. \A k \in m + 1 .. N + 1 : k \in m + 1 .. N \/ k = N + 1
    BY <1>3
  <2>3. N + 1 \in m + 1 .. N + 1
    BY <1>3
  <2> QED BY <2>1, <2>2, <2>3, <1>3
<1>8. Due(g, N + 2) <=> \/ e.kind = "cancelled" /\ e.user
                        \/ Due(h, N + 1) /\ ~ IsExternal(e)
  <2>1. ASSUME Due(g, N + 2)
        PROVE  \/ e.kind = "cancelled" /\ e.user
               \/ Due(h, N + 1) /\ ~ IsExternal(e)
    <3>1. PICK m \in 1 .. N + 1 : /\ g[m].kind = "cancelled" /\ g[m].user
                                  /\ \A k \in m + 1 .. N + 1 : ~ IsExternal(g[k])
      BY <2>1, <1>5
    <3>2. CASE m = N + 1
      BY <3>1, <3>2, <1>3
    <3>3. CASE m # N + 1
      <4>1. m \in 1 .. N
        BY <3>3, <1>3
      <4> QED BY <4>1, <3>1, <1>3, <1>6, <1>7
    <3> QED BY <3>2, <3>3
  <2>2. ASSUME e.kind = "cancelled", e.user
        PROVE  Due(g, N + 2)
    <3>1. N + 1 \in 1 .. N + 1 /\ \A k \in (N + 1) + 1 .. N + 1 : FALSE
      BY <1>3
    <3> QED BY <3>1, <2>2, <1>3, <1>5
  <2>3. ASSUME Due(h, N + 1), ~ IsExternal(e)
        PROVE  Due(g, N + 2)
    <3>1. PICK m \in 1 .. N : /\ h[m].kind = "cancelled" /\ h[m].user
                              /\ \A k \in m + 1 .. N : ~ IsExternal(h[k])
      BY <2>3, <1>6
    <3>2. m \in 1 .. N + 1 /\ g[m] = h[m]
      BY <1>3
    <3>3. \A k \in m + 1 .. N + 1 : ~ IsExternal(g[k])
      BY <3>1, <2>3, <1>7
    <3> QED BY <3>1, <3>2, <3>3, <1>5
  <2> QED BY <2>1, <2>2, <2>3
<1>9. NoneBefore(g, N + 2) <=> NoneBefore(h, N + 1) /\ ~ IsExternal(e)
  <2>1. \A k \in 1 .. N + 1 : k \in 1 .. N \/ k = N + 1
    BY <1>3
  <2>2. N + 1 \in 1 .. N + 1 /\ \A k \in 1 .. N : k \in 1 .. N + 1
    BY <1>3
  <2>3. NoneBefore(g, N + 2) <=> \A k \in 1 .. N + 1 : ~ IsExternal(g[k])
    BY <1>4 DEF NoneBefore
  <2>4. NoneBefore(h, N + 1) <=> \A k \in 1 .. N : ~ IsExternal(h[k])
    BY <1>4 DEF NoneBefore
  <2> QED BY <2>1, <2>2, <2>3, <2>4, <1>3
<1> QED BY <1>1, <1>2, <1>8, <1>9

\* An event that is no prompt.
LEMMA ToldQuiet ==
  ASSUME NEW h \in Seq(Entries), NEW e \in Entries, e.kind # "user", NEW r, NEW q, NEW first,
         Told(h, r, first), \A i : i \in Marks(q) <=> i \in Marks(r),
         q.pending <=> r.pending \/ (e.kind = "cancelled" /\ e.user),
         \A k \in DOMAIN q.messages : q.messages[k].role = "user" =>
           /\ \E n \in DOMAIN h : h[n].id = q.messages[k].id
           /\ q.begun => k <= q.safe
  PROVE  Told(Append(h, e), q, first)
<1>1. PICK g : g = Append(h, e)
  OBVIOUS
<1>2. /\ g \in Seq(Entries) /\ Len(g) = Len(h) + 1 /\ Len(h) \in Nat
      /\ \A k \in 1 .. Len(h) : g[k] = h[k]
      /\ g[Len(h) + 1] = e
  BY <1>1, AppendFacts
<1>3. DOMAIN g = 1 .. Len(h) + 1 /\ DOMAIN h = 1 .. Len(h)
  BY <1>2
<1>4. ASSUME NEW n \in DOMAIN g, g[n].kind = "user"
      PROVE  g[n].id \in Marks(q) <=> Announces(g, n, first)
  <2>1. n \in 1 .. Len(h)
    BY <1>2, <1>3, <1>4
  <2>2. n \in 1 .. Len(h) + 1 /\ g[n] = h[n] /\ n \in DOMAIN h
    BY <2>1, <1>2, <1>3
  <2>3. Due(g, n) <=> Due(h, n)
    BY <2>2, <1>1, DueBefore
  <2>4. NoneBefore(g, n) <=> NoneBefore(h, n)
    BY <2>2, <1>1, DueBefore
  <2>5. h[n].id \in Marks(r) <=> Announces(h, n, first)
    BY <2>2, <1>4 DEF Told
  <2> QED BY <2>2, <2>3, <2>4, <2>5 DEF Announces
<1>5. q.pending <=> Due(g, Len(g) + 1)
  <2>1. Len(g) + 1 = Len(h) + 2
    BY <1>2
  <2>2. ~ IsExternal(e)
    BY DEF IsExternal
  <2>3. Due(g, Len(h) + 2) <=> \/ e.kind = "cancelled" /\ e.user
                               \/ Due(h, Len(h) + 1) /\ ~ IsExternal(e)
    BY <1>1, DueAfter
  <2>4. r.pending <=> Due(h, Len(h) + 1)
    BY DEF Told
  <2> QED BY <2>1, <2>2, <2>3, <2>4
<1>6. \A n \in DOMAIN h : n \in DOMAIN g /\ g[n] = h[n]
  BY <1>2, <1>3
<1>7. \A k \in DOMAIN q.messages : q.messages[k].role = "user" =>
        /\ \E n \in DOMAIN g : g[n].id = q.messages[k].id
        /\ q.begun => k <= q.safe
  BY <1>6
<1> QED BY <1>1, <1>4, <1>5, <1>7 DEF Told

\* Messages that grow by one.
LEMMA MarksAppend ==
  ASSUME NEW r, Sound(r), NEW q, NEW a \in Messages, q.messages = Append(r.messages, a)
  PROVE  \A i : i \in Marks(q) <=>
           i \in Marks(r) \/ (a.role = "user" /\ a.header /\ a.id = i)
<1>1. PICK m : m = r.messages
  OBVIOUS
<1>2. PICK t : t = q.messages
  OBVIOUS
<1>3. /\ m \in Seq(Messages) /\ Len(m) \in Nat /\ t = Append(m, a)
  BY <1>1, <1>2 DEF Sound, States
<1>4. /\ Len(t) = Len(m) + 1 /\ t \in Seq(Messages)
      /\ \A k \in 1 .. Len(m) : t[k] = m[k]
      /\ t[Len(m) + 1] = a
  BY <1>3, AppendFacts
<1>5. DOMAIN t = 1 .. Len(m) + 1 /\ DOMAIN m = 1 .. Len(m)
  BY <1>3, <1>4
<1>6. \A k \in DOMAIN m : k \in DOMAIN t /\ t[k] = m[k]
  BY <1>4, <1>5
<1>7. \A k \in DOMAIN t : k \in DOMAIN m \/ k = Len(m) + 1
  BY <1>3, <1>5
<1>8. Len(m) + 1 \in DOMAIN t
  BY <1>3, <1>5
<1> SUFFICES ASSUME NEW i
             PROVE  i \in Marks(q) <=>
                      i \in Marks(r) \/ (a.role = "user" /\ a.header /\ a.id = i)
  OBVIOUS
<1>9. i \in Marks(q) <=>
        \E k \in DOMAIN t : t[k].role = "user" /\ t[k].header /\ t[k].id = i
  BY <1>2, MarksIs
<1>10. i \in Marks(r) <=>
        \E k \in DOMAIN m : m[k].role = "user" /\ m[k].header /\ m[k].id = i
  BY <1>1, MarksIs
<1> QED BY <1>4, <1>6, <1>7, <1>8, <1>9, <1>10

\* An answer or an observation adds a message that is no prompt.
LEMMA ToldMessage ==
  ASSUME NEW h \in Seq(Entries), NEW e \in Entries, e.kind \in {"model", "tool_observation"},
         NEW r, Sound(r), NEW first, Told(h, r, first)
  PROVE  Told(Append(h, e), Read(r, e), first)
<1> DEFINE q == Read(r, e)
<1>1. PICK a \in Messages : a.role # "user" /\ q.messages = Append(r.messages, a)
  <2>1. CASE e.kind = "model"
    <3>1. e.id \in Ids /\ e.calls \in 0 .. MaxCalls
      BY <2>1 DEF Entries
    <3>2. [role |-> "assistant", id |-> e.id, calls |-> e.calls] \in Messages
      BY <3>1 DEF Messages
    <3> QED BY <2>1, <3>2, ReadModelFacts
  <2>2. CASE e.kind = "tool_observation"
    <3>1. e.call \in Calls
      BY <2>2 DEF Entries
    <3>2. [role |-> "tool", call |-> e.call] \in Messages
      BY <3>1 DEF Messages
    <3> QED BY <2>2, <3>2, ReadObservationFacts
  <2> QED BY <2>1, <2>2
<1>2. /\ q.pending = r.pending /\ q.begun = r.begun
      /\ q.safe = Len(r.messages) + 1 \/ q.safe = r.safe
  BY ReadModelFacts, ReadObservationFacts
<1> HIDE DEF q
<1>3. \A i : i \in Marks(q) <=> i \in Marks(r)
  BY <1>1, MarksAppend
<1>4. /\ r.messages \in Seq(Messages) /\ Len(r.messages) \in Nat
      /\ DOMAIN r.messages = 1 .. Len(r.messages)
      /\ r.safe \in Nat
  BY DEF Sound, States
<1>5. ASSUME NEW k \in DOMAIN q.messages, q.messages[k].role = "user"
      PROVE  /\ \E n \in DOMAIN h : h[n].id = q.messages[k].id
             /\ q.begun => k <= q.safe
  <2>1. PICK t : t = q.messages
    OBVIOUS
  <2>2. /\ t \in Seq(Messages) /\ Len(t) = Len(r.messages) + 1
        /\ \A i \in 1 .. Len(r.messages) : t[i] = r.messages[i]
        /\ t[Len(r.messages) + 1] = a
    BY <1>1, <1>4, <2>1, AppendFacts
  <2>3. k \in 1 .. Len(r.messages)
    <3>1. k \in 1 .. Len(r.messages) + 1
      BY <2>1, <2>2
    <3>2. k # Len(r.messages) + 1
      BY <1>1, <1>5, <2>1, <2>2
    <3> QED BY <3>1, <3>2, <1>4
  <2>4. k \in DOMAIN r.messages /\ q.messages[k] = r.messages[k]
    BY <2>1, <2>2, <2>3, <1>4
  <2>5. /\ \E n \in DOMAIN h : h[n].id = r.messages[k].id
        /\ r.begun => k <= r.safe
    BY <2>4, <1>5 DEF Told
  <2>6. q.begun => k <= q.safe
    BY <2>3, <2>5, <1>2, <1>4
  <2> QED BY <2>4, <2>5, <2>6
<1>6. q.pending <=> r.pending \/ (e.kind = "cancelled" /\ e.user)
  BY <1>2
<1>7. Told(Append(h, e), q, first)
  BY <1>3, <1>5, <1>6, ToldQuiet
<1> QED BY <1>7 DEF q

\* An end of a turn cuts off no prompt.
LEMMA ToldEnd ==
  ASSUME NEW h \in Seq(Entries), NEW e \in Entries,
         e.kind \in {"final", "cancelled", "model_failed"},
         NEW r, Sound(r), NEW first, Told(h, r, first)
  PROVE  Told(Append(h, e), Read(r, e), first)
<1> DEFINE q == Read(r, e)
<1>1. /\ r.messages \in Seq(Messages) /\ Len(r.messages) \in Nat
      /\ DOMAIN r.messages = 1 .. Len(r.messages) /\ r.safe \in Nat
  BY DEF Sound, States
<1>2. CASE e.kind = "final"
  <2>1. q.messages = r.messages /\ q.begun = FALSE /\ q.pending = r.pending
    BY <1>2, ReadFinalFacts
  <2> HIDE DEF q
  <2>2. \A i : i \in Marks(q) <=> i \in Marks(r)
    BY <2>1, MarksIs
  <2>3. \A k \in DOMAIN q.messages : q.messages[k].role = "user" =>
          /\ \E n \in DOMAIN h : h[n].id = q.messages[k].id
          /\ q.begun => k <= q.safe
    BY <2>1 DEF Told
  <2>4. q.pending <=> r.pending \/ (e.kind = "cancelled" /\ e.user)
    BY <1>2, <2>1
  <2>5. Told(Append(h, e), q, first)
    BY <1>2, <2>2, <2>3, <2>4, ToldQuiet
  <2> QED BY <2>5 DEF q
<1>3. CASE e.kind = "model_failed"
  <2>1. q = r
    BY <1>3, ReadFailedFacts
  <2>2. Told(Append(h, e), r, first)
    <3>1. \A k \in DOMAIN r.messages : r.messages[k].role = "user" =>
            /\ \E n \in DOMAIN h : h[n].id = r.messages[k].id
            /\ r.begun => k <= r.safe
      BY DEF Told
    <3>2. r.pending <=> r.pending \/ (e.kind = "cancelled" /\ e.user)
      BY <1>3
    <3> QED BY <1>3, <3>1, <3>2, ToldQuiet
  <2> QED BY <2>1, <2>2
<1>4. CASE e.kind = "cancelled"
  <2>1. /\ q.messages = Cut(r) /\ q.begun = FALSE /\ q.pending = (r.pending \/ e.user)
    BY <1>4, ReadCancelledFacts
  <2> HIDE DEF q
  <2>2. /\ Cut(r) \in Seq(Messages) /\ Len(Cut(r)) \in Nat /\ Len(Cut(r)) <= Len(r.messages)
        /\ \A k \in 1 .. Len(Cut(r)) : Cut(r)[k] = r.messages[k]
    BY CutFacts
  <2>3. DOMAIN Cut(r) = 1 .. Len(Cut(r))
    BY <2>2
  <2>4. \A k \in DOMAIN Cut(r) : k \in DOMAIN r.messages /\ Cut(r)[k] = r.messages[k]
    BY <2>2, <2>3, <1>1
  <2>5. \A k \in DOMAIN r.messages : r.messages[k].role = "user" => k \in DOMAIN Cut(r)
    <3> SUFFICES ASSUME NEW k \in DOMAIN r.messages, r.messages[k].role = "user"
                 PROVE  k \in DOMAIN Cut(r)
      OBVIOUS
    <3>1. r.begun => k <= r.safe
      BY DEF Told
    <3>2. r.safe <= Len(Cut(r))
      BY CutFacts
    <3>3. CASE r.begun
      BY <3>1, <3>2, <3>3, <2>2, <2>3, <1>1
    <3>4. CASE ~ r.begun
      BY <3>4 DEF Cut
    <3> QED BY <3>3, <3>4
  <2>6. \A i : i \in Marks(q) <=> i \in Marks(r)
    <3> SUFFICES ASSUME NEW i PROVE i \in Marks(q) <=> i \in Marks(r)
      OBVIOUS
    <3>1. i \in Marks(q) <=> \E k \in DOMAIN Cut(r) :
            Cut(r)[k].role = "user" /\ Cut(r)[k].header /\ Cut(r)[k].id = i
      BY <2>1, MarksIs
    <3>2. i \in Marks(r) <=> \E k \in DOMAIN r.messages :
            r.messages[k].role = "user" /\ r.messages[k].header /\ r.messages[k].id = i
      BY MarksIs
    <3> QED BY <3>1, <3>2, <2>4, <2>5
  <2>7. \A k \in DOMAIN q.messages : q.messages[k].role = "user" =>
          /\ \E n \in DOMAIN h : h[n].id = q.messages[k].id
          /\ q.begun => k <= q.safe
    BY <2>1, <2>4 DEF Told
  <2>8. q.pending <=> r.pending \/ (e.kind = "cancelled" /\ e.user)
    BY <1>4, <2>1
  <2>9. Told(Append(h, e), q, first)
    BY <1>4, <2>6, <2>7, <2>8, ToldQuiet
  <2> QED BY <2>9 DEF q
<1> QED BY <1>2, <1>3, <1>4

\* A prompt announces what is due, and nothing else does.
LEMMA ToldPrompt ==
  ASSUME NEW h \in Seq(Entries), NEW e \in Entries, e.kind = "user",
         NEW r, Sound(r), NEW first \in BOOLEAN, Told(h, r, first),
         \A n \in DOMAIN h : h[n].id # e.id,
         e.header = (e.external /\ (r.pending \/ (first /\ NoneBefore(h, Len(h) + 1))))
  PROVE  Told(Append(h, e), Read(r, e), first)
<1> DEFINE q == Read(r, e)
           a == [role |-> "user", id |-> e.id, header |-> e.header \/ (r.pending /\ e.external)]
<1>1. PICK g : g = Append(h, e)
  OBVIOUS
<1>2. /\ g \in Seq(Entries) /\ Len(g) = Len(h) + 1 /\ Len(h) \in Nat
      /\ \A k \in 1 .. Len(h) : g[k] = h[k]
      /\ g[Len(h) + 1] = e
  BY <1>1, AppendFacts
<1>3. DOMAIN g = 1 .. Len(h) + 1 /\ DOMAIN h = 1 .. Len(h)
  BY <1>2
<1>4. /\ q.messages = Append(r.messages, a) /\ q.safe = Len(r.messages) + 1
      /\ q.pending = (r.pending /\ ~ e.external)
  BY ReadUserFacts
<1>5. e.id \in Ids /\ e.header \in BOOLEAN /\ e.external \in BOOLEAN /\ r.pending \in BOOLEAN
  BY DEF Entries, Sound, States
<1>6. a \in Messages /\ a.role = "user" /\ a.id = e.id
      /\ a.header = (e.header \/ (r.pending /\ e.external))
  BY <1>5 DEF Messages
<1>7. a.header <=> e.header
  BY <1>5, <1>6
<1> HIDE DEF q, a
<1>8. /\ r.messages \in Seq(Messages) /\ Len(r.messages) \in Nat
      /\ DOMAIN r.messages = 1 .. Len(r.messages)
      /\ r.safe \in Nat
  BY DEF Sound, States
<1>9. \A i : i \in Marks(q) <=> i \in Marks(r) \/ (a.header /\ e.id = i)
  BY <1>4, <1>6, MarksAppend
<1>10. e.id \notin Marks(r)
  <2> SUFFICES ASSUME e.id \in Marks(r) PROVE FALSE
    OBVIOUS
  <2>1. PICK k \in DOMAIN r.messages : r.messages[k].role = "user" /\ r.messages[k].id = e.id
    BY MarksIs
  <2>2. \E n \in DOMAIN h : h[n].id = r.messages[k].id
    BY <2>1 DEF Told
  <2> QED BY <2>1, <2>2
<1>11. r.pending <=> Due(h, Len(h) + 1)
  BY DEF Told
<1>12. IsExternal(e) <=> e.external
  BY DEF IsExternal
<1>13. ASSUME NEW n \in DOMAIN g, g[n].kind = "user"
      PROVE  g[n].id \in Marks(q) <=> Announces(g, n, first)
  <2>1. n \in 1 .. Len(h) + 1
    BY <1>3
  <2>2. Due(g, n) <=> Due(h, n)
    BY <2>1, <1>1, DueBefore
  <2>3. NoneBefore(g, n) <=> NoneBefore(h, n)
    BY <2>1, <1>1, DueBefore
  <2>4. CASE n = Len(h) + 1
    <3>1. g[n] = e
      BY <2>4, <1>2
    <3>2. g[n].id \in Marks(q) <=> e.header
      BY <3>1, <1>7, <1>9, <1>10
    <3>3. e.header <=> e.external /\ (Due(h, n) \/ (first /\ NoneBefore(h, n)))
      BY <2>4, <1>11
    <3> QED BY <3>1, <3>2, <3>3, <2>2, <2>3, <1>12 DEF Announces
  <2>5. CASE n # Len(h) + 1
    <3>1. n \in DOMAIN h /\ g[n] = h[n]
      BY <2>1, <2>5, <1>2, <1>3
    <3>2. h[n].id \in Marks(r) <=> Announces(h, n, first)
      BY <3>1, <1>13 DEF Told
    <3>3. g[n].id \in Marks(q) <=> h[n].id \in Marks(r)
      BY <3>1, <1>9
    <3> QED BY <3>1, <3>2, <3>3, <2>2, <2>3 DEF Announces
  <2> QED BY <2>4, <2>5
<1>14. q.pending <=> Due(g, Len(g) + 1)
  <2>1. Len(g) + 1 = Len(h) + 2
    BY <1>2
  <2>2. Due(g, Len(h) + 2) <=> \/ e.kind = "cancelled" /\ e.user
                               \/ Due(h, Len(h) + 1) /\ ~ IsExternal(e)
    BY <1>1, DueAfter
  <2>3. e.kind # "cancelled"
    OBVIOUS
  <2> QED BY <2>1, <2>2, <2>3, <1>4, <1>11, <1>12
<1>15. \A n \in DOMAIN h : n \in DOMAIN g /\ g[n] = h[n]
  BY <1>2, <1>3
<1>16. ASSUME NEW k \in DOMAIN q.messages, q.messages[k].role = "user"
      PROVE  /\ \E n \in DOMAIN g : g[n].id = q.messages[k].id
             /\ q.begun => k <= q.safe
  <2>1. PICK t : t = q.messages
    OBVIOUS
  <2>2. /\ t \in Seq(Messages) /\ Len(t) = Len(r.messages) + 1
        /\ \A i \in 1 .. Len(r.messages) : t[i] = r.messages[i]
        /\ t[Len(r.messages) + 1] = a
    BY <1>4, <1>6, <1>8, <2>1, AppendFacts
  <2>3. k \in 1 .. Len(r.messages) + 1
    BY <2>1, <2>2
  <2>4. k <= q.safe
    BY <2>3, <1>4, <1>8
  <2>5. CASE k = Len(r.messages) + 1
    <3>1. q.messages[k].id = e.id
      BY <2>1, <2>2, <2>5, <1>6
    <3>2. Len(h) + 1 \in DOMAIN g /\ g[Len(h) + 1].id = e.id
      BY <1>2, <1>3
    <3> QED BY <2>4, <3>1, <3>2
  <2>6. CASE k # Len(r.messages) + 1
    <3>1. k \in DOMAIN r.messages /\ q.messages[k] = r.messages[k]
      BY <2>1, <2>2, <2>3, <2>6, <1>8
    <3>2. \E n \in DOMAIN h : h[n].id = r.messages[k].id
      BY <3>1, <1>16 DEF Told
    <3> QED BY <2>4, <3>1, <3>2, <1>15
  <2> QED BY <2>5, <2>6
<1>17. Told(g, q, first)
  BY <1>13, <1>14, <1>16 DEF Told
<1> QED BY <1>1, <1>17 DEF q

\* The same, and the handle knows of what its session's first prompt announces.
Fits(h, r, i, first) ==
  LET fresh == first /\ NoneBefore(h, Len(h) + 1)
  IN /\ Told(h, r, first)
     /\ i => r.pending \/ fresh
     /\ fresh => i

LEMMA FitsOther ==
  ASSUME NEW h \in Seq(Entries), NEW e \in Entries, e.kind # "user",
         NEW r, Sound(r), NEW i, NEW first \in BOOLEAN, Fits(h, r, i, first)
  PROVE  Fits(Append(h, e), Read(r, e), i, first) /\ Sound(Read(r, e))
<1>1. Told(h, r, first)
  BY DEF Fits
<1>2. Told(Append(h, e), Read(r, e), first)
  BY <1>1, EntryKinds, ToldMessage, ToldEnd
<1>3. PICK g : g = Append(h, e)
  OBVIOUS
<1>4. Len(g) + 1 = Len(h) + 2
  <2>1. Len(g) = Len(h) + 1 /\ Len(h) \in Nat
    BY <1>3, AppendFacts
  <2> QED BY <2>1
<1>5. ~ IsExternal(e)
  BY DEF IsExternal
<1>6. /\ Due(h, Len(h) + 1) => Due(g, Len(g) + 1)
      /\ NoneBefore(g, Len(g) + 1) <=> NoneBefore(h, Len(h) + 1)
  BY <1>3, <1>4, <1>5, DueAfter
<1>7. r.pending => Read(r, e).pending
  BY <1>1, <1>2, <1>3, <1>6 DEF Told
<1> QED BY <1>2, <1>3, <1>6, <1>7, ReadSound DEF Fits

LEMMA FitsPrompt ==
  ASSUME NEW h \in Seq(Entries), NEW e \in Entries, e.kind = "user",
         NEW r, Sound(r), NEW i \in BOOLEAN, NEW first \in BOOLEAN, Fits(h, r, i, first),
         \A n \in DOMAIN h : h[n].id # e.id,
         e.header = (e.external /\ (r.pending \/ i))
  PROVE  Fits(Append(h, e), Read(r, e), i /\ ~ e.external, first)
<1>1. /\ e.header \in BOOLEAN /\ e.external \in BOOLEAN /\ r.pending \in BOOLEAN
      /\ NoneBefore(h, Len(h) + 1) \in BOOLEAN
  BY DEF Entries, Sound, States, NoneBefore
<1>2. e.header = (e.external /\ (r.pending \/ (first /\ NoneBefore(h, Len(h) + 1))))
  BY <1>1 DEF Fits
<1>3. Told(Append(h, e), Read(r, e), first)
  BY <1>2, ToldPrompt DEF Fits
<1>4. PICK g : g = Append(h, e)
  OBVIOUS
<1>5. Len(g) + 1 = Len(h) + 2
  <2>1. Len(g) = Len(h) + 1 /\ Len(h) \in Nat
    BY <1>4, AppendFacts
  <2> QED BY <2>1
<1>6. IsExternal(e) <=> e.external
  BY DEF IsExternal
<1>7. NoneBefore(g, Len(g) + 1) <=> NoneBefore(h, Len(h) + 1) /\ ~ e.external
  BY <1>4, <1>5, <1>6, DueAfter
<1>8. Read(r, e).pending = (r.pending /\ ~ e.external)
  BY ReadUserFacts
<1> QED BY <1>1, <1>3, <1>4, <1>7, <1>8 DEF Fits

\* A replay without events announces nothing.
LEMMA BlankFits ==
  ASSUME NEW first
  PROVE  /\ Told(<<>>, Blank, first)
         /\ Fits(<<>>, Blank, first, first)
<1>1. Blank.messages = <<>> /\ Blank.pending = FALSE
  BY DEF Blank
<1>2. /\ Len(<<>>) + 1 = 1 /\ DOMAIN <<>> = {} /\ 1 .. 1 - 1 = {}
  OBVIOUS
<1>3. ~ Due(<<>>, 1) /\ NoneBefore(<<>>, 1)
  BY <1>2 DEF Due, NoneBefore
<1>4. Told(<<>>, Blank, first)
  BY <1>1, <1>2, <1>3 DEF Told
<1> QED BY <1>2, <1>3, <1>4 DEF Fits

-----------------------------------------------------------------------------
(* The announcements of each session.                                      *)

\* What a fork has of its source.
Prefix(x) == IF x = Child /\ child = "fork" THEN Until(through) ELSE <<>>

LEMMA HistoryFacts ==
  ASSUME TablesOK, NEW x \in Sessions
  PROVE  /\ History(x) = Prefix(x) \o log[x]
         /\ Prefix(x) \in Seq(Entries) /\ History(x) \in Seq(Entries)
<1>1. log[x] \in Seq(Entries) /\ log[Root] \in Seq(Entries)
  BY LogFacts DEF Sessions
<1>2. Until(through) \in Seq(Entries)
  BY <1>1, SubSeqFacts DEF TablesOK, Until
<1>3. History(x) = Prefix(x) \o log[x]
  BY DEF History, Prefix, Until
<1>4. Prefix(x) \in Seq(Entries)
  <2>1. <<>> \in Seq(Entries)
    OBVIOUS
  <2> QED BY <2>1, <1>2 DEF Prefix
<1>5. Prefix(x) \o log[x] \in Seq(Entries)
  BY <1>1, <1>4
<1> QED BY <1>3, <1>4, <1>5

\* Without events of a source, it is the session's own log.
LEMMA NoPrefix ==
  ASSUME TablesOK, NEW x \in Sessions, ~ (x = Child /\ child = "fork")
  PROVE  History(x) = log[x]
<1>1. log[x] \in Seq(Entries)
  BY LogFacts
<1>2. <<>> \o log[x] = log[x]
  BY <1>1
<1> QED BY <1>2, HistoryFacts DEF Prefix

\* No event has the id of one that comes.
LEMMA HistoryFresh ==
  ASSUME RunInv, NEW x \in Sessions, NEW n \in DOMAIN History(x)
  PROVE  History(x)[n].id # Id(x)
<1>1. TablesOK /\ Root \in Sessions /\ Root # Child
  BY TranscriptsAssumption DEF RunInv, Sessions
<1>2. PICK p : p = Prefix(x)
  OBVIOUS
<1>3. PICK s : s = log[x]
  OBVIOUS
<1>4. /\ History(x) = p \o s /\ p \in Seq(Entries) /\ s \in Seq(Entries)
      /\ Len(p) \in Nat /\ Len(s) \in Nat /\ DOMAIN s = 1 .. Len(s)
      /\ Id(x) = <<x, Len(s) + 1>>
  <2>1. History(x) = p \o s /\ p \in Seq(Entries)
    BY <1>1, <1>2, <1>3, HistoryFacts
  <2>2. s \in Seq(Entries) /\ Id(x) = <<x, Len(s) + 1>>
    BY <1>1, <1>3, LogFacts
  <2> QED BY <2>1, <2>2
<1>5. n \in 1 .. Len(p) + Len(s)
  BY <1>4
<1>6. CASE n \in 1 .. Len(p)
  <2>1. x = Child /\ p = Until(through)
    <3>1. p # <<>>
      BY <1>4, <1>6
    <3> QED BY <3>1, <1>2 DEF Prefix
  <2>2. /\ log[Root] \in Seq(Entries) /\ through \in 0 .. Len(log[Root])
        /\ DOMAIN log[Root] = 1 .. Len(log[Root]) /\ Len(log[Root]) \in Nat
    BY <1>1, LogFacts DEF TablesOK
  <2>3. Len(p) = through /\ \A k \in 1 .. through : p[k] = log[Root][k]
    BY <2>1, <2>2, SubSeqFacts DEF Until
  <2>4. p[n] = log[Root][n] /\ n \in DOMAIN log[Root]
    BY <2>2, <2>3, <1>6
  <2>5. p[n].id = <<Root, n>>
    BY <2>4, <1>1 DEF RunInv, SessionOK
  <2>6. History(x)[n] = p[n]
    BY <1>4, <1>6
  <2> QED BY <2>1, <2>5, <2>6, <1>1, <1>4
<1>7. CASE n \notin 1 .. Len(p)
  <2>1. n - Len(p) \in 1 .. Len(s)
    BY <1>4, <1>5, <1>7
  <2>2. History(x)[n] = s[n - Len(p)]
    BY <1>4, <1>5, <1>7
  <2>3. s[n - Len(p)].id = <<x, n - Len(p)>>
    BY <2>1, <1>3, <1>4 DEF RunInv, SessionOK
  <2>4. n - Len(p) # Len(s) + 1
    BY <2>1, <1>4
  <2> QED BY <2>2, <2>3, <2>4, <1>4
<1> QED BY <1>6, <1>7

\* The events of x grow with its log, those of the others do not.
LEMMA HistoryGrows ==
  ASSUME TablesOK, NEW x \in Sessions, NEW s \in Seq(Entries),
         Len(log[x]) <= Len(s), \A k \in 1 .. Len(log[x]) : s[k] = log[x][k],
         log' = [log EXCEPT ![x] = s], UNCHANGED <<child, through>>
  PROVE  /\ History(x)' = Prefix(x) \o s
         /\ \A y \in Sessions : y # x => History(y)' = History(y)
<1>1. through \in 0 .. Len(log[Root])
  BY DEF TablesOK
<1>2. SubSeq(log'[Root], 1, through) = Until(through)
  BY <1>1, UntilKept DEF Until
<1>3. \A y \in Sessions : y # x => log'[y] = log[y]
  BY GrowFacts
<1>4. log'[x] = s
  BY GrowFacts
<1>5. \A y \in Sessions : History(y)' = Prefix(y) \o log'[y]
  BY <1>2 DEF History, Prefix
<1> QED BY <1>3, <1>4, <1>5, HistoryFacts

LEMMA ConcatAppend ==
  ASSUME NEW S, NEW p \in Seq(S), NEW s \in Seq(S), NEW e \in S
  PROVE  p \o Append(s, e) = Append(p \o s, e)
<1>1. <<e>> \in Seq(S) /\ p \o s \in Seq(S)
  OBVIOUS
<1>2. Append(s, e) = s \o <<e>> /\ Append(p \o s, e) = (p \o s) \o <<e>>
  BY <1>1, AppendIsConcat
<1>3. (p \o s) \o <<e>> = p \o (s \o <<e>>)
  BY <1>1, ConcatAssociative
<1> QED BY <1>2, <1>3

First(x) == x = Child /\ handed

FitsNow(x) == Fits(History(x), Replay(x), inherited[x], First(x))

\* In each session, and wherever a fork could begin.
ToldInv ==
  /\ handed => child = "compaction"
  /\ \A x \in Sessions : FitsNow(x)
  /\ \A n \in DOMAIN log[Root] :
       Ends(log[Root][n]) => Told(Until(n), ReadAll(Blank, Until(n)), FALSE)

LEMMA InitTold == Init => ToldInv
<1> SUFFICES ASSUME Init PROVE ToldInv
  OBVIOUS
<1>1. ASSUME NEW x \in Sessions
      PROVE  FitsNow(x)
  <2>1. Replay(x) = Blank /\ log[x] = <<>>
    BY InitReplay
  <2>2. History(x) = <<>>
    <3>1. child = "none"
      BY DEF Init
    <3>2. <<>> \o <<>> = <<>>
      OBVIOUS
    <3> QED BY <2>1, <3>1, <3>2 DEF History
  <2>3. inherited[x] = FALSE /\ First(x) = FALSE
    BY DEF Init, First
  <2> QED BY <2>1, <2>2, <2>3, BlankFits DEF FitsNow
<1>2. DOMAIN log[Root] = {} /\ handed = FALSE
  <2>1. log[Root] = <<>>
    BY InitReplay DEF Sessions
  <2> QED BY <2>1 DEF Init
<1> QED BY <1>1, <1>2 DEF ToldInv

\* A step that appends the events of s to the log of x.
LEMMA ToldStep ==
  ASSUME RunInv, ToldInv, NEW x \in Sessions, NEW s \in Seq(Entries),
         Len(log[x]) <= Len(s), \A k \in 1 .. Len(log[x]) : s[k] = log[x][k],
         log' = [log EXCEPT ![x] = s], UNCHANGED <<child, through, handed>>,
         Fits(Prefix(x) \o s, Replay(x)', inherited'[x], First(x)),
         \A y \in Sessions : y # x => inherited'[y] = inherited[y],
         \A k \in Len(log[x]) + 1 .. Len(s) : Ends(s[k]) => k = Len(s)
  PROVE  ToldInv'
<1>1. TablesOK /\ UNCHANGED <<child, through>> /\ handed' = handed
  BY DEF RunInv
<1>2. \A y \in Sessions : First(y)' = First(y)
  BY DEF First
<1>3. History(x)' = Prefix(x) \o s
  BY <1>1, HistoryGrows
<1>4. FitsNow(x)'
  BY <1>2, <1>3 DEF FitsNow
<1>5. ASSUME NEW y \in Sessions, y # x
      PROVE  FitsNow(y)'
  <2>1. Replay(y)' = Replay(y) /\ History(y)' = History(y)
    BY <1>1, <1>5, GrowFacts, HistoryGrows
  <2>2. FitsNow(y) /\ inherited'[y] = inherited[y] /\ First(y)' = First(y)
    BY <1>2, <1>5 DEF ToldInv
  <2> QED BY <2>1, <2>2 DEF FitsNow
<1>6. ASSUME NEW n \in DOMAIN log'[Root], Ends(log'[Root][n])
      PROVE  Told(Until(n)', ReadAll(Blank, Until(n)'), FALSE)
  <2>1. CASE n \in 1 .. Len(log[Root])
    <3>1. n \in 0 .. Len(log[Root]) /\ n \in DOMAIN log[Root]
      <4>1. Root \in Sessions
        BY DEF Sessions
      <4> QED BY <4>1, <2>1, <1>1, LogFacts
    <3>2. Until(n)' = Until(n) /\ log'[Root][n] = log[Root][n]
      BY <2>1, <3>1, <1>1, UntilKept
    <3> QED BY <3>1, <3>2, <1>6 DEF ToldInv
  <2>2. CASE n \notin 1 .. Len(log[Root])
    <3>1. x = Root /\ log'[Root] = s /\ n \in Len(log[x]) + 1 .. Len(s)
      BY <2>2, <1>1, UntilKept
    <3>2. n = Len(s)
      BY <3>1, <1>6
    <3>3. Until(n)' = s
      <4>1. SubSeq(log'[Root], 1, Len(log'[Root])) = log'[Root]
        BY <1>1, UntilKept
      <4> QED BY <4>1, <3>1, <3>2 DEF Until
    <3>4. ReadAll(Blank, s) = Replay(x)'
      <4>1. Replay(Root)' = ReadAll(Blank, log'[Root])
        BY TranscriptsAssumption DEF Replay, Context
      <4> QED BY <4>1, <3>1
    <3>5. Prefix(x) \o s = s
      <4>1. Prefix(x) = <<>>
        BY <3>1, TranscriptsAssumption DEF Prefix
      <4> QED BY <4>1, ConcatEmptySeq
    <3>6. First(x) = FALSE
      BY <3>1, TranscriptsAssumption DEF First
    <3> QED BY <3>3, <3>4, <3>5, <3>6 DEF Fits
  <2> QED BY <2>1, <2>2
<1>7. \A y \in Sessions : FitsNow(y)'
  BY <1>4, <1>5
<1>8. (handed => child = "compaction")'
  BY DEF ToldInv
<1> QED BY <1>6, <1>7, <1>8 DEF ToldInv, Until

\* One event, no prompt.
LEMMA ToldOne ==
  ASSUME RunInv, ToldInv, NEW x \in Sessions, NEW e \in Entries, One(x, e),
         e.kind # "user", handed' = handed, inherited' = inherited
  PROVE  ToldInv'
<1>1. TablesOK /\ UNCHANGED <<child, through>>
  BY DEF RunInv, One, Alone
<1>2. PICK s : s = Append(log[x], e)
  OBVIOUS
<1>3. log[x] \in Seq(Entries) /\ Prefix(x) \in Seq(Entries) /\ Sound(Replay(x))
  BY <1>1, LogFacts, HistoryFacts, ReplaySound
<1>4. /\ s \in Seq(Entries) /\ Len(s) = Len(log[x]) + 1 /\ Len(log[x]) \in Nat
      /\ \A k \in 1 .. Len(log[x]) : s[k] = log[x][k]
  BY <1>2, <1>3, AppendFacts
<1>5. Len(log[x]) <= Len(s)
  BY <1>4
<1>6. log' = [log EXCEPT ![x] = s]
  BY <1>2 DEF One
<1>7. Replay(x)' = Read(Replay(x), e)
  BY <1>1, <1>2, <1>6, AppendedReplay
<1>8. Prefix(x) \o s = Append(History(x), e) /\ History(x) \in Seq(Entries)
  <2>1. Prefix(x) \o s = Append(Prefix(x) \o log[x], e)
    BY <1>2, <1>3, ConcatAppend
  <2> QED BY <2>1, <1>1, HistoryFacts
<1>9. First(x) \in BOOLEAN
  BY <1>1 DEF First, TablesOK
<1>10. Fits(Append(History(x), e), Read(Replay(x), e), inherited[x], First(x))
  BY <1>3, <1>8, <1>9, FitsOther DEF ToldInv, FitsNow
<1>11. Fits(Prefix(x) \o s, Replay(x)', inherited'[x], First(x))
  BY <1>7, <1>8, <1>10
<1>12. \A k \in Len(log[x]) + 1 .. Len(s) : Ends(s[k]) => k = Len(s)
  BY <1>4
<1>13. UNCHANGED <<child, through, handed>>
  BY <1>1
<1>14. \A y \in Sessions : y # x => inherited'[y] = inherited[y]
  OBVIOUS
<1> QED BY <1>4, <1>5, <1>6, <1>11, <1>12, <1>13, <1>14, ToldStep

\* Two events, no prompts, of which only the second ends a turn.
LEMMA ToldTwo ==
  ASSUME RunInv, ToldInv, NEW x \in Sessions, NEW d \in Entries, NEW e \in Entries,
         Two(x, d, e), d.kind # "user", e.kind # "user", ~ Ends(d),
         handed' = handed, inherited' = inherited
  PROVE  ToldInv'
<1>1. TablesOK /\ UNCHANGED <<child, through>>
  BY DEF RunInv, Two, Alone
<1>2. PICK s \in Seq(Entries) :
           /\ Len(s) = Len(log[x]) + 2 /\ Len(log[x]) \in Nat /\ Len(log[x]) <= Len(s)
           /\ \A k \in 1 .. Len(log[x]) : s[k] = log[x][k]
           /\ s[Len(log[x]) + 1] = d
           /\ s = Append(Append(log[x], d), e)
           /\ log' = [log EXCEPT ![x] = s]
           /\ Replay(x)' = Read(Read(Replay(x), d), e)
  BY <1>1, TwoFacts
<1>3. log[x] \in Seq(Entries) /\ Prefix(x) \in Seq(Entries) /\ Sound(Replay(x))
  BY <1>1, LogFacts, HistoryFacts, ReplaySound
<1>4. PICK t : t = Append(log[x], d)
  OBVIOUS
<1>5. PICK h : h = Append(History(x), d)
  OBVIOUS
<1>6. History(x) \in Seq(Entries) /\ History(x) = Prefix(x) \o log[x]
  BY <1>1, HistoryFacts
<1>7. t \in Seq(Entries) /\ h \in Seq(Entries)
  BY <1>3, <1>4, <1>5, <1>6, AppendFacts
<1>8. Prefix(x) \o t = h
  BY <1>3, <1>4, <1>5, <1>6, ConcatAppend
<1>9. Prefix(x) \o s = Append(h, e)
  <2>1. s = Append(t, e)
    BY <1>2, <1>4
  <2>2. Prefix(x) \o Append(t, e) = Append(Prefix(x) \o t, e)
    BY <1>3, <1>7, ConcatAppend
  <2> QED BY <2>1, <2>2, <1>8
<1>10. First(x) \in BOOLEAN
  BY <1>1 DEF First, TablesOK
<1>11. Fits(h, Read(Replay(x), d), inherited[x], First(x)) /\ Sound(Read(Replay(x), d))
  BY <1>3, <1>5, <1>6, <1>10, FitsOther DEF ToldInv, FitsNow
<1>12. Fits(Append(h, e), Read(Read(Replay(x), d), e), inherited[x], First(x))
  BY <1>7, <1>10, <1>11, FitsOther
<1>13. Fits(Prefix(x) \o s, Replay(x)', inherited'[x], First(x))
  BY <1>2, <1>9, <1>12
<1>14. \A k \in Len(log[x]) + 1 .. Len(s) : Ends(s[k]) => k = Len(s)
  <2>1. \A k \in Len(log[x]) + 1 .. Len(s) : k = Len(log[x]) + 1 \/ k = Len(s)
    BY <1>2
  <2> QED BY <2>1, <1>2
<1>15. UNCHANGED <<child, through, handed>>
  BY <1>1
<1>16. \A y \in Sessions : y # x => inherited'[y] = inherited[y]
  OBVIOUS
<1> QED BY <1>2, <1>13, <1>14, <1>15, <1>16, ToldStep

LEMMA PromptTold ==
  ASSUME RunInv, ToldInv, NEW x \in Sessions, NEW external \in BOOLEAN, Prompt(x, external)
  PROVE  ToldInv'
<1>1. TablesOK
  BY DEF RunInv
<1>2. PICK e \in Entries :
        /\ e.kind = "user" /\ e.id = Id(x) /\ e.external = external
        /\ e.header = (external /\ (Replay(x).pending \/ inherited[x]))
        /\ One(x, e)
  BY PromptAppends
<1>3. UNCHANGED <<child, through, handed>> /\ UNCHANGED <<child, through>>
  BY DEF Prompt, context
<1>4. /\ inherited'[x] = (inherited[x] /\ ~ external) /\ inherited[x] \in BOOLEAN
      /\ \A y \in Sessions : y # x => inherited'[y] = inherited[y]
  BY <1>1 DEF Prompt, TablesOK
<1>5. PICK s : s = Append(log[x], e)
  OBVIOUS
<1>6. log[x] \in Seq(Entries) /\ Prefix(x) \in Seq(Entries) /\ Sound(Replay(x))
  BY <1>1, LogFacts, HistoryFacts, ReplaySound
<1>7. /\ s \in Seq(Entries) /\ Len(s) = Len(log[x]) + 1 /\ Len(log[x]) \in Nat
      /\ \A k \in 1 .. Len(log[x]) : s[k] = log[x][k]
  BY <1>5, <1>6, AppendFacts
<1>8. Len(log[x]) <= Len(s)
  BY <1>7
<1>9. log' = [log EXCEPT ![x] = s]
  BY <1>2, <1>5 DEF One
<1>10. Replay(x)' = Read(Replay(x), e)
  BY <1>1, <1>3, <1>5, <1>9, AppendedReplay
<1>11. Prefix(x) \o s = Append(History(x), e) /\ History(x) \in Seq(Entries)
  <2>1. Prefix(x) \o s = Append(Prefix(x) \o log[x], e)
    BY <1>5, <1>6, ConcatAppend
  <2> QED BY <2>1, <1>1, HistoryFacts
<1>12. First(x) \in BOOLEAN
  BY <1>1 DEF First, TablesOK
<1>13. \A n \in DOMAIN History(x) : History(x)[n].id # e.id
  BY <1>2, HistoryFresh
<1>14. Fits(History(x), Replay(x), inherited[x], First(x))
  BY DEF ToldInv, FitsNow
<1>15. e.header = (e.external /\ (Replay(x).pending \/ inherited[x]))
  BY <1>2
<1>16. Fits(Append(History(x), e), Read(Replay(x), e), inherited[x] /\ ~ e.external, First(x))
  BY <1>2, <1>4, <1>6, <1>11, <1>12, <1>13, <1>14, <1>15, FitsPrompt
<1>17. Fits(Prefix(x) \o s, Replay(x)', inherited'[x], First(x))
  BY <1>2, <1>4, <1>10, <1>11, <1>16
<1>18. \A k \in Len(log[x]) + 1 .. Len(s) : Ends(s[k]) => k = Len(s)
  BY <1>7
<1> QED BY <1>3, <1>4, <1>7, <1>8, <1>9, <1>17, <1>18, ToldStep

LEMMA ObserveTold ==
  ASSUME RunInv, ToldInv, NEW x \in Sessions, Observe(x)
  PROVE  ToldInv'
<1> DEFINE d == Observation(x)
<1>1. Running(x) /\ run[x].phase = "calling"
  BY ObserveAppends
<1>2. d \in Entries /\ d.kind = "tool_observation"
  BY <1>1, ObservationFacts
<1>3. handed' = handed /\ inherited' = inherited
  <2>1. CASE EndCancelled(x, Append(log[x], Observation(x)), run[x].byUser)
    BY <2>1 DEF EndCancelled, context
  <2>2. CASE ~ EndCancelled(x, Append(log[x], Observation(x)), run[x].byUser)
    BY <2>2, ObserveCases DEF context, handle
  <2> QED BY <2>1, <2>2
<1>4. CASE One(x, d)
  <2> HIDE DEF d
  <2> QED BY <1>2, <1>3, <1>4, ToldOne
<1>5. CASE ~ One(x, d)
  <2>1. PICK e \in Entries : e.kind = "cancelled" /\ Two(x, d, e)
    BY <1>5, ObserveAppends
  <2> HIDE DEF d
  <2>2. ~ Ends(d)
    BY <1>2 DEF Ends
  <2> QED BY <1>2, <1>3, <2>1, <2>2, ToldTwo
<1> QED BY <1>4, <1>5

\* Steps that leave the logs and what a handle knows of its parent.
LEMMA ToldSame ==
  ASSUME ToldInv, UNCHANGED <<log, child, through, handed, inherited>>
  PROVE  ToldInv'
<1>1. \A x \in Sessions : Replay(x)' = Replay(x)
  BY ReplaySame
<1>2. \A x \in Sessions : History(x)' = History(x) /\ First(x)' = First(x)
  BY DEF History, First
<1>3. \A x \in Sessions : FitsNow(x)'
  BY <1>1, <1>2 DEF ToldInv, FitsNow
<1>4. \A n : Until(n)' = Until(n)
  BY DEF Until
<1> QED BY <1>3, <1>4 DEF ToldInv

\* Another process asks the replay; of what a compaction handed on it knows
\* nothing, unless the user has been told.
LEMMA CrashTold ==
  ASSUME RunInv, ToldInv, Crash
  PROVE  ToldInv'
<1>1. TablesOK
  BY DEF RunInv
<1>2. /\ UNCHANGED <<log, child, through>>
      /\ inherited' = [x \in Sessions |-> Replay(x).pending]
      /\ handed' = (handed /\ \E n \in DOMAIN log[Child] : IsExternal(log[Child][n]))
  BY DEF Crash
<1>3. ASSUME NEW x \in Sessions
      PROVE  FitsNow(x)'
  <2> DEFINE h == History(x)
             r == Replay(x)
  <2>1. Replay(x)' = r /\ History(x)' = h /\ inherited'[x] = r.pending
    BY <1>2, ReplaySame DEF History
  <2>2. Told(h, r, First(x))
    BY DEF ToldInv, FitsNow, Fits
  <2>3. h \in Seq(Entries) /\ Len(h) \in Nat /\ DOMAIN h = 1 .. Len(h)
    <3>1. h \in Seq(Entries)
      BY <1>1, HistoryFacts
    <3> QED BY <3>1
  <2>4. First(x) => h = log[Child]
    <3> SUFFICES ASSUME First(x) PROVE h = log[Child]
      OBVIOUS
    <3>1. x = Child /\ child = "compaction"
      BY DEF First, ToldInv
    <3> QED BY <3>1, <1>1, NoPrefix
  <2> HIDE DEF h, r
  <2>5. NoneBefore(h, Len(h) + 1) <=> ~ \E n \in DOMAIN h : IsExternal(h[n])
    <3>1. (Len(h) + 1) - 1 = Len(h)
      BY <2>3
    <3> QED BY <3>1, <2>3 DEF NoneBefore
  <2>6. CASE First(x)' = First(x)
    <3>1. First(x)' => ~ NoneBefore(h, Len(h) + 1)
      <4> SUFFICES ASSUME First(x)' PROVE ~ NoneBefore(h, Len(h) + 1)
        OBVIOUS
      <4>1. \E n \in DOMAIN log[Child] : IsExternal(log[Child][n])
        BY <1>2 DEF First
      <4> QED BY <4>1, <2>4, <2>5, <2>6
    <3> QED BY <3>1, <2>1, <2>2, <2>6 DEF FitsNow, Fits
  <2>7. CASE First(x)' # First(x)
    <3>1. First(x) /\ ~ First(x)' /\ ~ \E n \in DOMAIN h : IsExternal(h[n])
      BY <1>1, <1>2, <2>4, <2>7 DEF First, TablesOK
    <3>2. ASSUME NEW n \in DOMAIN h, h[n].kind = "user"
          PROVE  h[n].id \in Marks(r) <=> Announces(h, n, First(x)')
      <4>1. h[n].id \in Marks(r) <=> Announces(h, n, First(x))
        BY <3>2, <2>2 DEF Told
      <4> QED BY <4>1, <3>1 DEF Announces
    <3>3. Told(h, r, First(x)')
      BY <3>2, <2>2 DEF Told
    <3> QED BY <3>1, <3>3, <2>1 DEF FitsNow, Fits
  <2> QED BY <2>6, <2>7
<1>4. \A n : Until(n)' = Until(n)
  BY <1>2 DEF Until
<1> QED BY <1>2, <1>3, <1>4 DEF ToldInv

LEMMA InheritTold ==
  ASSUME NEW h, NEW r, Sound(r), Told(h, r, FALSE)
  PROVE  Told(h, Inherit(r), FALSE)
<1>1. /\ Inherit(r).messages = r.messages /\ Inherit(r).pending = r.pending
      /\ Inherit(r).begun = FALSE
  BY InheritFacts
<1>2. \A i : i \in Marks(Inherit(r)) <=> i \in Marks(r)
  BY <1>1, MarksIs
<1> QED BY <1>1, <1>2 DEF Told

LEMMA ForkTold ==
  ASSUME RunInv, ToldInv, Fork
  PROVE  ToldInv'
<1> DEFINE r == ReadAll(Blank, Until(through'))
<1>1. /\ Replay(Child)' = Inherit(r) /\ Replay(Root)' = Replay(Root) /\ Sound(r)
      /\ through' \in 0 .. Len(log[Root])
      /\ through' # 0 => through' \in DOMAIN log[Root] /\ Ends(log[Root][through'])
  BY ForkReplay
<1>2. /\ log' = log /\ handed' = handed /\ inherited' = inherited
      /\ child = "none" /\ child' = "fork"
  BY DEF Fork, handle
<1>3. TablesOK /\ Child \in Sessions /\ Root \in Sessions /\ Root # Child
  BY TranscriptsAssumption DEF RunInv, Sessions
<1>4. log[Child] = <<>> /\ handed = FALSE
  BY <1>2, <1>3 DEF TablesOK, ToldInv
<1>5. Told(Until(through'), r, FALSE)
  <2>1. CASE through' = 0
    <3>1. Until(through') = <<>> /\ r = Blank
      BY <2>1, UntilNone, ReadAllEmpty
    <3> QED BY <3>1, BlankFits
  <2>2. CASE through' # 0
    BY <1>1, <2>2 DEF ToldInv
  <2> QED BY <2>1, <2>2
<1>6. inherited[Child] = FALSE
  <2>1. Replay(Child) = Blank
    BY <1>2, <1>4, ReadAllEmpty DEF Replay, Context
  <2>2. Fits(History(Child), Blank, inherited[Child], FALSE)
    BY <1>3, <1>4, <2>1 DEF ToldInv, FitsNow, First
  <2>3. Blank.pending = FALSE /\ inherited[Child] \in BOOLEAN
    BY <1>3 DEF Blank, TablesOK
  <2> QED BY <2>2, <2>3 DEF Fits
<1>7. History(Child)' = Until(through')
  <2>1. Until(through') \in Seq(Entries)
    <3>1. log[Root] \in Seq(Entries)
      BY <1>3, LogFacts
    <3> QED BY <3>1, <1>1, SubSeqFacts DEF Until
  <2>2. History(Child)' = Until(through') \o <<>>
    BY <1>2, <1>4 DEF History, Until
  <2> QED BY <2>1, <2>2, ConcatEmptySeq
<1> HIDE DEF r
<1>8. FitsNow(Child)'
  <2>1. Told(Until(through'), Inherit(r), FALSE)
    BY <1>1, <1>5, InheritTold
  <2>2. First(Child)' = FALSE /\ inherited'[Child] = FALSE
    BY <1>2, <1>4, <1>6 DEF First
  <2> QED BY <1>1, <1>7, <2>1, <2>2 DEF FitsNow, Fits
<1>9. FitsNow(Root)'
  <2>1. History(Root)' = History(Root)
    BY <1>2, <1>3 DEF History
  <2>2. First(Root)' = First(Root)
    BY <1>2 DEF First
  <2> QED BY <1>1, <1>2, <1>3, <2>1, <2>2 DEF ToldInv, FitsNow
<1>10. \A n : Until(n)' = Until(n)
  BY <1>2 DEF Until
<1> QED BY <1>2, <1>4, <1>8, <1>9, <1>10 DEF ToldInv, Sessions

LEMMA CompactTold ==
  ASSUME RunInv, ToldInv, Compact
  PROVE  ToldInv'
<1>1. TablesOK /\ Child \in Sessions /\ Root \in Sessions /\ Root # Child
  BY TranscriptsAssumption DEF RunInv, Sessions
<1>2. /\ log' = log /\ child = "none" /\ child' = "compaction"
      /\ handed' = pending[Root]
      /\ inherited'[Child] = pending[Root] /\ inherited'[Root] = inherited[Root]
  BY <1>1 DEF Compact, TablesOK
<1>3. log[Child] = <<>> /\ handed = FALSE
  BY <1>1, <1>2 DEF TablesOK, ToldInv
<1>4. \A y \in Sessions : Replay(y)' = Replay(y)
  BY CompactReplay
<1>5. FitsNow(Child)'
  <2>1. History(Child)' = <<>>
    <3>1. <<>> \o <<>> = <<>>
      OBVIOUS
    <3> QED BY <3>1, <1>2, <1>3 DEF History
  <2>2. Replay(Child)' = Blank
    <3>1. Replay(Child) = Blank
      BY <1>2, <1>3, ReadAllEmpty DEF Replay, Context
    <3> QED BY <3>1, <1>1, <1>4
  <2>3. First(Child)' = pending[Root] /\ pending[Root] \in BOOLEAN
    BY <1>1, <1>2 DEF First, TablesOK
  <2> QED BY <1>2, <2>1, <2>2, <2>3, BlankFits DEF FitsNow
<1>6. FitsNow(Root)'
  <2>1. History(Root)' = History(Root)
    BY <1>1, <1>2 DEF History
  <2>2. First(Root)' = First(Root)
    BY <1>1 DEF First
  <2> QED BY <1>1, <1>2, <1>4, <2>1, <2>2 DEF ToldInv, FitsNow
<1>7. \A n : Until(n)' = Until(n)
  BY <1>2 DEF Until
<1> QED BY <1>2, <1>5, <1>6, <1>7 DEF ToldInv, Sessions

LEMMA ToldKept == RunInv /\ ToldInv /\ [Next]_vars => ToldInv'
<1> SUFFICES ASSUME RunInv, ToldInv, [Next]_vars PROVE ToldInv'
  OBVIOUS
<1>1. ASSUME NEW x \in Sessions, NEW external \in BOOLEAN, Prompt(x, external)
      PROVE  ToldInv'
  BY <1>1, PromptTold
<1>2. ASSUME NEW x \in Sessions, GracefulStop(x)
      PROVE  ToldInv'
  BY <1>2, ToldSame DEF GracefulStop, context, handle
<1>3. ASSUME NEW x \in Sessions, NEW user \in BOOLEAN, ForceStop(x, user)
      PROVE  ToldInv'
  BY <1>3, ToldSame DEF ForceStop, context, handle
<1>4. ASSUME NEW x \in Sessions, Stopped(x) \/ ToolCancelled(x) PROVE ToldInv'
  <2>1. PICK e \in Entries : e.kind = "cancelled" /\ One(x, e)
    BY <1>4, StoppedAppends
  <2>2. handed' = handed /\ inherited' = inherited
    BY <1>4 DEF Stopped, ToolCancelled, EndCancelled, context
  <2> QED BY <2>1, <2>2, ToldOne
<1>5. ASSUME NEW x \in Sessions, Answer(x) PROVE ToldInv'
  <2>1. PICK d \in Entries, e \in Entries :
          d.kind = "model" /\ e.kind = "final" /\ Two(x, d, e)
    BY <1>5, AnswerAppends
  <2>2. handed' = handed /\ inherited' = inherited
    BY <1>5 DEF Answer, context, handle
  <2>3. ~ Ends(d)
    BY <2>1 DEF Ends
  <2> QED BY <2>1, <2>2, <2>3, ToldTwo
<1>6. ASSUME NEW x \in Sessions, NEW n \in 1 .. MaxCalls, AskForCalls(x, n) PROVE ToldInv'
  <2>1. PICK e \in Entries : e.kind = "model" /\ One(x, e)
    BY <1>6, AskForCallsAppends
  <2>2. handed' = handed /\ inherited' = inherited
    BY <1>6 DEF AskForCalls, context, handle
  <2> QED BY <2>1, <2>2, ToldOne
<1>7. ASSUME NEW x \in Sessions, ModelFails(x) PROVE ToldInv'
  <2>1. PICK e \in Entries : e.kind = "model_failed" /\ One(x, e)
    BY <1>7, ModelFailsAppends
  <2>2. handed' = handed /\ inherited' = inherited
    BY <1>7 DEF ModelFails, context, handle
  <2> QED BY <2>1, <2>2, ToldOne
<1>8. ASSUME NEW x \in Sessions, Observe(x) PROVE ToldInv'
  BY <1>8, ObserveTold
<1>9. ASSUME NEW x \in Sessions, Break(x) PROVE ToldInv'
  BY <1>9, ToldSame DEF Break, context, handle
<1>10. CASE Crash
  BY <1>10, CrashTold
<1>11. CASE Fork
  BY <1>11, ForkTold
<1>12. CASE Compact
  BY <1>12, CompactTold
<1>13. CASE UNCHANGED vars
  BY <1>13, ToldSame DEF vars, context, handle
<1> QED
  BY <1>1, <1>2, <1>3, <1>4, <1>5, <1>6, <1>7, <1>8, <1>9, <1>10, <1>11, <1>12, <1>13 DEF Next

LEMMA ToldImplies == ToldInv => AnnouncedOnce
<1> SUFFICES ASSUME ToldInv, NEW x \in Sessions, NEW n \in DOMAIN History(x),
                    History(x)[n].kind = "user"
             PROVE  History(x)[n].id \in Marks(Replay(x)) <=>
                      /\ IsExternal(History(x)[n])
                      /\ \/ Due(History(x), n)
                         \/ /\ x = Child /\ handed
                            /\ \A k \in 1 .. n - 1 : ~ IsExternal(History(x)[k])
  BY DEF AnnouncedOnce, Marks
<1>1. Told(History(x), Replay(x), First(x))
  BY DEF ToldInv, FitsNow, Fits
<1>2. History(x)[n].id \in Marks(Replay(x)) <=> Announces(History(x), n, First(x))
  BY <1>1 DEF Told
<1> QED BY <1>2 DEF Announces, First, NoneBefore

\* The user's next prompt announces a turn that he stopped, in the session and
\* in a fork of it, and no other prompt does (_session_replay,
\* _cancelled_prompt_pending, _inherited_cancelled_prompt_pending).
THEOREM StopsAreAnnounced == Spec => []AnnouncedOnce
<1>1. Init => ToldInv
  BY InitTold
<1>2. RunInv /\ ToldInv /\ [Next]_vars => ToldInv'
  BY ToldKept
<1>3. ToldInv => AnnouncedOnce
  BY ToldImplies
<1> QED BY <1>1, <1>2, <1>3, RunInvHolds, PTL DEF Spec

=============================================================================
