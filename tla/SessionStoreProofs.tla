------------------------- MODULE SessionStoreProofs -------------------------
(***************************************************************************)
(* Proofs about SessionStore, for all directories, names, sessions and     *)
(* bounds: a working directory stays usable until its toolbox is given to  *)
(* another one; the tables are well formed; the events of a session        *)
(* account for it.  The first needs of the sessions that they have a       *)
(* directory; the others have an invariant of their own, LogInv.           *)
(***************************************************************************)
EXTENDS SessionStore, FiniteSetTheorems, SequenceTheorems, WellFoundedInduction, TLAPS

-----------------------------------------------------------------------------
(* The inductive invariant.                                                *)

\* The tables of toolboxes and directories hold what their columns hold.
TablesOK ==
  /\ names \in Seq(Names)
  /\ default \in [Dirs -> Nat]
  /\ legacy \in Nat

\* A session that exists has a directory, if not of the first schema.
SessionOK(row) ==
  \/ row = Absent
  \/ /\ DOMAIN row = {"cwd", "stack", "text", "revision"}
     /\ row.cwd \in Dirs \cup {NoDir}

SessionsOK ==
  /\ DOMAIN session = Sessions
  /\ \A s \in Sessions : SessionOK(session[s])

\* What concerns the tables of toolboxes alone.
BoxesInv == TablesOK /\ OpensUnlessMoved

IInv == BoxesInv /\ SessionsOK

LEMMA OwnInjective == \A d, e \in Dirs : Own(d) = Own(e) => d = e
BY DEF Own

LEMMA OwnIsName == \A d \in Dirs : Own(d) \in Names
BY DEF Names

\* Entering the name n of a new toolbox affects no directory of another name.
LEMMA AppendedNames ==
  ASSUME NEW s \in Seq(Names), NEW n \in Names
  PROVE  /\ Append(s, n) \in Seq(Names)
         /\ Len(s) + 1 \in Nat \ {0}
         /\ Range(Append(s, n)) = Range(s) \cup {n}
<1>1. DOMAIN Append(s, n) = 1 .. Len(s) + 1 /\ DOMAIN s = 1 .. Len(s) /\ Len(s) \in Nat
  OBVIOUS
<1>2. \A i \in 1 .. Len(s) : Append(s, n)[i] = s[i]
  OBVIOUS
<1>3. Append(s, n)[Len(s) + 1] = n
  OBVIOUS
<1>4. Range(Append(s, n)) = Range(s) \cup {n}
  BY <1>1, <1>2, <1>3 DEF Range
<1> QED BY <1>1, <1>4

LEMMA RenamedNames ==
  ASSUME NEW s \in Seq(Names), NEW box \in DOMAIN s, NEW n \in Names
  PROVE  /\ [s EXCEPT ![box] = n] \in Seq(Names)
         /\ Range([s EXCEPT ![box] = n]) \subseteq Range(s) \cup {n}
BY DEF Range

-----------------------------------------------------------------------------
LEMMA InitEstablishes == Init => IInv
<1> SUFFICES ASSUME Init PROVE IInv
  OBVIOUS
<1>s. SessionsOK
  BY DEF Init, SessionsOK, SessionOK
<1>1. CASE legacy = 0
  <2>1. PICK d \in Dirs : /\ names = <<Own(d)>>
                          /\ default = [e \in Dirs |-> IF e = d THEN 1 ELSE 0]
    BY <1>1 DEF Init
  <2>2. TablesOK
    BY <1>1, <2>1, OwnIsName DEF TablesOK
  <2>3. Range(names) = {Own(d)}
    BY <2>1 DEF Range
  <2>4. \A e \in Dirs : Opens(e)
    BY <2>1, <2>3, OwnInjective DEF Opens
  <2> QED BY <1>s, <2>2, <2>4 DEF IInv, BoxesInv, OpensUnlessMoved
<1>2. CASE legacy = 1
  <2>1. TablesOK
    BY <1>2 DEF Init, TablesOK, Names
  <2> QED BY <1>s, <1>2, <2>1 DEF IInv, BoxesInv, OpensUnlessMoved, Opens
<1> QED BY <1>1, <1>2 DEF Init

\* What Init and every other operation ask of the tables changes nothing of it.
LEMMA TablesStutter ==
  ASSUME BoxesInv, UNCHANGED <<names, default, legacy, moved>>
  PROVE  BoxesInv'
BY DEF BoxesInv, TablesOK, OpensUnlessMoved, Opens

LEMMA EnsureKeeps ==
  ASSUME BoxesInv, NEW d \in Dirs, NEW box, Ensure(d, box), UNCHANGED <<legacy, moved>>
  PROVE  BoxesInv'
<1>1. CASE UNCHANGED <<names, default>>
  BY <1>1, TablesStutter
<1>2. CASE /\ box = Len(names) + 1
           /\ names' = Append(names, Own(d))
           /\ default' = [default EXCEPT ![d] = box]
  <2>1. names' \in Seq(Names) /\ box \in Nat \ {0}
        /\ Range(names)' = Range(names) \cup {Own(d)}
    BY <1>2, AppendedNames, OwnIsName DEF BoxesInv, TablesOK
  <2>2. TablesOK'
    BY <1>2, <2>1 DEF BoxesInv, TablesOK
  <2>3. ASSUME NEW e \in Dirs \ moved' PROVE Opens(e)'
    <3>1. CASE e = d
      BY <1>2, <2>1, <3>1 DEF BoxesInv, TablesOK, Opens
    <3>2. CASE e # d
      BY <1>2, <2>1, <2>3, <3>2, OwnInjective DEF BoxesInv, TablesOK, OpensUnlessMoved, Opens
    <3> QED BY <3>1, <3>2
  <2> QED BY <2>2, <2>3 DEF BoxesInv, OpensUnlessMoved
<1> QED BY <1>1, <1>2 DEF Ensure

LEMMA CreateToolboxKeeps ==
  ASSUME BoxesInv, NEW n \in UserNames, NEW cwd \in Dirs \cup {NoDir}, CreateToolbox(n, cwd)
  PROVE  BoxesInv'
<1>1. n \in Names
  BY DEF Names
<1>2. names' \in Seq(Names) /\ Len(names) + 1 \in Nat \ {0}
      /\ Range(names)' = Range(names) \cup {n}
  BY <1>1, AppendedNames DEF BoxesInv, TablesOK, CreateToolbox
<1>3. TablesOK'
  BY <1>2 DEF BoxesInv, TablesOK, CreateToolbox
<1>4. ASSUME NEW e \in Dirs \ moved' PROVE Opens(e)'
  <2>1. Own(e) # n
    BY NamesAssumption
  <2>2. default'[e] = default[e] \/ default'[e] = Len(names) + 1
    BY DEF CreateToolbox
  <2> QED BY <1>2, <1>4, <2>1, <2>2 DEF BoxesInv, TablesOK, OpensUnlessMoved, Opens, CreateToolbox
<1> QED BY <1>3, <1>4 DEF BoxesInv, OpensUnlessMoved

LEMMA RenameKeeps ==
  ASSUME BoxesInv, NEW n \in UserNames, NEW box \in Boxes, Rename(box, n)
  PROVE  BoxesInv'
<1>1. n \in Names /\ box \in DOMAIN names
  BY DEF Names, Boxes
<1>2. names' \in Seq(Names) /\ Range(names)' \subseteq Range(names) \cup {n}
  BY <1>1, RenamedNames DEF BoxesInv, TablesOK, Rename
<1>3. TablesOK'
  BY <1>2 DEF BoxesInv, TablesOK, Rename
<1>4. ASSUME NEW e \in Dirs \ moved' PROVE Opens(e)'
  <2>1. Own(e) # n
    BY NamesAssumption
  <2> QED BY <1>2, <1>4, <2>1 DEF BoxesInv, OpensUnlessMoved, Opens, Rename
<1> QED BY <1>3, <1>4 DEF BoxesInv, OpensUnlessMoved

\* A directory that loses its default is recorded as moved.
LEMMA SetCwdDefaultKeeps ==
  ASSUME BoxesInv, NEW box \in Boxes, NEW d \in Dirs, SetCwdDefault(box, d)
  PROVE  BoxesInv'
<1>1. box \in Nat \ {0}
  BY DEF BoxesInv, TablesOK, Boxes
<1>2. TablesOK'
  BY <1>1 DEF BoxesInv, TablesOK, SetCwdDefault
<1>3. ASSUME NEW e \in Dirs \ moved' PROVE Opens(e)'
  <2>1. default'[e] = box \/ default'[e] = default[e]
    BY <1>3 DEF SetCwdDefault
  <2>2. e \in Dirs \ moved
    BY <1>3 DEF SetCwdDefault
  <2> QED BY <1>1, <2>1, <2>2 DEF BoxesInv, OpensUnlessMoved, Opens, SetCwdDefault
<1> QED BY <1>2, <1>3 DEF BoxesInv, OpensUnlessMoved

-----------------------------------------------------------------------------
(* The steps that concern sessions.                                        *)

LEMMA LaunchIsDir ==
  ASSUME SessionsOK, NEW s \in Sessions, Exists(s), NEW d \in Dirs
  PROVE  Launch(s, d) \in Dirs
BY DEF SessionsOK, SessionOK, Exists, Launch

LEMMA ReplaceSelectionKeeps ==
  ASSUME SessionsOK, NEW s \in Sessions, Exists(s), NEW request, NEW after,
         ReplaceSelection(s, request, after)
  PROVE  SessionsOK' /\ UNCHANGED <<legacy, moved>>
BY DEF SessionsOK, SessionOK, Exists, ReplaceSelection

LEMMA SessionsStutter ==
  ASSUME SessionsOK, UNCHANGED session
  PROVE  SessionsOK'
BY DEF SessionsOK

LEMMA CreateSessionKeeps ==
  ASSUME IInv, NEW s \in Sessions, NEW d \in Dirs, CreateSession(s, d)
  PROVE  IInv'
<1>1. PICK box \in 1 .. MaxBoxes :
        /\ Ensure(d, box)
        /\ session' = [session EXCEPT ![s] =
             [cwd |-> d, stack |-> <<box>>, text |-> Blank, revision |-> 0]]
  BY DEF CreateSession
<1>2. BoxesInv'
  BY <1>1, EnsureKeeps DEF IInv, CreateSession
<1>3. SessionsOK'
  BY <1>1 DEF IInv, SessionsOK, SessionOK
<1> QED BY <1>2, <1>3 DEF IInv

LEMMA CreateChildSessionKeeps ==
  ASSUME IInv, NEW s \in Sessions, NEW parent \in Sessions, NEW d \in Dirs,
         CreateChildSession(s, parent, d)
  PROVE  IInv'
<1>1. PICK stack \in Snapshots(parent) :
        session' = [session EXCEPT ![s] =
          [cwd |-> Launch(parent, d), stack |-> stack, text |-> Blank, revision |-> 0]]
  BY DEF CreateChildSession
<1>2. Launch(parent, d) \in Dirs
  BY LaunchIsDir DEF IInv, CreateChildSession
<1>3. SessionsOK'
  BY <1>1, <1>2 DEF IInv, SessionsOK, SessionOK
<1>4. BoxesInv'
  BY TablesStutter DEF IInv, CreateChildSession, boxes
<1> QED BY <1>3, <1>4 DEF IInv

\* Stacks change; only a fall back to the default touches the tables.
LEMMA StackKeeps ==
  ASSUME IInv, NEW s \in Sessions, NEW d \in Dirs, NEW request,
         ResetToolboxes(s, d) \/ RemoveToolboxes(s, d, request)
  PROVE  IInv'
<1>1. Exists(s)
  BY DEF ResetToolboxes, RemoveToolboxes
<1>2. PICK after : ReplaceSelection(s, request, after) \/ ReplaceSelection(s, <<>>, after)
  BY DEF ResetToolboxes, RemoveToolboxes
<1>3. SessionsOK' /\ UNCHANGED <<legacy, moved>>
  BY <1>1, <1>2, ReplaceSelectionKeeps DEF IInv
<1>4. \/ UNCHANGED <<names, default>>
      \/ \E box : Ensure(Launch(s, d), box)
  BY DEF ResetToolboxes, RemoveToolboxes
<1>5. Launch(s, d) \in Dirs
  BY <1>1, LaunchIsDir DEF IInv
<1>6. BoxesInv'
  BY <1>3, <1>4, <1>5, EnsureKeeps, TablesStutter DEF IInv
<1> QED BY <1>3, <1>6 DEF IInv

LEMMA UpdateKeeps ==
  ASSUME IInv, NEW s \in Sessions, NEW update, NEW seen, NEW expected,
         Update(s, update, seen, expected)
  PROVE  IInv'
<1>1. Exists(s) /\ session' = [session EXCEPT ![s] = Written(s, update)]
      /\ UNCHANGED <<boxes, moved>>
  BY DEF Update
<1>2. SessionOK(Written(s, update))
  BY <1>1 DEF IInv, SessionsOK, SessionOK, Exists, Written
<1>3. SessionsOK'
  BY <1>1, <1>2 DEF IInv, SessionsOK
<1>4. BoxesInv'
  BY <1>1, TablesStutter DEF IInv, boxes
<1> QED BY <1>3, <1>4 DEF IInv

-----------------------------------------------------------------------------
LEMMA NextKeeps ==
  ASSUME IInv, [Next]_vars
  PROVE  IInv'
<1>1. ASSUME UNCHANGED vars PROVE IInv'
  BY <1>1, TablesStutter, SessionsStutter DEF IInv, vars, boxes
<1>2. ASSUME NEW d \in Dirs, HostScope(d) PROVE IInv'
  BY <1>2, EnsureKeeps, SessionsStutter DEF IInv, HostScope
<1>3. ASSUME NEW d \in Dirs, NEW box \in Boxes, SetCwdDefault(box, d) PROVE IInv'
  <2>1. UNCHANGED session
    BY <1>3 DEF SetCwdDefault
  <2> QED BY <1>3, <2>1, SetCwdDefaultKeeps, SessionsStutter DEF IInv
<1>4. ASSUME NEW n \in UserNames, NEW cwd \in Dirs \cup {NoDir}, CreateToolbox(n, cwd)
      PROVE  IInv'
  <2>1. UNCHANGED session
    BY <1>4 DEF CreateToolbox
  <2> QED BY <1>4, <2>1, CreateToolboxKeeps, SessionsStutter DEF IInv
<1>5. ASSUME NEW n \in UserNames, NEW box \in Boxes, Rename(box, n) PROVE IInv'
  <2>1. UNCHANGED session
    BY <1>5 DEF Rename
  <2> QED BY <1>5, <2>1, RenameKeeps, SessionsStutter DEF IInv
<1>6. ASSUME NEW s \in Sessions, NEW d \in Dirs, CreateSession(s, d) PROVE IInv'
  BY <1>6, CreateSessionKeeps
<1>7. ASSUME NEW s \in Sessions, NEW parent \in Sessions, NEW d \in Dirs,
             CreateChildSession(s, parent, d)
      PROVE  IInv'
  BY <1>7, CreateChildSessionKeeps
<1>8. ASSUME NEW s \in Sessions, NEW d \in Dirs, NEW request,
             ResetToolboxes(s, d) \/ RemoveToolboxes(s, d, request)
      PROVE  IInv'
  BY <1>8, StackKeeps
<1>9. ASSUME NEW s \in Sessions, NEW request,
             UseToolboxes(s, request) \/ AddToolboxes(s, request)
      PROVE  IInv'
  <2>1. UNCHANGED boxes /\ UNCHANGED moved
    BY <1>9 DEF UseToolboxes, AddToolboxes, ReplaceSelection, boxes
  <2>2. Exists(s) /\ \E after : ReplaceSelection(s, request, after)
    BY <1>9 DEF UseToolboxes, AddToolboxes
  <2> QED BY <2>1, <2>2, ReplaceSelectionKeeps, TablesStutter DEF IInv, boxes
<1>10. ASSUME NEW s \in Sessions, NEW update, NEW seen, NEW expected,
              Update(s, update, seen, expected)
       PROVE  IInv'
  BY <1>10, UpdateKeeps
<1>11. Annotated \subseteq Sessions
  BY StoreAssumption
<1>12. ASSUME Next PROVE IInv'
  BY <1>12, <1>2, <1>3, <1>4, <1>5, <1>6, <1>7, <1>8, <1>9, <1>10, <1>11 DEF Next
<1> QED BY <1>1, <1>12

LEMMA Invariance == Spec => []IInv
BY InitEstablishes, NextKeeps, PTL DEF Spec

\* A working directory keeps opening, whatever is created, renamed, selected or
\* mapped in any number of processes, until a toolbox that was its default is
\* made another's (kernel.py, _ensure_cwd_default and set_cwd_default).
THEOREM DirectoriesOpen == Spec => []OpensUnlessMoved
<1>1. IInv => OpensUnlessMoved
  BY DEF IInv, BoxesInv
<1> QED BY <1>1, Invariance, PTL

-----------------------------------------------------------------------------
(* Least and last elements.                                                *)

LEMMA LeastElement ==
  ASSUME NEW T, T \subseteq Nat, T # {}
  PROVE  \E x \in T : \A y \in T : x <= y
<1>1. PICK x \in T : \A y \in T : ~ (<<y, x>> \in OpToRel(<, Nat))
  BY WFMin, NatLessThanWellFounded
<1>2. \A y \in T : x <= y
  <2> SUFFICES ASSUME NEW y \in T, y < x PROVE FALSE
    OBVIOUS
  <2>1. <<y, x>> \in OpToRel(<, Nat)
    BY DEF OpToRel
  <2> QED BY <2>1, <1>1
<1> QED BY <1>2

\* A set of positions in a log that is not empty has a last one.
LEMMA LatestFacts ==
  ASSUME NEW N \in Nat, NEW places, places \subseteq 1 .. N, places # {}
  PROVE  /\ Latest(places) \in places
         /\ \A m \in places : m <= Latest(places)
<1> DEFINE T == {k \in Nat : \A m \in places : m <= k}
<1>1. N \in T
  OBVIOUS
<1>2. PICK x \in T : \A y \in T : x <= y
  <2> HIDE DEF T
  <2>1. T \subseteq Nat
    BY DEF T
  <2> QED BY <1>1, <2>1, LeastElement
<1>3. x \in places
  <2> SUFFICES ASSUME x \notin places PROVE FALSE
    OBVIOUS
  <2>1. PICK m \in places : TRUE
    OBVIOUS
  <2>2. x - 1 \in Nat /\ \A k \in places : k <= x - 1
    BY <2>1
  <2> QED BY <2>2, <1>2
<1>4. \E n \in places : \A m \in places : m <= n
  BY <1>3
<1> QED BY <1>4 DEF Latest

\* If the last one is known.
LEMMA LatestIs ==
  ASSUME NEW N \in Nat, NEW places, places \subseteq 1 .. N,
         NEW n \in places, \A m \in places : m <= n
  PROVE  Latest(places) = n
<1>1. PICK l : l = Latest(places)
  OBVIOUS
<1>2. l \in places /\ n <= l
  BY <1>1, LatestFacts
<1>3. l \in Nat /\ n \in Nat /\ l <= n
  BY <1>2
<1> QED BY <1>1, <1>2, <1>3

-----------------------------------------------------------------------------
(* Without.                                                                *)

Keeps(seq, left, m, g) ==
  g = [n \in 0 .. m |->
         IF n = 0 THEN <<>>
         ELSE IF seq[n] \in left THEN g[n - 1] ELSE Append(g[n - 1], seq[n])]

LEMMA KeptExists ==
  ASSUME NEW seq, NEW left, NEW N \in Nat
  PROVE  \E g : Keeps(seq, left, N, g)
<1> DEFINE T == {m \in Nat : ~ \E g : Keeps(seq, left, m, g)}
<1> SUFFICES ASSUME T # {} PROVE FALSE
  OBVIOUS
<1>1. PICK m \in T : \A y \in T : m <= y
  <2> HIDE DEF T
  <2>1. T \subseteq Nat
    BY DEF T
  <2> QED BY <2>1, LeastElement
<1>2. CASE m = 0
  <2>1. Keeps(seq, left, 0, [n \in 0 .. 0 |-> <<>>])
    BY DEF Keeps
  <2> QED BY <2>1, <1>2
<1>3. CASE m # 0
  <2>1. m - 1 \in Nat /\ m - 1 \notin T
    BY <1>1, <1>3
  <2>2. PICK g : Keeps(seq, left, m - 1, g)
    BY <2>1
  <2> DEFINE h == [n \in 0 .. m |-> IF n < m THEN g[n]
                     ELSE IF seq[n] \in left THEN g[n - 1] ELSE Append(g[n - 1], seq[n])]
  <2>3. \A n \in 0 .. m - 1 : h[n] = g[n]
    BY <2>1
  <2>4. ASSUME NEW n \in 0 .. m
        PROVE  h[n] = IF n = 0 THEN <<>>
                      ELSE IF seq[n] \in left THEN h[n - 1] ELSE Append(h[n - 1], seq[n])
    <3>1. CASE n = m
      <4>1. h[n - 1] = g[n - 1]
        BY <3>1, <2>1, <2>3
      <4> QED BY <3>1, <4>1, <1>3
    <3>2. CASE n < m
      <4>1. n \in 0 .. m - 1
        BY <3>2, <2>1
      <4>2. g[n] = IF n = 0 THEN <<>>
                   ELSE IF seq[n] \in left THEN g[n - 1] ELSE Append(g[n - 1], seq[n])
        BY <4>1, <2>2 DEF Keeps
      <4>3. n # 0 => h[n - 1] = g[n - 1]
        BY <4>1, <2>3
      <4> HIDE DEF h
      <4> QED BY <4>1, <4>2, <4>3, <2>3
    <3> QED BY <3>1, <3>2, <1>1
  <2>5. h = [n \in 0 .. m |-> IF n = 0 THEN <<>>
               ELSE IF seq[n] \in left THEN h[n - 1] ELSE Append(h[n - 1], seq[n])]
    <3>1. h = [n \in 0 .. m |-> h[n]]
      OBVIOUS
    <3> HIDE DEF h
    <3> QED BY <3>1, <2>4
  <2>6. Keeps(seq, left, m, h)
    <3> HIDE DEF h
    <3> QED BY <2>5 DEF Keeps
  <2> QED BY <2>6, <1>1
<1> QED BY <1>2, <1>3

\* What is left of a sequence: elements of it that are not taken out, once each
\* if the sequence had them once.
LEMMA WithoutFacts ==
  ASSUME NEW S, NEW seq \in Seq(S), NEW left
  PROVE  /\ Without(seq, left) \in Seq(S)
         /\ Range(Without(seq, left)) = Range(seq) \ left
         /\ IsInjective(seq) => IsInjective(Without(seq, left))
<1> DEFINE kept == CHOOSE g : Keeps(seq, left, Len(seq), g)
<1>1. Len(seq) \in Nat /\ DOMAIN seq = 1 .. Len(seq) /\ \A i \in DOMAIN seq : seq[i] \in S
  OBVIOUS
<1>2. Keeps(seq, left, Len(seq), kept)
  BY <1>1, KeptExists
<1>3. Without(seq, left) = kept[Len(seq)]
  BY DEF Without, Keeps
<1> HIDE DEF kept
<1>4. kept[0] = <<>>
  BY <1>1, <1>2 DEF Keeps
<1>5. \A n \in 1 .. Len(seq) :
        kept[n] = IF seq[n] \in left THEN kept[n - 1] ELSE Append(kept[n - 1], seq[n])
  <2>1. kept = [n \in 0 .. Len(seq) |->
                  IF n = 0 THEN <<>>
                  ELSE IF seq[n] \in left THEN kept[n - 1] ELSE Append(kept[n - 1], seq[n])]
    BY <1>2 DEF Keeps
  <2> SUFFICES ASSUME NEW n \in 1 .. Len(seq)
               PROVE  kept[n] = IF seq[n] \in left THEN kept[n - 1]
                                ELSE Append(kept[n - 1], seq[n])
    OBVIOUS
  <2>2. n \in 0 .. Len(seq) /\ n # 0
    BY <1>1
  <2> QED BY <2>1, <2>2
<1> DEFINE Good(n) == /\ kept[n] \in Seq(S)
                      /\ Range(kept[n]) = {seq[i] : i \in 1 .. n} \ left
                      /\ IsInjective(seq) => IsInjective(kept[n])
           T == {n \in Nat : n <= Len(seq) /\ ~ Good(n)}
<1>6. SUFFICES ASSUME ~ Good(Len(seq)) PROVE FALSE
  <2>1. Range(seq) = {seq[i] : i \in 1 .. Len(seq)}
    BY <1>1 DEF Range
  <2> QED BY <2>1, <1>3
<1>7. PICK m \in T : \A y \in T : m <= y
  <2> HIDE DEF T
  <2>1. T \subseteq Nat
    BY DEF T
  <2>2. Len(seq) \in T
    BY <1>1, <1>6 DEF T
  <2> QED BY <2>1, <2>2, LeastElement
<1>8. CASE m = 0
  <2>1. Good(0)
    BY <1>4 DEF Range, IsInjective
  <2> QED BY <2>1, <1>7, <1>8
<1>9. CASE m # 0
  <2>1. m \in 1 .. Len(seq) /\ m - 1 \in Nat /\ m - 1 <= Len(seq)
    BY <1>7, <1>9, <1>1
  <2>2. Good(m - 1)
    <3>1. m - 1 \notin T
      <4>1. T \subseteq Nat /\ m \in Nat
        BY <1>7
      <4> HIDE DEF T
      <4> QED BY <4>1, <1>7
    <3> HIDE DEF Good
    <3> QED BY <3>1, <2>1
  <2>3. PICK k : k = kept[m - 1]
    OBVIOUS
  <2>4. {seq[i] : i \in 1 .. m} = {seq[i] : i \in 1 .. m - 1} \cup {seq[m]}
    BY <2>1
  <2>5. CASE seq[m] \in left
    <3>1. kept[m] = k
      BY <2>1, <2>3, <2>5, <1>5
    <3>2. Range(k) = {seq[i] : i \in 1 .. m} \ left
      BY <2>2, <2>3, <2>4, <2>5
    <3> QED BY <3>1, <3>2, <2>2, <2>3, <1>7
  <2>6. CASE seq[m] \notin left
    <3>1. kept[m] = Append(k, seq[m])
      BY <2>1, <2>3, <2>6, <1>5
    <3>2. k \in Seq(S) /\ seq[m] \in S
      BY <2>1, <2>2, <2>3, <1>1
    <3>3. /\ Append(k, seq[m]) \in Seq(S)
          /\ Len(k) \in Nat /\ DOMAIN k = 1 .. Len(k)
          /\ DOMAIN Append(k, seq[m]) = 1 .. Len(k) + 1
          /\ \A i \in 1 .. Len(k) : Append(k, seq[m])[i] = k[i]
          /\ Append(k, seq[m])[Len(k) + 1] = seq[m]
      BY <3>2
    <3>4. Range(Append(k, seq[m])) = Range(k) \cup {seq[m]}
      BY <3>3 DEF Range
    <3>5. Range(kept[m]) = {seq[i] : i \in 1 .. m} \ left
      BY <3>1, <3>4, <2>2, <2>3, <2>4, <2>6
    <3>6. ASSUME IsInjective(seq) PROVE IsInjective(kept[m])
      <4>1. seq[m] \notin {seq[i] : i \in 1 .. m - 1}
        BY <3>6, <2>1, <1>1 DEF IsInjective
      <4>2. seq[m] \notin Range(k)
        BY <4>1, <2>2, <2>3
      <4>3. IsInjective(k)
        BY <3>6, <2>2, <2>3
      <4> QED BY <3>1, <3>3, <4>2, <4>3 DEF IsInjective, Range
    <3> QED BY <3>1, <3>3, <3>5, <3>6, <1>7
  <2> QED BY <2>5, <2>6
<1> QED BY <1>8, <1>9

-----------------------------------------------------------------------------
(* The account that a log gives of a session.                              *)

Stacks(n) == {x \in Seq(1 .. n) : x # <<>> /\ IsInjective(x)}

Change(n) == [kind : {"toolbox_selection_changed"}, before : Stacks(n), after : Stacks(n)]

Note == [kind : {"session_annotation_changed"}, field : Fields, old : Texts, new : Texts,
         revision : Nat, expected : Int, by : Text]

Event(n) == Change(n) \cup Note

Row(n) == [cwd : Dirs \cup {NoDir}, stack : Stacks(n), text : Text, revision : Nat]

\* Of a session with the given row and log, created with the stack from, when
\* there are n toolboxes.
Account(row, events, from, n) ==
  /\ row \in Row(n) /\ from \in Stacks(n) /\ events \in Seq(Event(n))
  /\ SelectionExplained(events, from, row.stack)
  /\ AnnotationsExplained(events, row.text, row.revision)

\* One log continues another.
Longer(both, events) ==
  /\ Len(events) \in Nat /\ DOMAIN events = 1 .. Len(events)
  /\ Len(both) \in Nat /\ DOMAIN both = 1 .. Len(both)
  /\ Len(events) <= Len(both)
  /\ \A i \in 1 .. Len(events) : both[i] = events[i]

LEMMA KindsDiffer ==
  ASSUME NEW n, NEW e \in Event(n)
  PROVE  /\ e.kind = "toolbox_selection_changed" => e \in Change(n)
         /\ e.kind = "session_annotation_changed" => e \in Note
BY DEF Event, Change, Note

LEMMA StacksGrow ==
  ASSUME NEW n \in Nat, NEW k \in Nat, n <= k
  PROVE  Stacks(n) \subseteq Stacks(k)
<1> SUFFICES ASSUME NEW x \in Stacks(n) PROVE x \in Stacks(k)
  OBVIOUS
<1>1. x \in Seq(1 .. n)
  BY DEF Stacks
<1>2. 1 .. n \subseteq 1 .. k
  OBVIOUS
<1>3. x \in Seq(1 .. k)
  BY <1>1, <1>2, SeqMonotonic
<1> QED BY <1>3 DEF Stacks

LEMMA AccountGrows ==
  ASSUME NEW row, NEW events, NEW from, NEW n \in Nat, NEW k \in Nat, n <= k,
         Account(row, events, from, n)
  PROVE  Account(row, events, from, k)
<1>1. Stacks(n) \subseteq Stacks(k)
  BY StacksGrow
<1>2. Event(n) \subseteq Event(k)
  BY <1>1 DEF Event, Change
<1>3. events \in Seq(Event(k))
  BY <1>2, SeqMonotonic DEF Account
<1>4. row \in Row(k)
  BY <1>1 DEF Account, Row
<1> QED BY <1>1, <1>3, <1>4 DEF Account

LEMMA LogPlaces ==
  ASSUME NEW both, NEW events, Longer(both, events)
  PROVE  /\ Changes(events) \subseteq 1 .. Len(events)
         /\ Notes(events) \subseteq 1 .. Len(events)
         /\ Changes(both) \subseteq 1 .. Len(both)
         /\ Notes(both) \subseteq 1 .. Len(both)
         /\ \A i \in 1 .. Len(events) : /\ i \in Changes(both) <=> i \in Changes(events)
                                        /\ i \in Notes(both) <=> i \in Notes(events)
BY DEF Longer, Changes, Notes

LEMMA StackAtPrefix ==
  ASSUME NEW both, NEW events, Longer(both, events), NEW from, NEW n \in 1 .. Len(events) + 1
  PROVE  StackAt(both, from, n) = StackAt(events, from, n)
<1> DEFINE P == {m \in Changes(events) : m < n}
<1>1. Len(events) \in Nat /\ \A i \in 1 .. Len(events) : both[i] = events[i]
  BY DEF Longer
<1>2. {m \in Changes(both) : m < n} = P
  <2>1. ASSUME NEW m \in Changes(both), m < n PROVE m \in 1 .. Len(events)
    <3>1. m \in 1 .. Len(both) /\ Len(both) \in Nat
      BY <2>1, LogPlaces DEF Longer
    <3> QED BY <3>1, <2>1, <1>1
  <2> QED BY <2>1, LogPlaces
<1>3. CASE P = {}
  BY <1>2, <1>3 DEF StackAt
<1>4. CASE P # {}
  <2>1. P \subseteq 1 .. Len(events)
    BY LogPlaces
  <2>2. Latest(P) \in 1 .. Len(events)
    <3> HIDE DEF P
    <3> QED BY <2>1, <1>1, <1>4, LatestFacts
  <2>3. both[Latest(P)] = events[Latest(P)]
    BY <2>2, <1>1
  <2>4. StackAt(both, from, n) = both[Latest(P)].after
    BY <1>2, <1>4 DEF StackAt
  <2>5. StackAt(events, from, n) = events[Latest(P)].after
    BY <1>4 DEF StackAt
  <2> QED BY <2>3, <2>4, <2>5
<1> QED BY <1>3, <1>4

\* Only as long as no change of the stack follows, the stack is what it was.
LEMMA StackAtEnd ==
  ASSUME NEW both, NEW events, Longer(both, events), NEW from,
         \A i \in Changes(both) : i <= Len(events)
  PROVE  StackAt(both, from, Len(both) + 1) = StackAt(events, from, Len(events) + 1)
<1>1. /\ Len(events) \in Nat /\ Len(both) \in Nat /\ Len(events) <= Len(both)
  BY DEF Longer
<1>2. {m \in Changes(both) : m < Len(both) + 1} = {m \in Changes(both) : m < Len(events) + 1}
  <2>1. \A m \in Changes(both) : m \in 1 .. Len(both)
    BY LogPlaces
  <2> QED BY <2>1, <1>1
<1>3. StackAt(both, from, Len(both) + 1) = StackAt(both, from, Len(events) + 1)
  BY <1>2 DEF StackAt
<1>4. Len(events) + 1 \in 1 .. Len(events) + 1
  BY <1>1
<1> QED BY <1>3, <1>4, StackAtPrefix

LEMMA TextAtPrefix ==
  ASSUME NEW both, NEW events, Longer(both, events), NEW f \in Fields,
         NEW r, NEW k, Setting(both, f, r) = Setting(events, f, k)
  PROVE  TextAt(both, r)[f] = TextAt(events, k)[f]
<1> DEFINE P == Setting(events, f, k)
<1>1. /\ Len(events) \in Nat
      /\ \A i \in 1 .. Len(events) : both[i] = events[i]
  BY DEF Longer
<1>2. /\ TextAt(both, r)[f] = IF P = {} THEN 0 ELSE both[Latest(P)].new
      /\ TextAt(events, k)[f] = IF P = {} THEN 0 ELSE events[Latest(P)].new
  BY DEF TextAt
<1>3. CASE P # {}
  <2>1. P \subseteq 1 .. Len(events)
    BY LogPlaces DEF Setting
  <2>2. Latest(P) \in 1 .. Len(events)
    <3> HIDE DEF P
    <3> QED BY <2>1, <1>1, <1>3, LatestFacts
  <2> QED BY <2>2, <1>1, <1>2
<1> QED BY <1>2, <1>3

\* What was selected or written in the log that is continued stays explained.
LEMMA NotesOf ==
  ASSUME NEW n, NEW events \in Seq(Event(n))
  PROVE  /\ \A i \in Notes(events) : events[i] \in Note
         /\ \A i \in Changes(events) : events[i] \in Change(n)
         /\ Longer(events, events)
         /\ IsFiniteSet(Notes(events))
         /\ Cardinality(Notes(events)) \in Nat
<1>1. \A i \in DOMAIN events : events[i] \in Event(n)
  OBVIOUS
<1>2. Longer(events, events)
  BY DEF Longer
<1>3. IsFiniteSet(Notes(events))
  <2>1. Notes(events) \subseteq 1 .. Len(events) /\ Len(events) \in Nat
    BY <1>2, LogPlaces DEF Longer
  <2>2. IsFiniteSet(1 .. Len(events))
    BY <2>1, FS_Interval
  <2> QED BY <2>1, <2>2, FS_Subset
<1> QED BY <1>1, <1>2, <1>3, KindsDiffer, FS_CardinalityType DEF Notes, Changes

LEMMA TextAtType ==
  ASSUME NEW n, NEW events \in Seq(Event(n)), NEW r
  PROVE  TextAt(events, r) \in Text
<1> SUFFICES ASSUME NEW f \in Fields PROVE TextAt(events, r)[f] \in Texts
  BY DEF TextAt, Text
<1> DEFINE P == Setting(events, f, r)
<1>1. TextAt(events, r)[f] = IF P = {} THEN 0 ELSE events[Latest(P)].new
  BY DEF TextAt
<1>2. CASE P # {}
  <2>1. P \subseteq Notes(events)
    BY DEF Setting
  <2>2. P \subseteq 1 .. Len(events) /\ Len(events) \in Nat
    BY <2>1, NotesOf, LogPlaces
  <2>3. Latest(P) \in P
    <3> HIDE DEF P
    <3> QED BY <2>2, <1>2, LatestFacts
  <2>4. events[Latest(P)] \in Note
    BY <2>1, <2>3, NotesOf
  <2>5. events[Latest(P)].new \in Texts
    BY <2>4 DEF Note
  <2> QED BY <2>5, <1>1, <1>2
<1> QED BY <1>1, <1>2 DEF Texts

-----------------------------------------------------------------------------
\* A selection is logged with what it replaced.
LEMMA AccountOfSelection ==
  ASSUME NEW row, NEW events, NEW from, NEW n \in Nat, Account(row, events, from, n),
         NEW after \in Stacks(n),
         NEW e, e = [kind |-> "toolbox_selection_changed", before |-> row.stack, after |-> after]
  PROVE  Account([row EXCEPT !.stack = after], Append(events, e), from, n)
<1> DEFINE both == Append(events, e)
           L == Len(events)
<1>0. /\ row \in Row(n) /\ from \in Stacks(n) /\ events \in Seq(Event(n))
      /\ SelectionExplained(events, from, row.stack)
      /\ AnnotationsExplained(events, row.text, row.revision)
  BY DEF Account
<1>1. e \in Event(n) /\ e.kind = "toolbox_selection_changed" /\ e.after = after
      /\ e.before = row.stack
  BY <1>0 DEF Event, Change, Row
<1>2. /\ both \in Seq(Event(n)) /\ L \in Nat /\ Len(both) = L + 1 /\ both[L + 1] = e
      /\ Longer(both, events)
  BY <1>0, <1>1 DEF Longer
<1> HIDE DEF both
<1>3. Changes(both) = Changes(events) \cup {L + 1} /\ Notes(both) = Notes(events)
  <2>1. L + 1 \in Changes(both) /\ L + 1 \notin Notes(both)
    BY <1>1, <1>2 DEF Changes, Notes, Longer
  <2>2. \A i \in 1 .. L + 1 : i \in 1 .. L \/ i = L + 1
    BY <1>2
  <2>3. \A i \in 1 .. L : i \in Changes(both) <=> i \in Changes(events)
    BY <1>2, LogPlaces
  <2>4. \A i \in 1 .. L : i \in Notes(both) <=> i \in Notes(events)
    BY <1>2, LogPlaces
  <2>5. /\ Changes(events) \subseteq 1 .. L /\ Notes(events) \subseteq 1 .. L
        /\ Changes(both) \subseteq 1 .. L + 1 /\ Notes(both) \subseteq 1 .. L + 1
    BY <1>2, LogPlaces
  <2>6. Changes(both) = Changes(events) \cup {L + 1}
    BY <2>1, <2>2, <2>3, <2>5
  <2>7. Notes(both) = Notes(events)
    BY <2>1, <2>2, <2>4, <2>5
  <2> QED BY <2>6, <2>7
<1>4. SelectionExplained(both, from, after)
  <2>1. ASSUME NEW i \in Changes(both) PROVE both[i].before = StackAt(both, from, i)
    <3>1. StackAt(both, from, i) = StackAt(events, from, i) /\ i \in 1 .. L + 1
      <4>1. i \in 1 .. L + 1
        BY <1>2, LogPlaces
      <4> QED BY <4>1, <1>2, StackAtPrefix
    <3>2. CASE i = L + 1
      BY <3>1, <3>2, <1>0, <1>1, <1>2 DEF SelectionExplained
    <3>3. CASE i # L + 1
      <4>1. i \in Changes(events) /\ i \in 1 .. L
        BY <3>1, <3>3, <1>2, <1>3
      <4>2. both[i] = events[i]
        BY <4>1, <1>2 DEF Longer
      <4> QED BY <4>1, <4>2, <3>1, <1>0 DEF SelectionExplained
    <3> QED BY <3>2, <3>3
  <2>2. StackAt(both, from, Len(both) + 1) = after
    <3> DEFINE P == {m \in Changes(both) : m < Len(both) + 1}
    <3>1. P \subseteq 1 .. L + 1 /\ L + 1 \in P /\ \A m \in P : m <= L + 1
      BY <1>2, <1>3, LogPlaces
    <3>2. Latest(P) = L + 1
      <4> HIDE DEF P
      <4>1. L + 1 \in Nat
        BY <1>2
      <4> QED BY <3>1, <4>1, LatestIs
    <3> QED BY <3>1, <3>2, <1>1, <1>2 DEF StackAt
  <2> QED BY <2>1, <2>2 DEF SelectionExplained
<1>5. ASSUME NEW r PROVE TextAt(both, r) = TextAt(events, r)
  <2>1. ASSUME NEW f \in Fields PROVE TextAt(both, r)[f] = TextAt(events, r)[f]
    <3>1. Setting(both, f, r) = Setting(events, f, r)
      <4>1. \A i \in Notes(events) : both[i] = events[i]
        BY <1>2, LogPlaces DEF Longer
      <4> QED BY <4>1, <1>3 DEF Setting
    <3> QED BY <3>1, <1>2, TextAtPrefix
  <2> QED BY <2>1 DEF TextAt
<1>6. AnnotationsExplained(both, row.text, row.revision)
  <2>1. \A i \in Notes(events) : both[i] = events[i]
    BY <1>2, LogPlaces DEF Longer
  <2>2. ASSUME NEW i \in Notes(both)
        PROVE  /\ both[i].revision = Cardinality({m \in Notes(both) : m <= i})
               /\ both[i].old = TextAt(both, both[i].revision - 1)[both[i].field]
               /\ both[i].expected # Unguarded => both[i].old = both[i].by[both[i].field]
    <3>1. both[i] = events[i] /\ i \in Notes(events)
      BY <2>1, <1>3
    <3>2. TextAt(both, events[i].revision - 1) = TextAt(events, events[i].revision - 1)
      BY <1>5
    <3>3. /\ events[i].revision = Cardinality({m \in Notes(events) : m <= i})
          /\ events[i].old = TextAt(events, events[i].revision - 1)[events[i].field]
          /\ events[i].expected # Unguarded => events[i].old = events[i].by[events[i].field]
      BY <3>1, <1>0 DEF AnnotationsExplained
    <3> QED BY <3>1, <3>2, <3>3, <1>3
  <2>3. row.text = TextAt(both, row.revision) /\ row.revision = Cardinality(Notes(both))
    BY <1>0, <1>3, <1>5 DEF AnnotationsExplained
  <2> QED BY <2>2, <2>3 DEF AnnotationsExplained
<1>7. [row EXCEPT !.stack = after] \in Row(n)
  BY <1>0 DEF Row
<1>8. /\ [row EXCEPT !.stack = after].stack = after
      /\ [row EXCEPT !.stack = after].text = row.text
      /\ [row EXCEPT !.stack = after].revision = row.revision
  BY <1>0 DEF Row
<1>9. Account([row EXCEPT !.stack = after], both, from, n)
  BY <1>0, <1>2, <1>4, <1>6, <1>7, <1>8 DEF Account
<1> QED BY <1>9 DEF both

\* What an update appends that makes changed of row's text the new text.
Added(row, text, changed, expected, by) ==
  [i \in 1 .. Len(changed) |->
    [kind |-> "session_annotation_changed", field |-> changed[i],
     old |-> row.text[changed[i]], new |-> text[changed[i]],
     revision |-> row.revision + i, expected |-> expected, by |-> by]]

\* The notes of an update are numbered on, one for each field that changes; with a
\* guard its writer has read the revision that it replaces.
LEMMA AccountOfUpdate ==
  ASSUME NEW row, NEW events, NEW from, NEW n \in Nat, Account(row, events, from, n),
         NEW changed \in Seq(Fields), IsInjective(changed),
         NEW text \in Text, \A f \in Fields \ Range(changed) : text[f] = row.text[f],
         NEW expected \in Int, NEW by \in Text,
         expected # Unguarded => by = TextAt(events, row.revision),
         NEW more, more = Added(row, text, changed, expected, by)
  PROVE  Account([row EXCEPT !.text = text, !.revision = row.revision + Len(changed)],
                 events \o more, from, n)
<1> DEFINE both == events \o more
           L == Len(events)
           K == Len(changed)
           R == row.revision
<1>0. /\ row \in Row(n) /\ from \in Stacks(n) /\ events \in Seq(Event(n))
      /\ SelectionExplained(events, from, row.stack)
      /\ AnnotationsExplained(events, row.text, R)
  BY DEF Account
<1>1. K \in Nat /\ DOMAIN changed = 1 .. K /\ \A i \in 1 .. K : changed[i] \in Fields
  OBVIOUS
<1>2. R \in Nat /\ row.text \in Text /\ TextAt(events, R) \in Text
  BY <1>0, TextAtType DEF Row
<1>3. /\ R = Cardinality(Notes(events)) /\ row.text = TextAt(events, R)
      /\ \A i \in Notes(events) :
           /\ events[i].revision = Cardinality({m \in Notes(events) : m <= i})
           /\ events[i].old = TextAt(events, events[i].revision - 1)[events[i].field]
           /\ events[i].expected # Unguarded => events[i].old = events[i].by[events[i].field]
  BY <1>0 DEF AnnotationsExplained
<1>4. /\ more \in Seq(Event(n)) /\ Len(more) = K
      /\ \A i \in 1 .. K :
           /\ more[i].kind = "session_annotation_changed" /\ more[i].field = changed[i]
           /\ more[i].old = row.text[changed[i]] /\ more[i].new = text[changed[i]]
           /\ more[i].revision = R + i /\ more[i].expected = expected /\ more[i].by = by
  <2>1. ASSUME NEW i \in 1 .. K PROVE more[i] \in Note
    BY <2>1, <1>1, <1>2 DEF Added, Note, Text
  <2>2. \A i \in 1 .. K : more[i] \in Event(n)
    BY <2>1 DEF Event
  <2>3. more \in Seq(Event(n)) /\ Len(more) = K
    BY <2>2, <1>1, IsASeq DEF Added
  <2> QED BY <2>3 DEF Added
<1>5. /\ both \in Seq(Event(n)) /\ L \in Nat /\ Len(both) = L + K
      /\ \A i \in 1 .. L : both[i] = events[i]
      /\ \A i \in 1 .. K : both[L + i] = more[i]
  <2>1. PICK m : m = more
    OBVIOUS
  <2>2. /\ events \o m \in Seq(Event(n)) /\ Len(events \o m) = L + Len(m)
        /\ \A i \in 1 .. L + Len(m) : (events \o m)[i] = IF i <= L THEN events[i] ELSE m[i - L]
    <3>1. events \in Seq(Event(n)) /\ m \in Seq(Event(n))
      BY <2>1, <1>0, <1>4
    <3> QED BY ONLY <3>1, ConcatProperties
  <2>3. L \in Nat
    BY <1>0
  <2>4. \A i \in 1 .. K : L + i \in 1 .. L + K /\ ~(L + i <= L) /\ (L + i) - L = i
    BY <2>3, <1>1
  <2> QED BY <2>1, <2>2, <2>3, <2>4, <1>1, <1>4
<1> HIDE DEF both
<1>6. Longer(both, events)
  BY <1>0, <1>1, <1>5 DEF Longer
<1>7. Changes(both) = Changes(events) /\ Notes(both) = Notes(events) \cup L + 1 .. L + K
  <2>1. \A i \in L + 1 .. L + K : both[i].kind = "session_annotation_changed"
    <3> SUFFICES ASSUME NEW i \in L + 1 .. L + K
                 PROVE  both[i].kind = "session_annotation_changed"
      OBVIOUS
    <3>1. i - L \in 1 .. K /\ L + (i - L) = i
      BY <1>1, <1>5
    <3>2. both[L + (i - L)] = more[i - L]
      BY <3>1, <1>5
    <3> QED BY <3>1, <3>2, <1>4
  <2>2. \A i \in 1 .. L + K : i \in 1 .. L \/ i \in L + 1 .. L + K
    BY <1>1, <1>5
  <2>3. \A i \in L + 1 .. L + K : i \in 1 .. L + K /\ i \notin 1 .. L
    BY <1>1, <1>5
  <2>4. DOMAIN both = 1 .. L + K
    BY <1>5
  <2>5. \A i \in L + 1 .. L + K : i \in Notes(both) /\ i \notin Changes(both)
    BY <2>1, <2>3, <2>4 DEF Notes, Changes
  <2>6. /\ Changes(events) \subseteq 1 .. L /\ Notes(events) \subseteq 1 .. L
        /\ Changes(both) \subseteq 1 .. L + K /\ Notes(both) \subseteq 1 .. L + K
        /\ \A i \in 1 .. L : /\ i \in Changes(both) <=> i \in Changes(events)
                             /\ i \in Notes(both) <=> i \in Notes(events)
    BY <1>5, <1>6, LogPlaces
  <2> QED BY <2>2, <2>5, <2>6
<1>8. SelectionExplained(both, from, row.stack)
  <2>1. \A i \in Changes(events) : i \in 1 .. L + 1 /\ i \in 1 .. L
    BY <1>5, <1>6, LogPlaces
  <2>2. ASSUME NEW i \in Changes(both) PROVE both[i].before = StackAt(both, from, i)
    <3>1. i \in Changes(events) /\ i \in 1 .. L + 1 /\ i \in 1 .. L
      BY <2>1, <1>7
    <3>2. StackAt(both, from, i) = StackAt(events, from, i)
      BY <3>1, <1>6, StackAtPrefix
    <3> QED BY <3>1, <3>2, <1>0, <1>5 DEF SelectionExplained
  <2>3. StackAt(both, from, Len(both) + 1) = StackAt(events, from, L + 1)
    <3>1. \A i \in Changes(both) : i <= L
      BY <2>1, <1>5, <1>7
    <3> QED BY <3>1, <1>6, StackAtEnd
  <2> QED BY <2>2, <2>3, <1>0 DEF SelectionExplained
\* The notes of both: the old ones, and those that the update adds.
<1>9. ASSUME NEW i \in Notes(events)
      PROVE  /\ i \in 1 .. L /\ both[i] = events[i] /\ events[i] \in Note
             /\ events[i].revision \in Nat /\ events[i].revision <= R
             /\ events[i].field \in Fields
  <2>1. i \in 1 .. L /\ both[i] = events[i] /\ events[i] \in Note
    BY <1>0, <1>5, <1>6, LogPlaces, NotesOf
  <2>2. {m \in Notes(events) : m <= i} \subseteq Notes(events)
    OBVIOUS
  <2>3. /\ Cardinality({m \in Notes(events) : m <= i}) \in Nat
        /\ Cardinality({m \in Notes(events) : m <= i}) <= Cardinality(Notes(events))
    BY <2>2, <1>0, NotesOf, FS_Subset, FS_CardinalityType
  <2>4. events[i].field \in Fields
    BY <2>1 DEF Note
  <2> QED BY <2>1, <2>3, <2>4, <1>3
<1>10. ASSUME NEW i \in L + 1 .. L + K
       PROVE  /\ i - L \in 1 .. K /\ i = L + (i - L) /\ both[i] = more[i - L]
  <2>1. i - L \in 1 .. K /\ i = L + (i - L)
    BY <1>1, <1>5
  <2>2. both[L + (i - L)] = more[i - L]
    BY <2>1, <1>5
  <2> QED BY <2>1, <2>2
<1>11. ASSUME NEW f \in Fields, NEW k \in Int, k <= R
       PROVE  TextAt(both, k)[f] = TextAt(events, k)[f]
  <2>1. \A i \in L + 1 .. L + K : ~ (both[i].revision <= k)
    <3> SUFFICES ASSUME NEW i \in L + 1 .. L + K PROVE ~ (both[i].revision <= k)
      OBVIOUS
    <3>1. i - L \in 1 .. K /\ both[i] = more[i - L]
      BY <1>10
    <3>2. both[i].revision = R + (i - L)
      BY <3>1, <1>4
    <3> QED BY <3>1, <3>2, <1>1, <1>2, <1>11
  <2>2. \A i \in Notes(events) : both[i] = events[i]
    BY <1>9
  <2>3. Setting(both, f, k) = Setting(events, f, k)
    BY <2>1, <2>2, <1>7 DEF Setting
  <2> QED BY <2>3, <1>6, TextAtPrefix
<1>12. ASSUME NEW j \in 1 .. K
       PROVE  TextAt(both, R + j - 1)[changed[j]] = row.text[changed[j]]
  <2>1. \A i \in L + 1 .. L + K : ~ (both[i].revision <= R + j - 1 /\ both[i].field = changed[j])
    <3> SUFFICES ASSUME NEW i \in L + 1 .. L + K,
                        both[i].revision <= R + j - 1, both[i].field = changed[j]
                 PROVE  FALSE
      OBVIOUS
    <3>1. i - L \in 1 .. K /\ both[i] = more[i - L]
      BY <1>10
    <3>2. both[i].revision = R + (i - L) /\ both[i].field = changed[i - L]
      BY <3>1, <1>4
    <3>3. i - L = j
      BY <3>1, <3>2, <1>1 DEF IsInjective
    <3> QED BY <3>2, <3>3, <1>1, <1>2
  <2>2. \A i \in Notes(events) : /\ both[i] = events[i]
                                 /\ events[i].revision <= R + j - 1 /\ events[i].revision <= R
    <3> SUFFICES ASSUME NEW i \in Notes(events)
                 PROVE  both[i] = events[i] /\ events[i].revision <= R + j - 1
                        /\ events[i].revision <= R
      OBVIOUS
    <3> QED BY <1>1, <1>2, <1>9
  <2>3. Setting(both, changed[j], R + j - 1) = Setting(events, changed[j], R)
    BY <2>1, <2>2, <1>7 DEF Setting
  <2>4. changed[j] \in Fields
    BY <1>1
  <2> QED BY <2>3, <2>4, <1>3, <1>6, TextAtPrefix
<1>13. ASSUME NEW i \in Notes(events)
       PROVE  /\ both[i].revision = Cardinality({m \in Notes(both) : m <= i})
              /\ both[i].old = TextAt(both, both[i].revision - 1)[both[i].field]
              /\ both[i].expected # Unguarded => both[i].old = both[i].by[both[i].field]
  <2>1. /\ i \in 1 .. L /\ both[i] = events[i] /\ events[i].revision \in Nat
        /\ events[i].revision <= R /\ events[i].field \in Fields
    BY <1>9
  <2>2. \A m \in L + 1 .. L + K : ~ (m <= i)
    BY <2>1, <1>1, <1>5
  <2>3. {m \in Notes(both) : m <= i} = {m \in Notes(events) : m <= i}
    BY <2>2, <1>7
  <2>4. TextAt(both, events[i].revision - 1)[events[i].field]
          = TextAt(events, events[i].revision - 1)[events[i].field]
    <3>1. events[i].revision - 1 \in Int /\ events[i].revision - 1 <= R
      BY <2>1, <1>2
    <3> QED BY <3>1, <2>1, <1>11
  <2> QED BY <2>1, <2>3, <2>4, <1>3
<1>14. ASSUME NEW j \in 0 .. K
       PROVE  Cardinality(Notes(events) \cup L + 1 .. L + j) = R + j
  <2>1. IsFiniteSet(Notes(events)) /\ Cardinality(Notes(events)) \in Nat
    BY <1>0, NotesOf
  <2>2. IsFiniteSet(L + 1 .. L + j) /\ Cardinality(L + 1 .. L + j) = j
    <3>1. PICK a \in Int, b \in Int : a = L + 1 /\ b = L + j
      BY <1>1, <1>5
    <3>2. IsFiniteSet(a .. b) /\ Cardinality(a .. b) = IF a > b THEN 0 ELSE b - a + 1
      BY FS_Interval
    <3>3. (IF a > b THEN 0 ELSE b - a + 1) = j
      BY <3>1, <1>1, <1>5
    <3> QED BY <3>1, <3>2, <3>3
  <2>3. Notes(events) \cap (L + 1 .. L + j) = {}
    <3>1. \A i \in Notes(events) : i \in 1 .. L
      BY <1>9
    <3> QED BY <3>1, <1>1, <1>5
  <2>4. Cardinality({}) = 0
    BY FS_EmptySet
  <2>5. PICK A, B : A = Notes(events) /\ B = L + 1 .. L + j
    OBVIOUS
  <2>6. Cardinality(A \cup B) = Cardinality(A) + Cardinality(B) - Cardinality(A \cap B)
    BY <2>1, <2>2, <2>5, FS_Union
  <2>7. Cardinality(A) = R /\ Cardinality(B) = j /\ Cardinality(A \cap B) = 0
    BY <2>2, <2>3, <2>4, <2>5, <1>3
  <2> QED BY <2>5, <2>6, <2>7, <1>1, <1>2
<1>15. ASSUME NEW i \in L + 1 .. L + K
       PROVE  /\ both[i].revision = Cardinality({m \in Notes(both) : m <= i})
              /\ both[i].old = TextAt(both, both[i].revision - 1)[both[i].field]
              /\ both[i].expected # Unguarded => both[i].old = both[i].by[both[i].field]
  <2>1. PICK j \in 1 .. K : i = L + j /\ both[i] = more[j]
    BY <1>10
  <2>2. \A m \in Notes(events) : m <= i
    <3> SUFFICES ASSUME NEW m \in Notes(events) PROVE m <= i
      OBVIOUS
    <3>1. m \in 1 .. L
      BY <1>9
    <3> QED BY <3>1, <2>1, <1>1, <1>5
  <2>3. \A m \in L + 1 .. L + K : m <= i <=> m \in L + 1 .. L + j
    BY <2>1, <1>1, <1>5
  <2>4. L + 1 .. L + j \subseteq L + 1 .. L + K
    BY <2>1, <1>1, <1>5
  <2>5. {m \in Notes(both) : m <= i} = Notes(events) \cup L + 1 .. L + j
    BY <2>2, <2>3, <2>4, <1>7
  <2>6. j \in 0 .. K
    BY <1>1
  <2>7. Cardinality({m \in Notes(both) : m <= i}) = R + j
    BY <2>5, <2>6, <1>14
  <2>8. /\ both[i].revision = R + j /\ both[i].old = row.text[changed[j]]
        /\ both[i].field = changed[j] /\ both[i].expected = expected /\ both[i].by = by
    BY <2>1, <1>4
  <2>9. TextAt(both, R + j - 1)[changed[j]] = row.text[changed[j]]
    BY <1>12
  <2>10. both[i].revision - 1 = R + j - 1
    BY <2>8, <1>1, <1>2
  <2>11. row.text[changed[j]] = TextAt(events, R)[changed[j]]
    BY <1>3
  <2>12. both[i].expected # Unguarded => both[i].old = both[i].by[both[i].field]
    BY <2>8, <2>11
  <2>13. both[i].old = TextAt(both, both[i].revision - 1)[both[i].field]
    BY <2>8, <2>9, <2>10
  <2> QED BY <2>7, <2>8, <2>12, <2>13
\* The text that they lead to.
<1>16. text = TextAt(both, R + K)
  <2>1. ASSUME NEW f \in Fields PROVE TextAt(both, R + K)[f] = text[f]
    <3>1. CASE f \in Range(changed)
      <4>1. PICK j \in 1 .. K : changed[j] = f
        BY <3>1, <1>1 DEF Range
      <4> DEFINE P == Setting(both, f, R + K)
      <4>2. L + j \in L + 1 .. L + K /\ both[L + j] = more[j]
        BY <1>1, <1>5
      <4>3. L + j \in P
        BY <4>1, <4>2, <1>1, <1>2, <1>4, <1>7 DEF Setting
      <4>4. ASSUME NEW m \in P PROVE m <= L + j
        <5>1. CASE m \in Notes(events)
          <6>1. m \in 1 .. L
            BY <5>1, <1>9
          <6> QED BY <6>1, <1>1, <1>5
        <5>2. CASE m \in L + 1 .. L + K
          <6>1. m - L \in 1 .. K /\ m = L + (m - L) /\ both[m] = more[m - L]
            BY <5>2, <1>10
          <6>2. changed[m - L] = f
            BY <6>1, <4>4, <1>4 DEF Setting
          <6>3. m - L = j
            BY <6>1, <6>2, <4>1, <1>1 DEF IsInjective
          <6> QED BY <6>1, <6>3, <1>1, <1>5
        <5> QED BY <5>1, <5>2, <4>4, <1>7 DEF Setting
      <4>5. P \subseteq 1 .. L + K
        BY <1>5, <1>6, LogPlaces DEF Setting
      <4>6. Latest(P) = L + j
        <5> HIDE DEF P
        <5>1. L + K \in Nat
          BY <1>1, <1>5
        <5> QED BY <5>1, <4>3, <4>4, <4>5, LatestIs
      <4>7. both[L + j].new = text[f]
        BY <4>1, <4>2, <1>4
      <4> QED BY <4>3, <4>6, <4>7 DEF TextAt
    <3>2. CASE f \notin Range(changed)
      <4>1. \A j \in 1 .. K : more[j].field # f
        BY <3>2, <1>1, <1>4 DEF Range
      <4>2. \A i \in L + 1 .. L + K : both[i].field # f
        <5> SUFFICES ASSUME NEW i \in L + 1 .. L + K PROVE both[i].field # f
          OBVIOUS
        <5>1. i - L \in 1 .. K /\ both[i] = more[i - L]
          BY <1>10
        <5> QED BY <5>1, <4>1
      <4>3. \A i \in Notes(events) : /\ both[i] = events[i]
                                     /\ events[i].revision <= R + K /\ events[i].revision <= R
        <5> SUFFICES ASSUME NEW i \in Notes(events)
                     PROVE  both[i] = events[i] /\ events[i].revision <= R + K
                            /\ events[i].revision <= R
          OBVIOUS
        <5> QED BY <1>1, <1>2, <1>9
      <4>4. Setting(both, f, R + K) = Setting(events, f, R)
        BY <4>2, <4>3, <1>7 DEF Setting
      <4>5. TextAt(both, R + K)[f] = row.text[f]
        BY <4>4, <1>3, <1>6, TextAtPrefix
      <4> QED BY <4>5, <3>2
    <3> QED BY <3>1, <3>2
  <2>2. text = [f \in Fields |-> text[f]]
    BY DEF Text
  <2>3. TextAt(both, R + K) = [f \in Fields |-> TextAt(both, R + K)[f]]
    BY DEF TextAt
  <2> QED BY <2>1, <2>2, <2>3
<1>17. AnnotationsExplained(both, text, R + K)
  <2>1. R + K = Cardinality(Notes(both))
    <3>1. K \in 0 .. K
      BY <1>1
    <3> QED BY <3>1, <1>7, <1>14
  <2>2. ASSUME NEW i \in Notes(both)
        PROVE  /\ both[i].revision = Cardinality({m \in Notes(both) : m <= i})
               /\ both[i].old = TextAt(both, both[i].revision - 1)[both[i].field]
               /\ both[i].expected # Unguarded => both[i].old = both[i].by[both[i].field]
    BY <1>7, <1>13, <1>15
  <2> QED BY <2>1, <2>2, <1>16 DEF AnnotationsExplained
<1> DEFINE new == [row EXCEPT !.text = text, !.revision = R + K]
<1>18. /\ new \in Row(n) /\ new.stack = row.stack /\ new.text = text /\ new.revision = R + K
  <2>1. PICK k \in Nat : k = R + K
    BY <1>1, <1>2
  <2>2. PICK m \in Row(n) : m = row
    BY <1>0
  <2> DEFINE x == [m EXCEPT !.text = text, !.revision = k]
  <2>3. x \in Row(n) /\ x.stack = m.stack /\ x.text = text /\ x.revision = k
    BY DEF Row
  <2>4. new = x
    BY <2>1, <2>2
  <2> HIDE DEF x, new
  <2> QED BY <2>1, <2>2, <2>3, <2>4
<1>19. Account(new, both, from, n)
  <2> HIDE DEF new
  <2> QED BY <1>0, <1>5, <1>8, <1>17, <1>18 DEF Account
<1> QED BY <1>19 DEF both

-----------------------------------------------------------------------------
(* The inductive invariant that the types and the logs need.               *)

\* Toolboxes have names of their own, and are the default of one directory at most.
NamesOK ==
  /\ names \in Seq(Names) /\ IsInjective(names) /\ Len(names) \in 1 .. MaxBoxes
  /\ default \in [Dirs -> 0 .. Len(names)]
  /\ \A d, e \in Dirs : default[d] = default[e] /\ default[d] # 0 => d = e
  /\ legacy \in {0, 1}
  /\ moved \subseteq Dirs

\* Each session has a log that accounts for it; before it is created, an empty one.
AccountsOK ==
  /\ DOMAIN session = Sessions /\ DOMAIN log = Sessions /\ DOMAIN first = Sessions
  /\ \A s \in Sessions :
       \/ Account(session[s], log[s], first[s], Len(names))
       \/ ~ Exists(s) /\ log[s] = <<>>

LogInv == NamesOK /\ AccountsOK

LEMMA AccountExists ==
  ASSUME NEW s, Account(session[s], log[s], first[s], Len(names))
  PROVE  Exists(s)
<1>1. session[s] \in Row(Len(names))
  BY DEF Account
<1>2. DOMAIN session[s] = {"cwd", "stack", "text", "revision"}
  BY <1>1 DEF Row
<1>3. DOMAIN Absent = {"stack"}
  BY DEF Absent
<1> QED BY <1>2, <1>3 DEF Exists

LEMMA AccountsOfOpened ==
  ASSUME AccountsOK, NEW s \in Sessions, Exists(s)
  PROVE  Account(session[s], log[s], first[s], Len(names))
BY DEF AccountsOK

LEMMA LogInvImplies == LogInv => TypeOK /\ LogExplains
<1> SUFFICES ASSUME LogInv PROVE TypeOK /\ LogExplains
  OBVIOUS
<1>1. ASSUME NEW s \in Opened
      PROVE  Account(session[s], log[s], first[s], Len(names))
  BY AccountsOfOpened DEF LogInv, Opened
<1>2. DOMAIN names = 1 .. Len(names)
  BY DEF LogInv, NamesOK
<1>3. ASSUME NEW x \in Stacks(Len(names)) PROVE Stack(x)
  BY <1>2 DEF Stacks, Stack, Range, Boxes
<1>4. ASSUME NEW s \in Opened
      PROVE  /\ session[s].cwd \in Dirs \cup {NoDir}
             /\ session[s].text \in Text /\ session[s].revision \in Nat
             /\ Stack(session[s].stack) /\ Stack(first[s])
  BY <1>1, <1>3 DEF Account, Row
<1>5. LogExplains
  BY <1>1 DEF LogExplains, Account
<1>6. Len(names) <= MaxBoxes
  BY DEF LogInv, NamesOK
<1>7. TypeOK
  BY <1>4, <1>6 DEF TypeOK, LogInv, NamesOK
<1> QED BY <1>5, <1>7

-----------------------------------------------------------------------------
(* What the steps do to the toolboxes.                                     *)

LEMMA AppendedName ==
  ASSUME NamesOK, NEW n \in Names, MayName(n), names' = Append(names, n)
  PROVE  /\ names' \in Seq(Names) /\ IsInjective(names') /\ Len(names') = Len(names) + 1
         /\ Len(names') \in 1 .. MaxBoxes
<1>1. names \in Seq(Names) /\ Len(names) \in Nat /\ DOMAIN names = 1 .. Len(names)
  BY DEF NamesOK
<1>2. /\ names' \in Seq(Names) /\ Len(names') = Len(names) + 1
      /\ DOMAIN names' = 1 .. Len(names) + 1
      /\ \A i \in 1 .. Len(names) : names'[i] = names[i]
      /\ names'[Len(names) + 1] = n
  BY <1>1
<1>3. \A i \in 1 .. Len(names) : names[i] # n
  BY <1>1 DEF MayName, Range
<1>4. IsInjective(names')
  <2>1. IsInjective(names)
    BY DEF NamesOK
  <2> QED BY <1>1, <1>2, <1>3, <2>1 DEF IsInjective
<1>5. Len(names') \in 1 .. MaxBoxes
  BY <1>1, <1>2, StoreAssumption DEF MayName
<1> QED BY <1>2, <1>4, <1>5

\* _ensure_cwd_default returns a toolbox there is by then.
LEMMA EnsureNames ==
  ASSUME NamesOK, NEW d \in Dirs, NEW box, Ensure(d, box), UNCHANGED <<legacy, moved>>
  PROVE  /\ NamesOK' /\ Len(names) <= Len(names')
         /\ box \in 1 .. Len(names')
<1>0. Len(names) \in Nat /\ Len(names) >= 1
  BY DEF NamesOK
<1>1. CASE default[d] # 0 /\ box = default[d] /\ UNCHANGED <<names, default>>
  <2>1. box \in 1 .. Len(names)
    BY <1>0, <1>1 DEF NamesOK
  <2>2. NamesOK'
    BY <1>1 DEF NamesOK
  <2> QED BY <2>1, <2>2, <1>0, <1>1
<1>2. CASE legacy # 0 /\ box = legacy /\ UNCHANGED <<names, default>>
  <2>1. box = 1
    BY <1>2 DEF NamesOK
  <2>2. NamesOK'
    BY <1>2 DEF NamesOK
  <2> QED BY <2>1, <2>2, <1>0, <1>2
<1>3. CASE /\ MayName(Own(d)) /\ box = Len(names) + 1
           /\ names' = Append(names, Own(d)) /\ default' = [default EXCEPT ![d] = box]
  <2>1. /\ names' \in Seq(Names) /\ IsInjective(names') /\ Len(names') = Len(names) + 1
        /\ Len(names') \in 1 .. MaxBoxes
    BY <1>3, OwnIsName, AppendedName
  <2>2. default' \in [Dirs -> 0 .. Len(names')]
    BY <1>0, <1>3, <2>1 DEF NamesOK
  <2>3. \A e \in Dirs : default[e] # Len(names) + 1
    BY <1>0 DEF NamesOK
  <2>4. \A e, g \in Dirs : default'[e] = default'[g] /\ default'[e] # 0 => e = g
    BY <1>3, <2>3 DEF NamesOK
  <2>5. NamesOK'
    BY <2>1, <2>2, <2>4 DEF NamesOK
  <2> QED BY <1>0, <1>3, <2>1, <2>5
<1> QED BY <1>1, <1>2, <1>3 DEF Ensure

LEMMA CreateToolboxNames ==
  ASSUME NamesOK, NEW n \in UserNames, NEW cwd \in Dirs \cup {NoDir}, CreateToolbox(n, cwd)
  PROVE  NamesOK' /\ Len(names) <= Len(names')
<1>0. Len(names) \in Nat /\ Len(names) >= 1
  BY DEF NamesOK
<1>1. /\ names' \in Seq(Names) /\ IsInjective(names') /\ Len(names') = Len(names) + 1
      /\ Len(names') \in 1 .. MaxBoxes
  BY AppendedName DEF CreateToolbox, Names
<1>2. default' = [d \in Dirs |-> IF d = cwd THEN Len(names) + 1 ELSE default[d]]
  BY DEF CreateToolbox
<1>3. default' \in [Dirs -> 0 .. Len(names')]
  BY <1>0, <1>1, <1>2 DEF NamesOK
<1>4. \A e \in Dirs : default[e] # Len(names) + 1
  BY <1>0 DEF NamesOK
<1>5. \A e, g \in Dirs : default'[e] = default'[g] /\ default'[e] # 0 => e = g
  BY <1>2, <1>4 DEF NamesOK
<1>6. NamesOK'
  BY <1>1, <1>3, <1>5 DEF NamesOK, CreateToolbox
<1> QED BY <1>0, <1>1, <1>6

LEMMA RenameNames ==
  ASSUME NamesOK, NEW n \in UserNames, NEW box \in Boxes, Rename(box, n)
  PROVE  NamesOK' /\ Len(names) = Len(names')
<1>1. names \in Seq(Names) /\ Len(names) \in Nat /\ DOMAIN names = 1 .. Len(names)
      /\ IsInjective(names)
  BY DEF NamesOK
<1>2. names' = [names EXCEPT ![box] = n] /\ box \in 1 .. Len(names) /\ n \in Names
  BY <1>1 DEF Rename, Boxes, Names
<1>3. /\ names' \in Seq(Names) /\ Len(names') = Len(names)
      /\ DOMAIN names' = 1 .. Len(names)
      /\ \A i \in 1 .. Len(names) : names'[i] = IF i = box THEN n ELSE names[i]
  BY <1>1, <1>2
<1>4. \A i \in 1 .. Len(names) : names[i] # n
  BY <1>1 DEF Rename, Range
<1>5. IsInjective(names')
  BY <1>1, <1>2, <1>3, <1>4 DEF IsInjective
<1>6. NamesOK'
  BY <1>3, <1>5 DEF NamesOK, Rename
<1> QED BY <1>3, <1>6

LEMMA SetCwdDefaultNames ==
  ASSUME NamesOK, NEW box \in Boxes, NEW d \in Dirs, SetCwdDefault(box, d)
  PROVE  NamesOK' /\ UNCHANGED names
<1>1. box \in 1 .. Len(names) /\ Len(names) \in Nat
  BY DEF NamesOK, Boxes
<1> DEFINE left == {e \in Dirs : default[e] = box} \ {d}
<1>2. /\ default' = [e \in Dirs |-> IF e = d THEN box ELSE IF e \in left THEN 0 ELSE default[e]]
      /\ moved' = moved \cup left /\ UNCHANGED <<names, legacy>>
  BY DEF SetCwdDefault
<1>3. default' \in [Dirs -> 0 .. Len(names)]
  BY <1>1, <1>2 DEF NamesOK
<1>4. \A e, g \in Dirs : default'[e] = default'[g] /\ default'[e] # 0 => e = g
  BY <1>2 DEF NamesOK
<1>5. NamesOK'
  BY <1>2, <1>3, <1>4 DEF NamesOK
<1> QED BY <1>2, <1>5

-----------------------------------------------------------------------------
(* What they do to the sessions and their logs.                            *)

\* Sessions that a step leaves alone; there are only ever more toolboxes.
LEMMA AccountLeft ==
  ASSUME LogInv, NamesOK', Len(names) <= Len(names'), NEW s \in Sessions,
         session'[s] = session[s], log'[s] = log[s], first'[s] = first[s]
  PROVE  \/ Account(session'[s], log'[s], first'[s], Len(names'))
         \/ session'[s] = Absent /\ log'[s] = <<>>
<1>1. Len(names) \in Nat /\ Len(names') \in Nat
  BY DEF LogInv, NamesOK
<1>2. CASE Account(session[s], log[s], first[s], Len(names))
  BY <1>1, <1>2, AccountGrows
<1>3. CASE ~ Exists(s) /\ log[s] = <<>>
  BY <1>3 DEF Exists
<1> QED BY <1>2, <1>3 DEF LogInv, AccountsOK

\* A step that touches no session.
LEMMA SessionsLeft ==
  ASSUME LogInv, NamesOK', Len(names) <= Len(names'), UNCHANGED <<session, log, first>>
  PROVE  LogInv'
<1>1. \A s \in Sessions :
        \/ Account(session'[s], log'[s], first'[s], Len(names'))
        \/ session'[s] = Absent /\ log'[s] = <<>>
  BY AccountLeft DEF LogInv, AccountsOK
<1> QED BY <1>1 DEF LogInv, AccountsOK, Exists

\* One that touches a single session, and leaves it accounted for.
LEMMA SessionChanged ==
  ASSUME LogInv, NamesOK', Len(names) <= Len(names'), NEW s \in Sessions,
         DOMAIN session' = Sessions, DOMAIN log' = Sessions, DOMAIN first' = Sessions,
         \A x \in Sessions \ {s} :
           session'[x] = session[x] /\ log'[x] = log[x] /\ first'[x] = first[x],
         Account(session'[s], log'[s], first'[s], Len(names'))
  PROVE  LogInv'
<1>1. ASSUME NEW x \in Sessions, x # s
      PROVE  \/ Account(session'[x], log'[x], first'[x], Len(names'))
             \/ session'[x] = Absent /\ log'[x] = <<>>
  BY <1>1, AccountLeft
<1> QED BY <1>1 DEF LogInv, AccountsOK, Exists

\* A session is created with an empty log.
LEMMA AccountOfNew ==
  ASSUME NEW n \in Nat, NEW cwd \in Dirs \cup {NoDir}, NEW stack \in Stacks(n)
  PROVE  Account([cwd |-> cwd, stack |-> stack, text |-> Blank, revision |-> 0],
                 <<>>, stack, n)
<1>1. Changes(<<>>) = {} /\ Notes(<<>>) = {}
  BY DEF Changes, Notes
<1>2. Cardinality(Notes(<<>>)) = 0
  BY <1>1, FS_EmptySet
<1>3. \A f \in Fields : Setting(<<>>, f, 0) = {}
  BY <1>1 DEF Setting
<1>4. TextAt(<<>>, 0) = Blank
  BY <1>3 DEF TextAt, Blank
<1>5. \A k : StackAt(<<>>, stack, k) = stack
  BY <1>1 DEF StackAt
<1>6. Blank \in Text
  BY DEF Blank, Text, Texts
<1>7. SelectionExplained(<<>>, stack, stack)
  BY <1>1, <1>5 DEF SelectionExplained
<1>8. AnnotationsExplained(<<>>, Blank, 0)
  BY <1>1, <1>2, <1>4 DEF AnnotationsExplained
<1> QED BY <1>6, <1>7, <1>8 DEF Account, Row

LEMMA SingleStack ==
  ASSUME NEW n \in Nat, NEW box \in 1 .. n
  PROVE  <<box>> \in Stacks(n)
BY DEF Stacks, IsInjective

LEMMA InitLogInv == Init => LogInv
<1> SUFFICES ASSUME Init PROVE LogInv
  OBVIOUS
<1>0. MaxBoxes \in Nat \ {0}
  BY StoreAssumption
<1>1. log = [s \in Sessions |-> <<>>] /\ moved = {}
  BY DEF Init
<1>2. CASE legacy = 0
  <2>1. PICK d \in Dirs : /\ names = <<Own(d)>>
                          /\ default = [e \in Dirs |-> IF e = d THEN 1 ELSE 0]
    BY <1>2 DEF Init
  <2>2. NamesOK
    BY <1>0, <1>1, <1>2, <2>1, OwnIsName DEF NamesOK, IsInjective
  <2>3. /\ session = [s \in Sessions |-> Absent] /\ first = [s \in Sessions |-> <<>>]
    BY <1>2 DEF Init
  <2> QED BY <1>1, <2>2, <2>3 DEF LogInv, AccountsOK, Exists
<1>3. CASE legacy = 1
  <2>1. names = <<<<"legacy", NoDir>>>> /\ default = [d \in Dirs |-> 0]
    BY <1>3 DEF Init
  <2>2. NamesOK
    BY <1>0, <1>1, <1>3, <2>1 DEF NamesOK, IsInjective, Names
  <2>3. PICK old \in Sessions :
          /\ session = [s \in Sessions |-> IF s = old
               THEN [cwd |-> NoDir, stack |-> <<1>>, text |-> Blank, revision |-> 0]
               ELSE Absent]
          /\ first = [s \in Sessions |-> IF s = old THEN <<1>> ELSE <<>>]
    BY <1>3 DEF Init
  <2>4. Len(names) = 1
    BY <2>1
  <2>5. Account([cwd |-> NoDir, stack |-> <<1>>, text |-> Blank, revision |-> 0],
                <<>>, <<1>>, 1)
    BY SingleStack, AccountOfNew
  <2> QED BY <1>1, <2>2, <2>3, <2>4, <2>5 DEF LogInv, AccountsOK, Exists
<1> QED BY <1>2, <1>3 DEF Init

LEMMA CreateSessionLog ==
  ASSUME LogInv, NEW s \in Sessions, NEW d \in Dirs, CreateSession(s, d)
  PROVE  LogInv'
<1>1. PICK box \in 1 .. MaxBoxes :
        /\ ~ Exists(s) /\ Ensure(d, box)
        /\ session' = [session EXCEPT ![s] =
             [cwd |-> d, stack |-> <<box>>, text |-> Blank, revision |-> 0]]
        /\ first' = [first EXCEPT ![s] = <<box>>]
        /\ UNCHANGED <<legacy, log, moved>>
  BY DEF CreateSession
<1>2. NamesOK' /\ Len(names) <= Len(names') /\ box \in 1 .. Len(names')
  BY <1>1, EnsureNames DEF LogInv
<1>3. DOMAIN session = Sessions /\ DOMAIN log = Sessions /\ DOMAIN first = Sessions
      /\ log[s] = <<>>
  BY <1>1, AccountExists DEF LogInv, AccountsOK
<1>4. Len(names') \in Nat
  BY <1>2 DEF NamesOK
<1>5. Account(session'[s], log'[s], first'[s], Len(names'))
  BY <1>1, <1>2, <1>3, <1>4, SingleStack, AccountOfNew
<1> QED BY <1>1, <1>2, <1>3, <1>5, SessionChanged

LEMMA SnapshotsAreStacks ==
  ASSUME LogInv, NEW s \in Sessions, Exists(s), NEW stack \in Snapshots(s)
  PROVE  stack \in Stacks(Len(names))
<1>1. Account(session[s], log[s], first[s], Len(names))
  BY AccountsOfOpened DEF LogInv
<1>2. \A n \in Changes(log[s]) : log[s][n] \in Change(Len(names))
  BY <1>1, NotesOf DEF Account
<1> QED BY <1>1, <1>2 DEF Snapshots, Account, Change

LEMMA CreateChildSessionLog ==
  ASSUME LogInv, NEW s \in Sessions, NEW parent \in Sessions, NEW d \in Dirs,
         CreateChildSession(s, parent, d)
  PROVE  LogInv'
<1>1. PICK stack \in Snapshots(parent) :
        /\ session' = [session EXCEPT ![s] =
             [cwd |-> Launch(parent, d), stack |-> stack, text |-> Blank, revision |-> 0]]
        /\ first' = [first EXCEPT ![s] = stack]
  BY DEF CreateChildSession
<1>2. ~ Exists(s) /\ Exists(parent) /\ UNCHANGED <<boxes, log, moved>>
  BY DEF CreateChildSession
<1>3. NamesOK' /\ Len(names) \in Nat /\ UNCHANGED names
  BY <1>2 DEF LogInv, NamesOK, boxes
<1>4. DOMAIN session = Sessions /\ DOMAIN log = Sessions /\ DOMAIN first = Sessions
      /\ log[s] = <<>>
  BY <1>2, AccountExists DEF LogInv, AccountsOK
<1>5. Launch(parent, d) \in Dirs \cup {NoDir}
  <2>1. session[parent].cwd \in Dirs \cup {NoDir}
    BY <1>2, AccountsOfOpened DEF LogInv, Account, Row
  <2> QED BY <2>1 DEF Launch
<1>6. stack \in Stacks(Len(names))
  BY <1>2, SnapshotsAreStacks
<1>7. Account(session'[s], log'[s], first'[s], Len(names'))
  BY <1>1, <1>2, <1>3, <1>4, <1>5, <1>6, AccountOfNew
<1> QED BY <1>1, <1>2, <1>3, <1>4, <1>7, SessionChanged

\* A stack is replaced, after a new toolbox perhaps.
LEMMA ReplaceSelectionLog ==
  ASSUME LogInv, NamesOK', Len(names) <= Len(names'), NEW s \in Sessions, Exists(s),
         NEW request, NEW after \in Stacks(Len(names')), ReplaceSelection(s, request, after)
  PROVE  LogInv'
<1> DEFINE e == [kind |-> "toolbox_selection_changed",
                 before |-> session[s].stack, after |-> after]
<1>1. /\ session' = [session EXCEPT ![s].stack = after]
      /\ log' = [log EXCEPT ![s] = Append(log[s], e)] /\ UNCHANGED first
  BY DEF ReplaceSelection
<1>2. DOMAIN session = Sessions /\ DOMAIN log = Sessions /\ DOMAIN first = Sessions
  BY DEF LogInv, AccountsOK
<1>3. Len(names) \in Nat /\ Len(names') \in Nat
  BY DEF LogInv, NamesOK
<1>4. Account(session[s], log[s], first[s], Len(names'))
  BY <1>3, AccountsOfOpened, AccountGrows DEF LogInv
<1>5. /\ session'[s] = [session[s] EXCEPT !.stack = after]
      /\ log'[s] = Append(log[s], e) /\ first'[s] = first[s]
      /\ \A x \in Sessions \ {s} :
           session'[x] = session[x] /\ log'[x] = log[x] /\ first'[x] = first[x]
  BY <1>1, <1>2
<1>6. PICK row, events, from : row = session[s] /\ events = log[s] /\ from = first[s]
  OBVIOUS
<1>7. PICK n \in Nat : n = Len(names')
  BY <1>3
<1>8. Account([row EXCEPT !.stack = after], Append(events, e), from, n)
  BY <1>4, <1>6, <1>7, AccountOfSelection
<1>9. Account(session'[s], log'[s], first'[s], Len(names'))
  BY <1>5, <1>6, <1>7, <1>8
<1>10. DOMAIN session' = Sessions /\ DOMAIN log' = Sessions /\ DOMAIN first' = Sessions
  BY <1>1, <1>2
<1> QED BY <1>5, <1>9, <1>10, SessionChanged

LEMMA RequestIsStack ==
  ASSUME NamesOK, NEW request \in Requests
  PROVE  request \in Stacks(Len(names))
<1>1. Len(names) \in Nat /\ Boxes = 1 .. Len(names)
  BY DEF NamesOK, Boxes
<1>2. IsInjective(request)
  BY DEF Requests
<1>3. PICK k \in {1, 2} : request \in [1 .. k -> 1 .. Len(names)]
  BY <1>1 DEF Requests
<1>4. request \in Seq(1 .. Len(names)) /\ request # <<>>
  BY <1>3
<1> QED BY <1>2, <1>4 DEF Stacks

\* The stack grows by what it does not have yet.
LEMMA AddedStack ==
  ASSUME NEW n \in Nat, NEW stack \in Stacks(n), NEW request \in Stacks(n)
  PROVE  stack \o Without(request, Range(stack)) \in Stacks(n)
<1>1. stack \in Seq(1 .. n) /\ request \in Seq(1 .. n) /\ IsInjective(stack)
      /\ IsInjective(request) /\ stack # <<>>
  BY DEF Stacks
<1>2. PICK more : more = Without(request, Range(stack))
  OBVIOUS
<1>3. more \in Seq(1 .. n) /\ Range(more) \cap Range(stack) = {} /\ IsInjective(more)
  BY <1>1, <1>2, WithoutFacts
<1>4. /\ Len(stack) \in Nat /\ DOMAIN stack = 1 .. Len(stack)
      /\ Len(more) \in Nat /\ DOMAIN more = 1 .. Len(more)
      /\ Len(stack) > 0
  BY <1>1, <1>3
<1>5. /\ stack \o more \in Seq(1 .. n) /\ Len(stack \o more) = Len(stack) + Len(more)
      /\ \A i \in 1 .. Len(stack) + Len(more) :
           (stack \o more)[i] = IF i <= Len(stack) THEN stack[i] ELSE more[i - Len(stack)]
  BY <1>1, <1>3, ConcatProperties
<1>6. \A i \in 1 .. Len(stack), j \in 1 .. Len(more) : stack[i] # more[j]
  BY <1>3, <1>4 DEF Range
<1>7. PICK both : both = stack \o more
  OBVIOUS
<1>8. DOMAIN both = 1 .. Len(stack) + Len(more)
  BY <1>4, <1>5, <1>7
<1>9. ASSUME NEW i \in DOMAIN both, NEW j \in DOMAIN both, both[i] = both[j] PROVE i = j
  <2>1. CASE i <= Len(stack) /\ j <= Len(stack)
    BY <2>1, <1>1, <1>4, <1>5, <1>7, <1>8, <1>9 DEF IsInjective
  <2>2. CASE ~ (i <= Len(stack)) /\ ~ (j <= Len(stack))
    <3>1. i - Len(stack) \in 1 .. Len(more) /\ j - Len(stack) \in 1 .. Len(more)
      BY <2>2, <1>4, <1>8
    <3>2. more[i - Len(stack)] = more[j - Len(stack)]
      BY <2>2, <1>5, <1>7, <1>8, <1>9
    <3>3. i - Len(stack) = j - Len(stack)
      BY <3>1, <3>2, <1>3, <1>4 DEF IsInjective
    <3> QED BY <3>3, <1>4, <1>8
  <2>3. CASE i <= Len(stack) /\ ~ (j <= Len(stack))
    <3>1. i \in 1 .. Len(stack) /\ j - Len(stack) \in 1 .. Len(more)
      BY <2>3, <1>4, <1>8
    <3> QED BY <3>1, <2>3, <1>5, <1>6, <1>7, <1>8, <1>9
  <2>4. CASE ~ (i <= Len(stack)) /\ j <= Len(stack)
    <3>1. j \in 1 .. Len(stack) /\ i - Len(stack) \in 1 .. Len(more)
      BY <2>4, <1>4, <1>8
    <3> QED BY <3>1, <2>4, <1>5, <1>6, <1>7, <1>8, <1>9
  <2> QED BY <2>1, <2>2, <2>3, <2>4
<1>10. IsInjective(both)
  BY <1>9 DEF IsInjective
<1>11. both # <<>>
  BY <1>4, <1>5, <1>7
<1>12. both \in Seq(1 .. n)
  BY <1>5, <1>7
<1>13. both \in Stacks(n)
  BY <1>10, <1>11, <1>12 DEF Stacks
<1> QED BY <1>2, <1>7, <1>13

LEMMA LeftStack ==
  ASSUME NEW n \in Nat, NEW stack \in Stacks(n), NEW left, Without(stack, left) # <<>>
  PROVE  Without(stack, left) \in Stacks(n)
<1>1. stack \in Seq(1 .. n) /\ IsInjective(stack)
  BY DEF Stacks
<1>2. Without(stack, left) \in Seq(1 .. n) /\ IsInjective(Without(stack, left))
  BY <1>1, WithoutFacts
<1> QED BY <1>2 DEF Stacks

LEMMA StackOf ==
  ASSUME LogInv, NEW s \in Sessions, Exists(s), NEW d \in Dirs
  PROVE  session[s].stack \in Stacks(Len(names)) /\ Launch(s, d) \in Dirs
<1>1. session[s] \in Row(Len(names))
  BY AccountsOfOpened DEF LogInv, Account
<1> QED BY <1>1 DEF Row, Launch

LEMMA UseAndAddLog ==
  ASSUME LogInv, NEW s \in Sessions, NEW request \in Requests,
         UseToolboxes(s, request) \/ AddToolboxes(s, request)
  PROVE  LogInv'
<1>1. Exists(s) /\ UNCHANGED <<names, default, legacy, moved>>
  BY DEF UseToolboxes, AddToolboxes, ReplaceSelection
<1>2. NamesOK' /\ Len(names) \in Nat /\ Len(names) = Len(names')
  BY <1>1 DEF LogInv, NamesOK
<1>3. request \in Stacks(Len(names)) /\ session[s].stack \in Stacks(Len(names))
  <2>1. session[s] \in Row(Len(names))
    BY <1>1, AccountsOfOpened DEF LogInv, Account
  <2> QED BY <2>1, RequestIsStack DEF LogInv, Row
<1>4. CASE UseToolboxes(s, request)
  BY <1>1, <1>2, <1>3, <1>4, ReplaceSelectionLog DEF UseToolboxes
<1>5. CASE AddToolboxes(s, request)
  <2>1. PICK after : after = session[s].stack \o Without(request, Range(session[s].stack))
    OBVIOUS
  <2>2. ReplaceSelection(s, request, after)
    BY <1>5, <2>1 DEF AddToolboxes
  <2>3. after \in Stacks(Len(names))
    BY <1>2, <1>3, <2>1, AddedStack
  <2> QED BY <1>1, <1>2, <2>2, <2>3, ReplaceSelectionLog
<1> QED BY <1>4, <1>5

\* The session falls back to the default toolbox of its directory.
LEMMA FallBackLog ==
  ASSUME LogInv, NEW s \in Sessions, Exists(s), NEW d \in Dirs, NEW request, NEW box,
         Ensure(Launch(s, d), box), ReplaceSelection(s, request, <<box>>)
  PROVE  LogInv'
<1>1. UNCHANGED <<legacy, moved>>
  BY DEF ReplaceSelection
<1>2. Launch(s, d) \in Dirs
  BY StackOf
<1>3. NamesOK' /\ Len(names) <= Len(names') /\ box \in 1 .. Len(names')
  BY <1>1, <1>2, EnsureNames DEF LogInv
<1>4. Len(names') \in Nat
  BY <1>3 DEF NamesOK
<1>5. <<box>> \in Stacks(Len(names'))
  BY <1>3, <1>4, SingleStack
<1> QED BY <1>3, <1>5, ReplaceSelectionLog

LEMMA ResetAndRemoveLog ==
  ASSUME LogInv, NEW s \in Sessions, NEW d \in Dirs, NEW request,
         ResetToolboxes(s, d) \/ RemoveToolboxes(s, d, request)
  PROVE  LogInv'
<1>1. CASE ResetToolboxes(s, d)
  BY <1>1, FallBackLog DEF ResetToolboxes
<1>2. CASE RemoveToolboxes(s, d, request)
  <2>1. PICK left : left = Without(session[s].stack, Range(request))
    OBVIOUS
  <2>2. Exists(s)
    BY <1>2 DEF RemoveToolboxes
  <2>3. CASE left # <<>> /\ ReplaceSelection(s, request, left) /\ UNCHANGED <<names, default>>
    <3>1. UNCHANGED <<names, default, legacy, moved>>
      BY <2>3 DEF ReplaceSelection
    <3>2. NamesOK' /\ Len(names) \in Nat /\ Len(names) = Len(names')
      BY <3>1 DEF LogInv, NamesOK
    <3>3. left \in Stacks(Len(names))
      BY <2>1, <2>2, <2>3, <3>2, StackOf, LeftStack
    <3> QED BY <2>2, <2>3, <3>2, <3>3, ReplaceSelectionLog
  <2>4. CASE \E box \in 1 .. MaxBoxes :
               Ensure(Launch(s, d), box) /\ ReplaceSelection(s, request, <<box>>)
    BY <2>2, <2>4, FallBackLog
  <2> QED BY <1>2, <2>1, <2>3, <2>4 DEF RemoveToolboxes
<1> QED BY <1>1, <1>2

-----------------------------------------------------------------------------
\* What an update changes is in its changed fields, once each.
LEMMA ChangedFacts ==
  ASSUME NEW s, NEW update
  PROVE  /\ Changed(s, update) \in Seq(Fields)
         /\ IsInjective(Changed(s, update))
         /\ Range(Changed(s, update))
              = {f \in Fields : f \in DOMAIN update /\ update[f] # session[s].text[f]}
<1> DEFINE all == <<"title", "description">>
           left == {f \in Fields : f \in DOMAIN update => update[f] = session[s].text[f]}
<1>1. all \in Seq(Fields) /\ IsInjective(all) /\ Range(all) = Fields
  <2>1. DOMAIN all = 1 .. 2 /\ all[1] = "title" /\ all[2] = "description"
    OBVIOUS
  <2>2. Range(all) = Fields
    BY <2>1 DEF Range, Fields
  <2> QED BY <2>1, <2>2 DEF IsInjective, Fields
<1>2. Changed(s, update) = Without(all, left)
  BY DEF Changed
<1> HIDE DEF all
<1>3. /\ Changed(s, update) \in Seq(Fields) /\ IsInjective(Changed(s, update))
      /\ Range(Changed(s, update)) = Fields \ left
  BY <1>1, <1>2, WithoutFacts
<1> QED BY <1>3

LEMMA UpdateLog ==
  ASSUME LogInv, NEW s \in Sessions, NEW update \in Updates, NEW seen,
         NEW expected \in {seen, Unguarded}, Update(s, update, seen, expected)
  PROVE  LogInv'
<1>1. PICK row, events, from : row = session[s] /\ events = log[s] /\ from = first[s]
  OBVIOUS
<1>2. PICK changed : changed = Changed(s, update)
  OBVIOUS
<1>3. /\ changed \in Seq(Fields) /\ IsInjective(changed)
      /\ Range(changed) = {f \in Fields : f \in DOMAIN update /\ update[f] # row.text[f]}
  BY <1>1, <1>2, ChangedFacts
<1>0. PICK by : by = TextAt(log[s], seen)
  OBVIOUS
<1> DEFINE text == [f \in Fields |-> IF f \in DOMAIN update THEN update[f] ELSE row.text[f]]
           more == [i \in 1 .. Len(changed) |->
             [kind |-> "session_annotation_changed", field |-> changed[i],
              old |-> row.text[changed[i]], new |-> text[changed[i]],
              revision |-> row.revision + i, expected |-> expected, by |-> by]]
           new == [row EXCEPT !.text = text, !.revision = row.revision + Len(changed)]
<1>4. /\ Exists(s) /\ expected \in {Unguarded, row.revision}
      /\ session' = [session EXCEPT ![s] = Written(s, update)]
      /\ UNCHANGED <<names, default, legacy, first, moved>>
  BY <1>1 DEF Update, Matches, boxes
<1>5. NamesOK' /\ Len(names) \in Nat /\ Len(names) = Len(names')
  BY <1>4 DEF LogInv, NamesOK
<1>6. Account(row, events, from, Len(names))
  BY <1>1, <1>4, AccountsOfOpened DEF LogInv
<1>7. row.text \in Text /\ row.revision \in Nat
  BY <1>6 DEF Account, Row
<1>8. /\ Len(changed) \in Nat /\ DOMAIN changed = 1 .. Len(changed)
      /\ \A i \in 1 .. Len(changed) : changed[i] \in Fields /\ changed[i] \in Range(changed)
  BY <1>3 DEF Range
<1>9. PICK fs \in SUBSET Fields : update \in [fs -> Texts]
  BY DEF Updates
<1>10. text \in Text
  BY <1>7, <1>9 DEF Text
<1>11. \A f \in Fields \ Range(changed) : text[f] = row.text[f]
  BY <1>3
<1>12. log' = [log EXCEPT ![s] = log[s] \o more]
  <2>1. log' = [log EXCEPT ![s] = log[s] \o
          [n \in DOMAIN changed |->
            [kind |-> "session_annotation_changed", field |-> changed[n],
             old |-> session[s].text[changed[n]], new |-> update[changed[n]],
             revision |-> Revisions(s, changed)[n],
             expected |-> expected, by |-> by]]]
    BY <1>0, <1>2 DEF Update
  <2>2. ASSUME NEW i \in 1 .. Len(changed)
        PROVE  /\ update[changed[i]] = text[changed[i]]
               /\ Revisions(s, changed)[i] = row.revision + i
    <3>1. changed[i] \in DOMAIN update /\ changed[i] \in Fields
      BY <1>3, <1>8
    <3> QED BY <3>1, <1>1, <1>8 DEF Revisions
  <2>3. [n \in DOMAIN changed |->
          [kind |-> "session_annotation_changed", field |-> changed[n],
           old |-> session[s].text[changed[n]], new |-> update[changed[n]],
           revision |-> Revisions(s, changed)[n],
           expected |-> expected, by |-> by]] = more
    <3> HIDE DEF text
    <3> QED BY <2>2, <1>1, <1>4, <1>8
  <2> HIDE DEF more
  <2> QED BY <2>1, <2>3
<1>13. Written(s, update) = new
  <2>1. Revisions(s, changed) = [n \in 1 .. Len(changed) |-> row.revision + n]
    BY <1>1, <1>8 DEF Revisions
  <2>2. (IF changed = <<>> THEN row.revision ELSE Revisions(s, changed)[Len(changed)])
          = row.revision + Len(changed)
    <3>1. CASE changed = <<>>
      <4>1. Len(changed) = 0
        BY <3>1
      <4> QED BY <3>1, <4>1, <1>7
    <3>2. CASE changed # <<>>
      <4>1. Len(changed) \in 1 .. Len(changed)
        BY <3>2, <1>3, <1>8
      <4> QED BY <3>2, <4>1, <2>1
    <3> QED BY <3>1, <3>2
  <2> QED BY <2>2, <1>1, <1>2 DEF Written
<1>14. Account(new, events \o more, from, Len(names))
  <2>1. PICK t \in Text : t = text
    BY <1>10
  <2>2. PICK n \in Nat : n = Len(names)
    BY <1>5
  <2>8. PICK e \in Int, z \in Text : e = expected /\ z = by
    <3>1. events \in Seq(Event(Len(names)))
      BY <1>6 DEF Account
    <3>2. by \in Text
      BY <3>1, <1>0, <1>1, TextAtType
    <3>3. expected \in Int
      BY <1>4, <1>7 DEF Unguarded
    <3> QED BY <3>2, <3>3
  <2>3. \A f \in Fields \ Range(changed) : t[f] = row.text[f]
    BY <1>11, <2>1
  <2> DEFINE m == Added(row, t, changed, e, z)
  <2>4. Account(row, events, from, n)
    BY <1>6, <2>2
  <2>5. Account([row EXCEPT !.text = t, !.revision = row.revision + Len(changed)],
                events \o m, from, n)
    <3>1. PICK x : x = m
      OBVIOUS
    <3>3. e # Unguarded => z = TextAt(events, row.revision)
      BY <2>8, <1>0, <1>1, <1>4
    <3> HIDE DEF text, more, new
    <3>2. Account([row EXCEPT !.text = t, !.revision = row.revision + Len(changed)],
                  events \o x, from, n)
      BY <3>1, <3>3, <2>3, <2>4, <1>3, AccountOfUpdate
    <3> QED BY <3>1, <3>2
  <2>6. more = m
    <3> HIDE DEF text
    <3> QED BY <2>1, <2>8 DEF Added
  <2>7. new = [row EXCEPT !.text = t, !.revision = row.revision + Len(changed)]
    <3> HIDE DEF text
    <3> QED BY <2>1
  <2> HIDE DEF m, more, new, text
  <2> QED BY <2>2, <2>5, <2>6, <2>7
<1> HIDE DEF text, more, new
<1>15. DOMAIN session = Sessions /\ DOMAIN log = Sessions /\ DOMAIN first = Sessions
  BY DEF LogInv, AccountsOK
<1>16. /\ session'[s] = new /\ log'[s] = events \o more /\ first'[s] = from
       /\ DOMAIN session' = Sessions /\ DOMAIN log' = Sessions /\ DOMAIN first' = Sessions
       /\ \A x \in Sessions \ {s} :
            session'[x] = session[x] /\ log'[x] = log[x] /\ first'[x] = first[x]
  BY <1>1, <1>4, <1>12, <1>13, <1>15
<1>17. Account(session'[s], log'[s], first'[s], Len(names'))
  BY <1>5, <1>14, <1>16
<1>18. Len(names) <= Len(names')
  BY <1>5
<1> QED BY <1>5, <1>16, <1>17, <1>18, SessionChanged

-----------------------------------------------------------------------------
LEMMA NextLogInv ==
  ASSUME LogInv, [Next]_vars
  PROVE  LogInv'
<1>0. Len(names) \in Nat /\ Len(names) <= Len(names)
  BY DEF LogInv, NamesOK
<1>1. ASSUME UNCHANGED vars PROVE LogInv'
  <2>1. NamesOK'
    BY <1>1 DEF vars, boxes, LogInv, NamesOK
  <2> QED BY <1>0, <1>1, <2>1, SessionsLeft DEF vars, boxes
<1>2. ASSUME NEW d \in Dirs, HostScope(d) PROVE LogInv'
  <2>1. PICK box : Ensure(d, box)
    BY <1>2 DEF HostScope
  <2>2. NamesOK' /\ Len(names) <= Len(names')
    BY <1>2, <2>1, EnsureNames DEF HostScope, LogInv
  <2> QED BY <1>2, <2>2, SessionsLeft DEF HostScope
<1>3. ASSUME NEW d \in Dirs, NEW box \in Boxes, SetCwdDefault(box, d) PROVE LogInv'
  <2>1. NamesOK' /\ UNCHANGED names
    BY <1>3, SetCwdDefaultNames DEF LogInv
  <2>2. UNCHANGED <<session, log, first>>
    BY <1>3 DEF SetCwdDefault
  <2> QED BY <1>0, <2>1, <2>2, SessionsLeft
<1>4. ASSUME NEW n \in UserNames, NEW cwd \in Dirs \cup {NoDir}, CreateToolbox(n, cwd)
      PROVE  LogInv'
  <2>1. NamesOK' /\ Len(names) <= Len(names')
    BY <1>4, CreateToolboxNames DEF LogInv
  <2>2. UNCHANGED <<session, log, first>>
    BY <1>4 DEF CreateToolbox
  <2> QED BY <2>1, <2>2, SessionsLeft
<1>5. ASSUME NEW n \in UserNames, NEW box \in Boxes, Rename(box, n) PROVE LogInv'
  <2>1. NamesOK' /\ Len(names) <= Len(names')
    BY <1>0, <1>5, RenameNames DEF LogInv
  <2>2. UNCHANGED <<session, log, first>>
    BY <1>5 DEF Rename
  <2> QED BY <2>1, <2>2, SessionsLeft
<1>6. ASSUME NEW s \in Sessions, NEW d \in Dirs, CreateSession(s, d) PROVE LogInv'
  BY <1>6, CreateSessionLog
<1>7. ASSUME NEW s \in Sessions, NEW parent \in Sessions, NEW d \in Dirs,
             CreateChildSession(s, parent, d)
      PROVE  LogInv'
  BY <1>7, CreateChildSessionLog
<1>8. ASSUME NEW s \in Sessions, NEW d \in Dirs, NEW request,
             ResetToolboxes(s, d) \/ RemoveToolboxes(s, d, request)
      PROVE  LogInv'
  BY <1>8, ResetAndRemoveLog
<1>9. ASSUME NEW s \in Sessions, NEW request \in Requests,
             UseToolboxes(s, request) \/ AddToolboxes(s, request)
      PROVE  LogInv'
  BY <1>9, UseAndAddLog
<1>10. ASSUME NEW s \in Sessions, NEW update \in Updates, NEW seen,
              NEW expected \in {seen, Unguarded}, Update(s, update, seen, expected)
       PROVE  LogInv'
  BY <1>10, UpdateLog
<1>11. Annotated \subseteq Sessions
  BY StoreAssumption
<1>12. ASSUME Next PROVE LogInv'
  BY <1>12, <1>2, <1>3, <1>4, <1>5, <1>6, <1>7, <1>8, <1>9, <1>10, <1>11 DEF Next
<1> QED BY <1>1, <1>12

LEMMA LogInvariance == Spec => []LogInv
BY InitLogInv, NextLogInv, PTL DEF Spec

\* Names are given once, a toolbox is the default of one directory at most, and
\* the stacks of sessions are never empty and name toolboxes that exist, once each.
THEOREM TypeCorrect == Spec => []TypeOK
BY LogInvImplies, LogInvariance, PTL

\* The events of a session account for its stack and its annotations, however
\* selections and updates, guarded or not, of any number of processes follow one
\* another, and no guarded one replaces a text that its writer has not read
\* (kernel.py, _replace_selection and _update_session_metadata).
THEOREM LogsExplain == Spec => []LogExplains
BY LogInvImplies, LogInvariance, PTL
=============================================================================
