--------------------------- MODULE ToolStoreProofs ---------------------------
(***************************************************************************)
(* Proofs about ToolStore, for every set of toolboxes, tools, sources,     *)
(* selections and clients, and every bound on the rowids: the tables keep  *)
(* their integrity and every tool stays recoverable, and what a caller has *)
(* looked up between transactions stays true unless the very version was   *)
(* deleted in between.                                                     *)
(***************************************************************************)
EXTENDS ToolStore, FiniteSetTheorems, TLAPS

-----------------------------------------------------------------------------
(* The inductive invariant.                                                *)

\* Lineages belong to existing toolboxes and versions to existing lineages, so
\* a toolbox about to be created has neither.
OwnedRows ==
  /\ \A l \in lineages : l[1] \in toolboxes
  /\ \A r \in Live : rows[r].lin \in lineages

\* What client c may hold between the statements of a lookup.
HoldsOK(c, me) ==
  /\ me.phase \notin Ended =>
       /\ me.name \in Names
       /\ Usable(ScopeOf[c])
       /\ me.pos \in DOMAIN ScopeOf[c]
  /\ me.phase \in {"bound", "resolved", "running"} =>
       me.lin \in Lineages /\ me.row \in RowIds
  /\ me.phase \in {"resolved", "running"} =>
       me.ver \in RowIds /\ me.src \in Sources

ClientsOK == \A c \in Clients : HoldsOK(c, clients[c])

IInv ==
  /\ TypeOK
  /\ OwnedRows
  /\ BindingIntegrity
  /\ LineageIntact
  /\ CoreRecoverable
  /\ ClientsOK

\* The part of it that speaks of the tables alone.
TablesInv ==
  /\ toolboxes \subseteq Toolboxes
  /\ lineages \subseteq Lineages
  /\ rows \in [RowIds -> Version \cup {Null}]
  /\ bindings \in [Lineages -> 0 .. MaxRow]
  /\ namespaces \in [Lineages -> SUBSET AllPaths]
  /\ refs \subseteq Ref
  /\ OwnedRows
  /\ BindingIntegrity
  /\ LineageIntact
  /\ CoreRecoverable

ClientsInv ==
  /\ clients \in [Clients -> Client]
  /\ ClientsOK

tables == <<toolboxes, lineages, rows, bindings, namespaces, refs>>

LEMMA Split == IInv <=> TablesInv /\ ClientsInv
BY DEF IInv, TablesInv, ClientsInv, TypeOK

-----------------------------------------------------------------------------
(* Steps that leave the tables alone, or leave the clients alone.          *)

LEMMA TablesStutter ==
  ASSUME TablesInv, UNCHANGED tables
  PROVE  TablesInv'
<1>1. /\ toolboxes' = toolboxes /\ lineages' = lineages /\ rows' = rows
      /\ bindings' = bindings /\ namespaces' = namespaces /\ refs' = refs
  BY DEF tables
<1>2. Live' = Live
  BY <1>1 DEF Live
<1>3. \A l : RowsOf(l)' = RowsOf(l)
  BY <1>1, <1>2 DEF RowsOf
<1>4. OwnedRows' /\ BindingIntegrity'
  BY <1>1, <1>2 DEF TablesInv, OwnedRows, BindingIntegrity
<1>5. LineageIntact'
  BY <1>1, <1>3 DEF TablesInv, LineageIntact
<1>6. CoreRecoverable'
  BY <1>1, <1>3 DEF TablesInv, CoreRecoverable, Bound
<1> QED BY <1>1, <1>4, <1>5, <1>6 DEF TablesInv

LEMMA ClientsStutter ==
  ASSUME ClientsInv, UNCHANGED clients, toolboxes \subseteq toolboxes'
  PROVE  ClientsInv'
BY DEF ClientsInv, ClientsOK, HoldsOK, Usable

-----------------------------------------------------------------------------
(* Writing, deleting, rolling back.                                        *)

LEMMA WriteVersionKeeps ==
  ASSUME TablesInv, NEW t \in toolboxes, NEW n \in Names, NEW src \in Sources,
         NEW given \in SUBSET Paths, WriteVersion(<<t, n>>, src, given)
  PROVE  TablesInv'
<1> DEFINE lin == <<t, n>>
<1>0. lin \in Lineages
  BY DEF TablesInv, Lineages
<1>1. PICK id \in RowIds, v \in RowIds :
        /\ IsNext(id, Live)
        /\ IsNext(v, VersionsOf(lin))
        /\ lineages' = lineages \cup {lin}
        /\ rows' = [rows EXCEPT ![id] = [lin |-> lin, ver |-> v, src |-> src]]
        /\ bindings' = [bindings EXCEPT ![lin] = id]
        /\ namespaces' = [namespaces EXCEPT ![lin] = NextNamespaces(lin, given)]
        /\ refs' = refs \cup {[lin |-> lin, ver |-> v, row |-> id, gone |-> FALSE]}
        /\ UNCHANGED toolboxes
  BY DEF WriteVersion
<1> DEFINE new == [lin |-> lin, ver |-> v, src |-> src]
<1>2. id \notin Live
  <2>1. \A m \in Live : m < id
    BY <1>1 DEF IsNext
  <2>2. ~ (id < id)
    BY DEF RowIds
  <2> QED BY <2>1, <2>2
<1>3. \A r \in RowsOf(lin) : rows[r].ver < v
  BY <1>1 DEF IsNext, VersionsOf
<1>4. new \in Version
  BY <1>0 DEF Version
<1>5. /\ rows' \in [RowIds -> Version \cup {Null}]
      /\ rows'[id] = new
      /\ \A r \in RowIds : r # id => rows'[r] = rows[r]
  BY <1>1, <1>4 DEF TablesInv
<1>6. Live' = Live \cup {id}
  BY <1>4, <1>5, NullAssumption DEF Live
<1>7. \A l : RowsOf(l)' = IF l = lin THEN RowsOf(l) \cup {id} ELSE RowsOf(l)
  BY <1>2, <1>5, <1>6 DEF RowsOf, Live
<1>8. NextNamespaces(lin, given) \in SUBSET AllPaths /\ NextNamespaces(lin, given) # {}
  BY <1>0 DEF NextNamespaces, AllPaths, TablesInv
<1>9. /\ toolboxes' \subseteq Toolboxes
      /\ lineages' \subseteq Lineages
      /\ bindings' \in [Lineages -> 0 .. MaxRow]
      /\ namespaces' \in [Lineages -> SUBSET AllPaths]
      /\ refs' \subseteq Ref
  <2>1. [lin |-> lin, ver |-> v, row |-> id, gone |-> FALSE] \in Ref
    BY <1>0 DEF Ref
  <2>2. id \in 0 .. MaxRow
    BY DEF RowIds
  <2>3. bindings' \in [Lineages -> 0 .. MaxRow]
    BY <1>0, <1>1, <2>2 DEF TablesInv
  <2>4. namespaces' \in [Lineages -> SUBSET AllPaths]
    BY <1>0, <1>1, <1>8 DEF TablesInv
  <2> QED BY <1>0, <1>1, <2>1, <2>3, <2>4 DEF TablesInv
<1>10. OwnedRows'
  <2>1. \A l \in lineages' : l[1] \in toolboxes'
    BY <1>1 DEF TablesInv, OwnedRows
  <2>2. ASSUME NEW r \in Live' PROVE rows'[r].lin \in lineages'
    <3>1. CASE r = id
      BY <3>1, <1>1, <1>5
    <3>2. CASE r # id
      BY <3>2, <1>1, <1>5, <1>6 DEF TablesInv, OwnedRows, Live
    <3> QED BY <3>1, <3>2
  <2> QED BY <2>1, <2>2 DEF OwnedRows
<1>11. BindingIntegrity'
  <2> SUFFICES ASSUME NEW l \in Lineages, bindings'[l] # 0
               PROVE  /\ l \in lineages'
                      /\ rows'[bindings'[l]] # Null
                      /\ rows'[bindings'[l]].lin = l
    BY DEF BindingIntegrity
  <2>1. CASE l = lin
    <3>1. bindings'[l] = id
      BY <2>1, <1>0, <1>1 DEF TablesInv
    <3>2. rows'[id] # Null /\ rows'[id].lin = l
      BY <1>4, <1>5, <2>1, NullAssumption
    <3> QED BY <3>1, <3>2, <2>1, <1>1
  <2>2. CASE l # lin
    <3>1. bindings'[l] = bindings[l]
      BY <2>2, <1>0, <1>1 DEF TablesInv
    <3>2. bindings[l] \in Live
      BY <3>1 DEF TablesInv, BindingIntegrity, Live, RowIds
    <3> QED BY <3>1, <3>2, <1>1, <1>2, <1>5 DEF TablesInv, BindingIntegrity, Live
  <2> QED BY <2>1, <2>2
<1>12. LineageIntact'
  <2> SUFFICES ASSUME NEW l \in lineages'
               PROVE  /\ RowsOf(l)' # {}
                      /\ \A r, q \in RowsOf(l)' : rows'[r].ver = rows'[q].ver => r = q
                      /\ namespaces'[l] # {}
    BY DEF LineageIntact
  <2>0. l \in Lineages
    BY <1>9
  <2>1. namespaces'[l] # {}
    BY <1>0, <1>1, <1>8, <2>0 DEF TablesInv, LineageIntact
  <2>2. RowsOf(l)' # {}
    BY <1>1, <1>7 DEF TablesInv, LineageIntact
  <2>3. ASSUME NEW r \in RowsOf(l)', NEW q \in RowsOf(l)', rows'[r].ver = rows'[q].ver
        PROVE  r = q
    <3>1. CASE l # lin
      <4>1. l \in lineages /\ RowsOf(l)' = RowsOf(l)
        BY <3>1, <1>1, <1>7
      <4>2. \A x \in RowsOf(l) : rows'[x] = rows[x]
        BY <1>2, <1>5 DEF RowsOf, Live
      <4> QED BY <4>1, <4>2, <2>3 DEF TablesInv, LineageIntact
    <3>2. CASE l = lin
      <4>1. ASSUME NEW x \in RowsOf(lin)
            PROVE  /\ rows'[x] = rows[x]
                   /\ rows[x].ver \in Nat
                   /\ rows[x].ver < v
                   /\ lin \in lineages
        <5>1. x \in Live /\ rows[x].lin = lin
          BY DEF RowsOf
        <5>2. rows[x] \in Version
          BY <5>1 DEF TablesInv, Live
        <5>3. rows'[x] = rows[x]
          BY <1>2, <1>5, <5>1 DEF Live
        <5>4. rows[x].ver \in Nat
          BY <5>2 DEF Version, RowIds
        <5>5. lin \in lineages
          BY <5>1 DEF TablesInv, OwnedRows
        <5> QED BY <1>3, <5>3, <5>4, <5>5
      <4>2. rows'[id].ver = v /\ v \in Nat
        BY <1>5 DEF RowIds
      <4> QED BY <4>1, <4>2, <3>2, <2>3, <1>7 DEF TablesInv, LineageIntact
    <3> QED BY <3>1, <3>2
  <2> QED BY <2>1, <2>2, <2>3
<1>13. CoreRecoverable'
  <2> SUFFICES ASSUME NEW u \in toolboxes', NEW m \in CoreNames
               PROVE  /\ Bound(u, m)'
                      /\ \E r \in RowsOf(<<u, m>>)' :
                           rows'[r].ver = 1 /\ rows'[r].src \in Shipped
    BY DEF CoreRecoverable
  <2>0. <<u, m>> \in Lineages
    BY <1>9, StoreAssumption DEF Lineages
  <2>1. Bound(u, m)'
    <3>1. Bound(u, m)
      BY <1>1 DEF TablesInv, CoreRecoverable
    <3>2. bindings'[<<u, m>>] \in {bindings[<<u, m>>], id}
      BY <1>0, <1>1, <2>0 DEF TablesInv
    <3> QED BY <3>1, <3>2 DEF Bound, RowIds
  <2>2. PICK r \in RowsOf(<<u, m>>) : rows[r].ver = 1 /\ rows[r].src \in Shipped
    BY <1>1 DEF TablesInv, CoreRecoverable
  <2>3. r \in RowsOf(<<u, m>>)' /\ rows'[r] = rows[r]
    BY <1>2, <1>5, <1>7 DEF RowsOf, Live
  <2> QED BY <2>1, <2>2, <2>3
<1> QED BY <1>5, <1>9, <1>10, <1>11, <1>12, <1>13 DEF TablesInv

\* Moving or dropping bindings, filing and recording leave the versions alone;
\* they keep the invariant if core tools stay bound and bindings stay sound.
LEMMA BindingChangeKeeps ==
  ASSUME TablesInv,
         UNCHANGED <<toolboxes, lineages, rows>>,
         bindings' \in [Lineages -> 0 .. MaxRow],
         \A l \in Lineages : bindings'[l] # bindings[l] =>
           \/ bindings'[l] = 0 /\ l[2] \notin CoreNames
           \/ l \in lineages /\ bindings'[l] \in RowsOf(l),
         namespaces' \in [Lineages -> SUBSET AllPaths],
         \A l \in lineages : namespaces'[l] # {},
         refs' \subseteq Ref
  PROVE  TablesInv'
<1>1. toolboxes' = toolboxes /\ lineages' = lineages /\ rows' = rows
  OBVIOUS
<1>2. Live' = Live
  BY <1>1 DEF Live
<1>3. \A l : RowsOf(l)' = RowsOf(l)
  BY <1>1, <1>2 DEF RowsOf
<1>4. OwnedRows'
  BY <1>1, <1>2 DEF TablesInv, OwnedRows
<1>5. BindingIntegrity'
  BY <1>1, <1>2 DEF TablesInv, BindingIntegrity, RowsOf, Live
<1>6. LineageIntact'
  BY <1>1, <1>3 DEF TablesInv, LineageIntact
<1>7. CoreRecoverable'
  <2> SUFFICES ASSUME NEW t \in toolboxes, NEW n \in CoreNames
               PROVE  Bound(t, n)'
    BY <1>1, <1>3 DEF TablesInv, CoreRecoverable
  <2>1. <<t, n>> \in Lineages /\ <<t, n>>[2] = n
    BY StoreAssumption DEF TablesInv, Lineages
  <2>2. bindings[<<t, n>>] # 0
    BY DEF TablesInv, CoreRecoverable, Bound
  <2>3. \A r \in RowsOf(<<t, n>>) : r # 0
    BY DEF RowsOf, Live, RowIds
  <2> QED BY <2>1, <2>2, <2>3 DEF Bound
<1> QED BY <1>1, <1>4, <1>5, <1>6, <1>7 DEF TablesInv

\* A toolbox in which a name wins exists, binds it, and holds the version.
LEMMA WinnerIsBound ==
  ASSUME TablesInv, NEW s \in Scopes, Usable(s), NEW n \in Names,
         NEW t, Wins(s, n, t)
  PROVE  /\ t \in toolboxes
         /\ <<t, n>> \in Lineages
         /\ <<t, n>> \in lineages
         /\ bindings[<<t, n>>] \in RowsOf(<<t, n>>)
         /\ rows[bindings[<<t, n>>]] \in Version
<1>1. t \in toolboxes /\ bindings[<<t, n>>] # 0
  BY DEF Wins, Usable, Bound
<1>2. <<t, n>> \in Lineages
  BY <1>1 DEF TablesInv, Lineages
<1>3. bindings[<<t, n>>] \in RowIds
  BY <1>1, <1>2 DEF TablesInv, RowIds
<1> QED BY <1>1, <1>2, <1>3 DEF TablesInv, BindingIntegrity, RowsOf, Live

LEMMA TargetExists ==
  ASSUME NEW s \in Scopes, Usable(s), NEW n \in Names, NEW t, IsTarget(s, n, t)
  PROVE  t \in toolboxes
<1>1. 1 \in DOMAIN s
  <2>1. s \in Seq(Toolboxes) /\ s # <<>>
    BY StoreAssumption
  <2> QED BY <2>1
<1>2. s[1] \in toolboxes
  BY <1>1 DEF Usable
<1> QED BY <1>2 DEF IsTarget, Wins, Usable

LEMMA DeleteVersionKeeps ==
  ASSUME TablesInv, NEW s \in Scopes, NEW n \in Names, NEW v \in RowIds,
         DeleteVersion(s, n, v)
  PROVE  TablesInv'
<1>1. PICK t \in Toolboxes, r \in Live :
        LET lin == <<t, n>> IN
        /\ Wins(s, n, t)
        /\ rows[r].lin = lin /\ rows[r].ver = v
        /\ Cardinality(RowsOf(lin)) > 1
        /\ \/ /\ bindings[lin] = r
              /\ \E q \in Live :
                   IsFallback(r, q) /\ bindings' = [bindings EXCEPT ![lin] = q]
           \/ bindings[lin] # r /\ UNCHANGED bindings
        /\ refs' = {e \in refs : e.row # r}
        /\ \A l \in Lineages : bindings'[l] # r
        /\ rows' = [rows EXCEPT ![r] = Null]
  BY DEF DeleteVersion
<1> DEFINE lin == <<t, n>>
<1>2. lin \in Lineages /\ lin \in lineages /\ r \in RowIds /\ r \in RowsOf(lin)
  BY <1>1, WinnerIsBound DEF DeleteVersion, RowsOf, Live
<1>3. /\ toolboxes' = toolboxes /\ lineages' = lineages
      /\ namespaces' = namespaces
      /\ Deletable(n, v)
  BY DEF DeleteVersion
<1>4. /\ rows' \in [RowIds -> Version \cup {Null}]
      /\ rows'[r] = Null
      /\ \A q \in RowIds : q # r => rows'[q] = rows[q]
  BY <1>1, <1>2 DEF TablesInv
<1>5. Live' = Live \ {r}
  BY <1>4 DEF Live
<1>6. \A l : RowsOf(l)' = RowsOf(l) \ {r}
  BY <1>4, <1>5 DEF RowsOf, Live
<1>7. RowsOf(lin) \ {r} # {}
  <2>1. SUFFICES ASSUME RowsOf(lin) = {r} PROVE FALSE
    BY <1>2
  <2>2. Cardinality({r}) = 1
    BY FS_Singleton
  <2> QED BY <1>1, <2>1, <2>2
<1>8. \A l \in Lineages : bindings'[l] # bindings[l] =>
        l = lin /\ bindings'[l] \in RowsOf(lin) \ {r}
  <2>1. CASE bindings[lin] = r
    <3>1. PICK q \in Live :
            IsFallback(r, q) /\ bindings' = [bindings EXCEPT ![lin] = q]
      BY <1>1, <2>1
    <3>2. q \in RowsOf(lin) \ {r}
      BY <1>1, <3>1 DEF IsFallback
    <3> QED BY <1>2, <3>1, <3>2 DEF TablesInv
  <2>2. CASE bindings[lin] # r
    BY <1>1, <2>2
  <2> QED BY <2>1, <2>2
<1>9. bindings' \in [Lineages -> 0 .. MaxRow]
  <2>1. \A q \in Live : q \in 0 .. MaxRow
    BY DEF Live, RowIds
  <2> QED BY <1>1, <1>2, <2>1 DEF TablesInv
<1>10. refs' \subseteq Ref
  BY <1>1 DEF TablesInv
<1>11. OwnedRows'
  BY <1>3, <1>4, <1>5 DEF TablesInv, OwnedRows, Live
<1>12. BindingIntegrity'
  <2> SUFFICES ASSUME NEW l \in Lineages, bindings'[l] # 0
               PROVE  /\ l \in lineages'
                      /\ rows'[bindings'[l]] # Null
                      /\ rows'[bindings'[l]].lin = l
    BY DEF BindingIntegrity
  <2>1. bindings'[l] # r
    BY <1>1
  <2>2. CASE bindings'[l] = bindings[l]
    <3>1. bindings'[l] \in RowIds
      BY <1>9 DEF RowIds
    <3> QED BY <1>3, <1>4, <2>1, <2>2, <3>1 DEF TablesInv, BindingIntegrity
  <2>3. CASE bindings'[l] # bindings[l]
    BY <1>2, <1>3, <1>4, <1>8, <2>1, <2>3 DEF RowsOf, Live
  <2> QED BY <2>2, <2>3
<1>13. LineageIntact'
  <2> SUFFICES ASSUME NEW l \in lineages
               PROVE  /\ RowsOf(l)' # {}
                      /\ \A p, q \in RowsOf(l)' : rows'[p].ver = rows'[q].ver => p = q
    BY <1>3 DEF TablesInv, LineageIntact
  <2>1. RowsOf(l)' # {}
    <3>1. CASE l = lin
      BY <3>1, <1>6, <1>7
    <3>2. CASE l # lin
      BY <3>2, <1>1, <1>6 DEF TablesInv, LineageIntact, RowsOf
    <3> QED BY <3>1, <3>2
  <2>2. \A p \in RowsOf(l)' : p \in RowsOf(l) /\ rows'[p] = rows[p]
    BY <1>4, <1>6 DEF RowsOf, Live
  <2> QED BY <2>1, <2>2 DEF TablesInv, LineageIntact
<1>14. CoreRecoverable'
  <2> SUFFICES ASSUME NEW u \in toolboxes, NEW m \in CoreNames
               PROVE  /\ Bound(u, m)'
                      /\ \E p \in RowsOf(<<u, m>>)' :
                           rows'[p].ver = 1 /\ rows'[p].src \in Shipped
    BY <1>3 DEF CoreRecoverable
  <2>1. <<u, m>> \in Lineages
    BY StoreAssumption DEF TablesInv, Lineages
  <2>2. Bound(u, m)'
    <3>1. bindings[<<u, m>>] # 0
      BY DEF TablesInv, CoreRecoverable, Bound
    <3>2. \A p \in RowsOf(lin) : p # 0
      BY DEF RowsOf, Live, RowIds
    <3> QED BY <1>8, <2>1, <3>1, <3>2 DEF Bound
  <2>3. PICK p \in RowsOf(<<u, m>>) : rows[p].ver = 1 /\ rows[p].src \in Shipped
    BY DEF TablesInv, CoreRecoverable
  <2>4. p # r
    <3>1. SUFFICES ASSUME p = r PROVE FALSE
      OBVIOUS
    <3>2. <<u, m>> = <<t, n>> /\ v = 1
      BY <1>1, <2>3, <3>1 DEF RowsOf
    <3> QED BY <1>3, <3>2 DEF Deletable
  <2>5. p \in RowsOf(<<u, m>>)' /\ rows'[p] = rows[p]
    BY <1>4, <1>6, <2>3, <2>4 DEF RowsOf, Live
  <2> QED BY <2>2, <2>3, <2>5
<1> QED BY <1>3, <1>4, <1>9, <1>10, <1>11, <1>12, <1>13, <1>14 DEF TablesInv

LEMMA DeleteBindingKeeps ==
  ASSUME TablesInv, NEW s \in Scopes, NEW n \in Names, DeleteBinding(s, n)
  PROVE  TablesInv'
<1>1. PICK t \in Toolboxes :
        /\ Wins(s, n, t)
        /\ bindings' = [bindings EXCEPT ![<<t, n>>] = 0]
        /\ refs' = refs \cup {[lin |-> <<t, n>>, row |-> bindings[<<t, n>>],
                               ver |-> rows[bindings[<<t, n>>]].ver, gone |-> FALSE]}
  BY DEF DeleteBinding
<1>2. /\ <<t, n>> \in Lineages
      /\ bindings[<<t, n>>] \in RowIds
      /\ rows[bindings[<<t, n>>]].ver \in RowIds
  BY <1>1, WinnerIsBound DEF DeleteBinding, RowsOf, Live, Version
<1>3. refs' \subseteq Ref
  <2>1. [lin |-> <<t, n>>, row |-> bindings[<<t, n>>],
         ver |-> rows[bindings[<<t, n>>]].ver, gone |-> FALSE] \in Ref
    BY ONLY <1>2 DEF Ref
  <2> QED BY <1>1, <2>1 DEF TablesInv
<1>4. /\ bindings' \in [Lineages -> 0 .. MaxRow]
      /\ \A l \in Lineages : bindings'[l] # bindings[l] =>
           bindings'[l] = 0 /\ l[2] \notin CoreNames
  <2>1. 0 \in 0 .. MaxRow
    BY StoreAssumption
  <2>2. bindings' \in [Lineages -> 0 .. MaxRow]
    BY <1>1, <1>2, <2>1 DEF TablesInv
  <2>3. <<t, n>>[2] \notin CoreNames
    BY DEF DeleteBinding
  <2> QED BY <1>1, <1>2, <2>2, <2>3 DEF TablesInv
<1>5. UNCHANGED <<toolboxes, lineages, rows>> /\ namespaces' = namespaces
  BY DEF DeleteBinding
<1> QED BY <1>3, <1>4, <1>5, BindingChangeKeeps DEF TablesInv, LineageIntact

LEMMA ReclassifyKeeps ==
  ASSUME TablesInv, NEW s \in Scopes, NEW n \in Names,
         NEW given \in SUBSET Paths, Reclassify(s, n, given)
  PROVE  TablesInv'
<1>1. PICK t \in Toolboxes :
        /\ Wins(s, n, t)
        /\ namespaces' = [namespaces EXCEPT ![<<t, n>>] = given]
        /\ refs' = IF namespaces[<<t, n>>] = given THEN refs
                   ELSE refs \cup {[lin |-> <<t, n>>, row |-> bindings[<<t, n>>],
                                    ver |-> rows[bindings[<<t, n>>]].ver, gone |-> FALSE]}
  BY DEF Reclassify
<1>2. /\ <<t, n>> \in Lineages
      /\ bindings[<<t, n>>] \in RowIds
      /\ rows[bindings[<<t, n>>]].ver \in RowIds
  BY <1>1, WinnerIsBound DEF Reclassify, RowsOf, Live, Version
<1>3. refs' \subseteq Ref
  <2>1. [lin |-> <<t, n>>, row |-> bindings[<<t, n>>],
         ver |-> rows[bindings[<<t, n>>]].ver, gone |-> FALSE] \in Ref
    BY ONLY <1>2 DEF Ref
  <2> QED BY <1>1, <2>1 DEF TablesInv
<1>4. given \in SUBSET AllPaths /\ given # {}
  BY DEF Reclassify, AllPaths
<1>5. /\ namespaces' \in [Lineages -> SUBSET AllPaths]
      /\ \A l \in lineages : namespaces'[l] # {}
  BY <1>1, <1>2, <1>4 DEF TablesInv, LineageIntact
<1>6. UNCHANGED <<toolboxes, lineages, rows>> /\ bindings' = bindings
  BY DEF Reclassify
<1> QED BY <1>3, <1>5, <1>6, BindingChangeKeeps DEF TablesInv

LEMMA RollbackKeeps ==
  ASSUME TablesInv, NEW t \in Toolboxes, NEW n \in Names, NEW v \in RowIds,
         Rollback(t, n, v)
  PROVE  TablesInv'
<1>1. PICK r \in RowsOf(<<t, n>>) : bindings' = [bindings EXCEPT ![<<t, n>>] = r]
  BY DEF Rollback
<1>2. r \in 0 .. MaxRow
  BY DEF RowsOf, Live, RowIds
<1>3. <<t, n>> \in lineages /\ <<t, n>> \in Lineages
  BY DEF Rollback, Lineages
<1>4. /\ bindings' \in [Lineages -> 0 .. MaxRow]
      /\ \A l \in Lineages : bindings'[l] # bindings[l] =>
           l \in lineages /\ bindings'[l] \in RowsOf(l)
  BY <1>1, <1>2, <1>3 DEF TablesInv
<1>5. /\ UNCHANGED <<toolboxes, lineages, rows>>
      /\ namespaces' = namespaces /\ refs' = refs
  BY DEF Rollback
<1> QED BY <1>4, <1>5, BindingChangeKeeps DEF TablesInv, LineageIntact

-----------------------------------------------------------------------------
(* Seeding and refreshing shipped defaults.                                *)

\* What seeding a toolbox that has no tools yet puts in the tables.
LEMMA SeedingKeeps ==
  ASSUME NEW t \in Toolboxes, NEW lib \in Shipped,
         NEW ids \in [CoreNames -> RowIds],
         TablesInv, t \notin toolboxes,
         Allocates(ids),
         toolboxes' = toolboxes \cup {t},
         lineages' = lineages \cup {<<t, n>> : n \in CoreNames},
         rows' = SeedRows(rows, t, lib, ids),
         bindings' = [l \in Lineages |->
           IF l[1] = t /\ l[2] \in CoreNames THEN ids[l[2]] ELSE bindings[l]],
         namespaces' = [l \in Lineages |->
           IF l[1] = t /\ l[2] \in CoreNames THEN {"core"} ELSE namespaces[l]],
         refs' = refs
  PROVE  TablesInv'
<1>0. \A n \in CoreNames : n \in Names /\ <<t, n>> \in Lineages
  BY StoreAssumption DEF Lineages
<1>1. \A n \in CoreNames : ids[n] \in RowIds /\ ids[n] \notin Live
  <2> SUFFICES ASSUME NEW n \in CoreNames, ids[n] \in Live PROVE FALSE
    OBVIOUS
  <2>1. ids[n] < ids[n]
    BY DEF Allocates
  <2> QED BY <2>1 DEF RowIds
<1>2. \A n \in CoreNames :
        rows'[ids[n]] = [lin |-> <<t, n>>, ver |-> 1, src |-> lib]
  <2> SUFFICES ASSUME NEW n \in CoreNames
               PROVE  rows'[ids[n]] = [lin |-> <<t, n>>, ver |-> 1, src |-> lib]
    OBVIOUS
  <2>1. \A m \in CoreNames : ids[m] = ids[n] => m = n
    BY DEF Allocates
  <2>2. (CHOOSE m \in CoreNames : ids[m] = ids[n]) = n
    BY <2>1
  <2> QED BY <1>1, <2>2 DEF SeedRows
<1>2a. \A n \in CoreNames :
         /\ rows'[ids[n]].lin = <<t, n>> /\ <<t, n>>[1] = t
         /\ rows'[ids[n]].ver = 1 /\ rows'[ids[n]].src = lib
  <2> SUFFICES ASSUME NEW n \in CoreNames
               PROVE  /\ rows'[ids[n]].lin = <<t, n>> /\ <<t, n>>[1] = t
                      /\ rows'[ids[n]].ver = 1 /\ rows'[ids[n]].src = lib
    OBVIOUS
  <2>1. rows'[ids[n]] = [lin |-> <<t, n>>, ver |-> 1, src |-> lib]
    BY <1>2
  <2>2. rows'[ids[n]].lin = <<t, n>>
    BY ONLY <2>1
  <2>3. rows'[ids[n]].ver = 1 /\ rows'[ids[n]].src = lib
    BY ONLY <2>1
  <2>4. <<t, n>>[1] = t
    OBVIOUS
  <2> QED BY <2>2, <2>3, <2>4
<1>3. \A r \in RowIds : (\A n \in CoreNames : ids[n] # r) => rows'[r] = rows[r]
  BY DEF SeedRows
<1>4. DOMAIN rows' = RowIds /\ rows' = [r \in RowIds |-> rows'[r]]
  BY DEF SeedRows
<1>5. \A n \in CoreNames : rows'[ids[n]] \in Version /\ rows'[ids[n]] # Null
  <2>1. \A n \in CoreNames : 1 \in RowIds
    BY <1>1, StoreAssumption DEF RowIds
  <2>2. \A n \in CoreNames :
          [lin |-> <<t, n>>, ver |-> 1, src |-> lib] \in Version
    BY <1>0, <2>1 DEF Version, Sources
  <2> QED BY <1>2, <2>2, NullAssumption
<1>6. rows' \in [RowIds -> Version \cup {Null}]
  <2>1. \A r \in RowIds : rows'[r] \in Version \cup {Null}
    BY <1>3, <1>5 DEF TablesInv
  <2> QED BY <1>4, <2>1
<1>7. Live' = Live \cup {ids[n] : n \in CoreNames}
  BY <1>1, <1>3, <1>5 DEF Live
<1>8. \A r \in Live : r \in Live' /\ rows'[r] = rows[r]
  BY <1>1, <1>3, <1>7 DEF Live
<1>9. \A l \in lineages : RowsOf(l)' = RowsOf(l) /\ l[1] # t
  <2> SUFFICES ASSUME NEW l \in lineages PROVE RowsOf(l)' = RowsOf(l) /\ l[1] # t
    OBVIOUS
  <2>1. l[1] # t
    BY DEF TablesInv, OwnedRows
  <2>2. \A n \in CoreNames : rows'[ids[n]].lin # l
    BY ONLY <1>2a, <2>1
  <2> QED BY <1>7, <1>8, <2>1, <2>2 DEF RowsOf
<1>10. \A n \in CoreNames : RowsOf(<<t, n>>)' = {ids[n]}
  <2> SUFFICES ASSUME NEW n \in CoreNames PROVE RowsOf(<<t, n>>)' = {ids[n]}
    OBVIOUS
  <2>1. ids[n] \in RowsOf(<<t, n>>)'
    BY ONLY <1>2a, <1>7, n \in CoreNames DEF RowsOf
  <2>2. ASSUME NEW r \in Live', rows'[r].lin = <<t, n>> PROVE r = ids[n]
    <3>1. CASE r \in Live
      <4>1. rows[r].lin \in lineages /\ rows[r].lin = <<t, n>>
        BY <2>2, <3>1, <1>8 DEF TablesInv, OwnedRows
      <4> QED BY <4>1, <1>9
    <3>2. CASE \E m \in CoreNames : r = ids[m]
      BY ONLY <2>2, <3>2, <1>2a
    <3> QED BY <3>1, <3>2, <1>7
  <2> QED BY <2>1, <2>2 DEF RowsOf
<1>11. OwnedRows'
  <2>1. \A l \in lineages' : l[1] \in toolboxes'
    <3> SUFFICES ASSUME NEW l \in lineages' PROVE l[1] \in toolboxes'
      OBVIOUS
    <3>1. CASE l \in lineages
      BY <3>1 DEF TablesInv, OwnedRows
    <3>2. CASE l \in {<<t, n>> : n \in CoreNames}
      BY <3>2
    <3> QED BY <3>1, <3>2
  <2>2. ASSUME NEW r \in Live' PROVE rows'[r].lin \in lineages'
    <3>1. CASE r \in Live
      BY <3>1, <1>8 DEF TablesInv, OwnedRows
    <3>2. CASE r \in {ids[n] : n \in CoreNames}
      <4>1. PICK n \in CoreNames : r = ids[n]
        BY <3>2
      <4>2. rows'[r].lin = <<t, n>>
        BY <4>1, <1>2a
      <4> QED BY <4>2
    <3> QED BY <3>1, <3>2, <1>7
  <2> QED BY <2>1, <2>2 DEF OwnedRows
<1>12. /\ bindings' \in [Lineages -> 0 .. MaxRow]
       /\ namespaces' \in [Lineages -> SUBSET AllPaths]
  <2>1. \A n \in CoreNames : ids[n] \in 0 .. MaxRow
    BY <1>1 DEF RowIds
  <2> QED BY <2>1 DEF TablesInv, AllPaths
<1>13. BindingIntegrity'
  <2> SUFFICES ASSUME NEW l \in Lineages, bindings'[l] # 0
               PROVE  /\ l \in lineages'
                      /\ rows'[bindings'[l]] # Null
                      /\ rows'[bindings'[l]].lin = l
    BY DEF BindingIntegrity
  <2>1. CASE l[1] = t /\ l[2] \in CoreNames
    <3>1. l = <<t, l[2]>> /\ bindings'[l] = ids[l[2]]
      BY <2>1 DEF Lineages
    <3>2. l \in lineages'
      BY <2>1, <3>1
    <3>3. rows'[ids[l[2]]] # Null /\ rows'[ids[l[2]]].lin = l
      BY ONLY <2>1, <3>1, <1>2a, <1>5
    <3> QED BY <3>1, <3>2, <3>3
  <2>2. CASE ~ (l[1] = t /\ l[2] \in CoreNames)
    <3>1. bindings'[l] = bindings[l]
      BY <2>2
    <3>2. bindings[l] \in Live
      BY <3>1 DEF TablesInv, BindingIntegrity, Live, RowIds
    <3> QED BY <3>1, <3>2, <1>8 DEF TablesInv, BindingIntegrity, Live
  <2> QED BY <2>1, <2>2
<1>14. LineageIntact'
  <2> SUFFICES ASSUME NEW l \in lineages'
               PROVE  /\ RowsOf(l)' # {}
                      /\ \A r, q \in RowsOf(l)' : rows'[r].ver = rows'[q].ver => r = q
                      /\ namespaces'[l] # {}
    BY DEF LineageIntact
  <2>1. CASE l \in lineages
    <3>1. \A r \in RowsOf(l) : rows'[r] = rows[r]
      BY <1>8 DEF RowsOf
    <3>2. namespaces'[l] = namespaces[l]
      BY <2>1, <1>9 DEF TablesInv
    <3> QED BY <2>1, <3>1, <3>2, <1>9 DEF TablesInv, LineageIntact
  <2>2. CASE l \in {<<t, n>> : n \in CoreNames}
    <3>1. PICK n \in CoreNames : l = <<t, n>>
      BY <2>2
    <3>2. namespaces'[l] = {"core"}
      BY <3>1, <1>0
    <3> QED BY <3>1, <3>2, <1>10
  <2> QED BY <2>1, <2>2
<1>15. CoreRecoverable'
  <2> SUFFICES ASSUME NEW u \in toolboxes', NEW m \in CoreNames
               PROVE  /\ Bound(u, m)'
                      /\ \E r \in RowsOf(<<u, m>>)' :
                           rows'[r].ver = 1 /\ rows'[r].src \in Shipped
    BY DEF CoreRecoverable
  <2>1. CASE u = t
    <3>1. bindings'[<<t, m>>] = ids[m]
      BY <1>0
    <3>2. ids[m] # 0 /\ ids[m] \in RowsOf(<<t, m>>)'
      BY ONLY <1>1, <1>10, m \in CoreNames DEF RowIds
    <3>3. rows'[ids[m]].ver = 1 /\ rows'[ids[m]].src \in Shipped
      BY ONLY <1>2a, m \in CoreNames, lib \in Shipped
    <3> QED BY ONLY <2>1, <3>1, <3>2, <3>3 DEF Bound
  <2>2. CASE u # t
    <3>1. <<u, m>> \in Lineages
      BY <2>2, <1>0 DEF TablesInv, Lineages
    <3>2. bindings'[<<u, m>>] = bindings[<<u, m>>]
      BY <2>2, <3>1
    <3>3. PICK r \in RowsOf(<<u, m>>) : rows[r].ver = 1 /\ rows[r].src \in Shipped
      BY <2>2 DEF TablesInv, CoreRecoverable
    <3>4. r \in RowsOf(<<u, m>>)' /\ rows'[r] = rows[r]
      BY <1>8, <3>3 DEF RowsOf
    <3> QED BY <2>2, <3>2, <3>3, <3>4 DEF TablesInv, CoreRecoverable, Bound
  <2> QED BY <2>1, <2>2
<1> QED BY <1>0, <1>6, <1>11, <1>12, <1>13, <1>14, <1>15 DEF TablesInv

LEMMA CreateToolboxKeeps ==
  ASSUME TablesInv, NEW t \in Toolboxes, NEW lib \in Shipped, CreateToolbox(t, lib)
  PROVE  TablesInv'
<1>1. PICK ids \in [CoreNames -> RowIds] :
        /\ Allocates(ids)
        /\ rows' = SeedRows(rows, t, lib, ids)
        /\ bindings' = [l \in Lineages |->
             IF l[1] = t /\ l[2] \in CoreNames THEN ids[l[2]] ELSE bindings[l]]
  BY DEF CreateToolbox
<1>2. /\ t \notin toolboxes
      /\ toolboxes' = toolboxes \cup {t}
      /\ lineages' = lineages \cup {<<t, n>> : n \in CoreNames}
      /\ namespaces' = [l \in Lineages |->
           IF l[1] = t /\ l[2] \in CoreNames THEN {"core"} ELSE namespaces[l]]
      /\ refs' = refs
  BY DEF CreateToolbox
<1> QED BY ONLY TablesInv, t \in Toolboxes, lib \in Shipped, <1>1, <1>2, SeedingKeeps

LEMMA RefreshCoreKeeps ==
  ASSUME TablesInv, NEW lib \in Shipped, RefreshCore(lib)
  PROVE  TablesInv'
<1> DEFINE shipped(r) ==
      rows[r] # Null /\ rows[r].ver = 1 /\ rows[r].lin[2] \in CoreNames
<1>1. /\ rows' = [r \in RowIds |->
           IF shipped(r) THEN [rows[r] EXCEPT !.src = lib] ELSE rows[r]]
      /\ UNCHANGED <<toolboxes, lineages, bindings, namespaces, refs>>
  BY DEF RefreshCore
<1>2. ASSUME NEW r \in Live
      PROVE  /\ rows'[r] \in Version
             /\ rows'[r].lin = rows[r].lin
             /\ rows'[r].ver = rows[r].ver
             /\ rows[r].src \in Shipped => rows'[r].src \in Shipped
  <2>1. r \in RowIds /\ rows[r] \in Version
    BY DEF Live, TablesInv
  <2>2. lib \in Sources
    BY DEF Sources
  <2>3. rows'[r] = IF shipped(r) THEN [rows[r] EXCEPT !.src = lib] ELSE rows[r]
    BY <1>1, <2>1
  <2> HIDE DEF shipped
  <2>4. CASE shipped(r)
    <3>1. rows'[r] = [rows[r] EXCEPT !.src = lib]
      BY ONLY <2>3, <2>4
    <3> QED BY ONLY <2>1, <2>2, <3>1, lib \in Shipped DEF Version
  <2>5. CASE ~ shipped(r)
    BY ONLY <2>1, <2>3, <2>5
  <2> QED BY <2>4, <2>5
<1>3. \A r \in RowIds \ Live : rows'[r] = Null
  BY <1>1 DEF Live
<1>4. rows' \in [RowIds -> Version \cup {Null}]
  <2>1. \A r \in RowIds : rows'[r] \in Version \cup {Null}
    BY <1>2, <1>3
  <2>2. rows' = [r \in RowIds |-> rows'[r]]
    BY <1>1
  <2> QED BY <2>1, <2>2
<1>5. Live' = Live
  <2>1. Live' \subseteq RowIds /\ Live \subseteq RowIds
    BY DEF Live
  <2> QED BY <1>2, <1>3, <2>1, NullAssumption DEF Live
<1>6. \A l : RowsOf(l)' = RowsOf(l)
  BY <1>2, <1>5 DEF RowsOf
<1>7. OwnedRows'
  <2>1. \A l \in lineages : l[1] \in toolboxes
    BY DEF TablesInv, OwnedRows
  <2>2. \A r \in Live : rows'[r].lin \in lineages
    <3>1. \A r \in Live : rows[r].lin \in lineages
      BY DEF TablesInv, OwnedRows
    <3> QED BY ONLY <1>2, <3>1
  <2> QED BY <1>1, <1>5, <2>1, <2>2 DEF OwnedRows
<1>8. BindingIntegrity'
  <2> SUFFICES ASSUME NEW l \in Lineages, bindings[l] # 0
               PROVE  l \in lineages /\ rows'[bindings[l]] # Null
                      /\ rows'[bindings[l]].lin = l
    BY <1>1 DEF BindingIntegrity
  <2>1. bindings[l] \in Live /\ l \in lineages /\ rows[bindings[l]].lin = l
    BY DEF TablesInv, BindingIntegrity, Live, RowIds
  <2> QED BY <1>2, <2>1, NullAssumption
<1>9. LineageIntact'
  <2>1. \A l : \A r \in RowsOf(l) : rows'[r].ver = rows[r].ver
    BY <1>2 DEF RowsOf
  <2> QED BY <1>1, <1>6, <2>1 DEF TablesInv, LineageIntact
<1>10. CoreRecoverable'
  <2>1. \A l : \A r \in RowsOf(l) :
          rows'[r].ver = rows[r].ver /\ (rows[r].src \in Shipped => rows'[r].src \in Shipped)
    BY <1>2 DEF RowsOf
  <2> SUFFICES ASSUME NEW t \in toolboxes, NEW n \in CoreNames
               PROVE  /\ Bound(t, n)
                      /\ \E r \in RowsOf(<<t, n>>) :
                           rows'[r].ver = 1 /\ rows'[r].src \in Shipped
    BY <1>1, <1>6 DEF CoreRecoverable, Bound
  <2>2. PICK r \in RowsOf(<<t, n>>) : rows[r].ver = 1 /\ rows[r].src \in Shipped
    BY DEF TablesInv, CoreRecoverable
  <2>3. Bound(t, n)
    BY DEF TablesInv, CoreRecoverable
  <2> QED BY ONLY <2>1, <2>2, <2>3
<1> QED BY <1>1, <1>4, <1>7, <1>8, <1>9, <1>10 DEF TablesInv

-----------------------------------------------------------------------------
(* Callers.                                                                *)

\* A step that moves one client keeps the others.
LEMMA BecomeKeeps ==
  ASSUME ClientsInv, toolboxes \subseteq toolboxes', NEW c \in Clients,
         NEW me, me \in Client, HoldsOK(c, me), Become(c, me)
  PROVE  ClientsInv'
<1>1. clients' = [clients EXCEPT ![c] = me]
  BY DEF Become
<1>2. clients' \in [Clients -> Client]
  BY <1>1 DEF ClientsInv
<1>3. ASSUME NEW d \in Clients PROVE HoldsOK(d, clients'[d])
  BY <1>1 DEF ClientsInv, ClientsOK
<1>4. ASSUME NEW d \in Clients, NEW u, HoldsOK(d, u) PROVE HoldsOK(d, u)'
  BY <1>4 DEF HoldsOK, Usable
<1>5. ClientsOK'
  BY <1>3 DEF ClientsOK, HoldsOK, Usable
<1> QED BY <1>2, <1>5 DEF ClientsInv

\* The deletion of a version marks those that hold it, and changes nothing else of
\* a caller.
Marks(r) ==
  clients' = [c \in Clients |-> [clients[c] EXCEPT !.gone = @ \/ clients[c].row = r]]

LEMMA Marked ==
  ASSUME clients \in [Clients -> Client], NEW r, Marks(r), NEW c \in Clients
  PROVE  /\ clients'[c] \in Client
         /\ \A f \in {"phase", "name", "exact", "pos", "lin", "row", "ver", "src"} :
              clients'[c][f] = clients[c][f]
         /\ clients'[c].gone = (clients[c].gone \/ clients[c].row = r)
<1>1. PICK me \in Client : me = clients[c]
  OBVIOUS
<1>2. PICK b \in BOOLEAN : b = (me.gone \/ me.row = r)
  OBVIOUS
<1>3. clients'[c] = [me EXCEPT !.gone = b]
  BY <1>1, <1>2 DEF Marks
<1>4. /\ [me EXCEPT !.gone = b] \in Client
      /\ \A f \in {"phase", "name", "exact", "pos", "lin", "row", "ver", "src"} :
           [me EXCEPT !.gone = b][f] = me[f]
      /\ [me EXCEPT !.gone = b].gone = b
  BY ONLY me \in Client, b \in BOOLEAN DEF Client
<1> QED BY <1>1, <1>2, <1>3, <1>4

LEMMA MarksKeep ==
  ASSUME ClientsInv, toolboxes \subseteq toolboxes', NEW r, Marks(r)
  PROVE  ClientsInv'
<1>1. clients \in [Clients -> Client]
  BY DEF ClientsInv
<1>2. clients' \in [Clients -> Client]
  <2>1. \A c \in Clients : clients'[c] \in Client
    BY <1>1, Marked
  <2> QED BY <2>1 DEF Marks
<1>3. ASSUME NEW c \in Clients
      PROVE  /\ clients'[c].phase = clients[c].phase /\ clients'[c].name = clients[c].name
             /\ clients'[c].pos = clients[c].pos /\ clients'[c].lin = clients[c].lin
             /\ clients'[c].row = clients[c].row /\ clients'[c].ver = clients[c].ver
             /\ clients'[c].src = clients[c].src
  BY <1>1, Marked
<1>4. ASSUME NEW c \in Clients PROVE HoldsOK(c, clients[c])'
  <2>1. HoldsOK(c, clients[c])
    BY DEF ClientsInv, ClientsOK
  <2> QED BY <1>3, <2>1 DEF HoldsOK, Usable
<1> QED BY <1>2, <1>4 DEF ClientsInv, ClientsOK

LEMMA FreshOK ==
  ASSUME NEW p \in Ended, NEW c
  PROVE  Fresh(p) \in Client /\ HoldsOK(c, Fresh(p)) /\ Fresh(p).phase = p
<1>1. 0 \in 0 .. MaxRow
  BY StoreAssumption
<1>2. Fresh(p) \in Client
  BY <1>1 DEF Fresh, Client, Phases
<1>3. Fresh(p).phase = p
  BY DEF Fresh
<1>4. p \notin {"bound", "resolved", "running"}
  BY DEF Ended
<1> QED BY <1>2, <1>3, <1>4 DEF HoldsOK

LEMMA BeginKeeps ==
  ASSUME TablesInv, ClientsInv, NEW c \in Clients, NEW n \in Names,
         NEW exact \in 0 .. MaxRow, Begin(c, n, exact)
  PROVE  TablesInv' /\ ClientsInv'
<1> DEFINE me == [Fresh("probing") EXCEPT !.name = n, !.exact = exact, !.pos = 1]
<1>1. UNCHANGED tables /\ Become(c, me) /\ Usable(ScopeOf[c])
  BY DEF Begin, tables
<1>2. Fresh("probing") \in Client
  <2>1. 0 \in 0 .. MaxRow
    BY StoreAssumption
  <2> QED BY <2>1 DEF Fresh, Client, Phases
<1>3. me \in Client /\ me.phase = "probing" /\ me.name = n /\ me.pos = 1
  <2>1. Fresh("probing").phase = "probing"
    BY DEF Fresh
  <2> QED BY ONLY <1>2, <2>1, n \in Names, exact \in 0 .. MaxRow DEF Client
<1>4. HoldsOK(c, me)
  <2>1. 1 \in DOMAIN ScopeOf[c]
    <3>1. ScopeOf[c] \in Seq(Toolboxes) /\ ScopeOf[c] # <<>>
      BY StoreAssumption
    <3> QED BY <3>1
  <2> QED BY <1>1, <1>3, <2>1 DEF HoldsOK
<1>5. TablesInv' /\ toolboxes' = toolboxes
  BY <1>1, TablesStutter DEF tables
<1> QED BY <1>1, <1>3, <1>4, <1>5, BecomeKeeps

LEMMA ProbeKeeps ==
  ASSUME TablesInv, ClientsInv, NEW c \in Clients, Probe(c)
  PROVE  TablesInv' /\ ClientsInv'
<1> DEFINE me == clients[c]
           scope == ScopeOf[c]
           lin == <<scope[me.pos], me.name>>
<1>1. UNCHANGED tables /\ me.phase = "probing"
  BY DEF Probe, tables
<1>2. TablesInv' /\ toolboxes' = toolboxes
  BY <1>1, TablesStutter DEF tables
<1>3. me \in Client /\ HoldsOK(c, me)
  BY DEF ClientsInv, ClientsOK
<1>4. /\ me.name \in Names /\ Usable(scope) /\ me.pos \in DOMAIN scope
      /\ me.pos \in Nat
  BY <1>1, <1>3 DEF HoldsOK, Ended, Client
<1>5. lin \in Lineages
  <2>1. scope[me.pos] \in Toolboxes
    BY <1>4 DEF Usable, TablesInv
  <2> QED BY <1>4, <2>1 DEF Lineages
<1>6. scope \in Seq(Toolboxes)
  BY StoreAssumption
<1>7. CASE bindings[lin] # 0
           /\ Become(c, [me EXCEPT !.phase = "bound", !.lin = lin,
                                   !.row = bindings[lin]])
  <2> DEFINE new == [me EXCEPT !.phase = "bound", !.lin = lin, !.row = bindings[lin]]
  <2>1. bindings[lin] \in 0 .. MaxRow /\ bindings[lin] \in RowIds
    BY <1>5, <1>7 DEF TablesInv, RowIds
  <2>2. new \in Client
    BY ONLY <1>3, <1>5, <2>1 DEF Client, Phases
  <2>3. /\ new.phase = "bound" /\ new.lin = lin /\ new.row = bindings[lin]
        /\ new.name = me.name /\ new.pos = me.pos
    BY ONLY <1>3 DEF Client
  <2>4. HoldsOK(c, new)
    BY <1>4, <1>5, <2>1, <2>3 DEF HoldsOK
  <2> HIDE DEF new
  <2> QED BY <1>2, <1>7, <2>2, <2>4, BecomeKeeps DEF new
<1>8. CASE me.pos < Len(scope) /\ Become(c, [me EXCEPT !.pos = @ + 1])
  <2> DEFINE new == [me EXCEPT !.pos = @ + 1]
  <2>1. new \in Client /\ new.phase = "probing" /\ new.name = me.name
        /\ new.pos = me.pos + 1
    BY ONLY <1>1, <1>3 DEF Client
  <2>2. new.pos \in DOMAIN scope
    BY <1>4, <1>6, <1>8, <2>1
  <2>3. HoldsOK(c, new)
    BY <1>4, <2>1, <2>2 DEF HoldsOK
  <2> QED BY <1>2, <1>8, <2>1, <2>3, BecomeKeeps
<1>9. CASE Become(c, Fresh("unknown"))
  BY <1>2, <1>9, FreshOK, BecomeKeeps DEF Ended
<1> QED BY <1>7, <1>8, <1>9 DEF Probe

LEMMA FetchKeeps ==
  ASSUME TablesInv, ClientsInv, NEW c \in Clients, Fetch(c)
  PROVE  TablesInv' /\ ClientsInv'
<1> DEFINE me == clients[c]
<1>1. UNCHANGED tables /\ me.phase = "bound"
  BY DEF Fetch, tables
<1>2. TablesInv' /\ toolboxes' = toolboxes
  BY <1>1, TablesStutter DEF tables
<1>3. me \in Client /\ HoldsOK(c, me)
  BY DEF ClientsInv, ClientsOK
<1>4. ASSUME NEW r \in Fetched(me),
             Become(c, [me EXCEPT !.phase = "resolved", !.row = r,
                                  !.ver = rows[r].ver, !.src = rows[r].src,
                                  !.gone = @ /\ me.exact = 0])
      PROVE  ClientsInv'
  <2> DEFINE new == [me EXCEPT !.phase = "resolved", !.row = r,
                              !.ver = rows[r].ver, !.src = rows[r].src,
                              !.gone = @ /\ me.exact = 0]
  <2>1. r \in RowIds /\ rows[r] \in Version
    BY DEF Fetched, RowsOf, Live, TablesInv
  <2>2. rows[r].ver \in RowIds /\ rows[r].src \in Sources
    BY <2>1 DEF Version
  <2>3. r \in 0 .. MaxRow /\ rows[r].ver \in 0 .. MaxRow
    BY <2>1, <2>2 DEF RowIds
  <2>4. new \in Client
    BY ONLY <1>3, <2>2, <2>3 DEF Client, Phases
  <2>5. /\ new.phase = "resolved" /\ new.row = r /\ new.ver = rows[r].ver
        /\ new.src = rows[r].src /\ new.lin = me.lin
        /\ new.name = me.name /\ new.pos = me.pos
    BY ONLY <1>3 DEF Client
  <2>6. HoldsOK(c, new)
    BY <1>1, <1>3, <2>1, <2>2, <2>5 DEF HoldsOK, Ended
  <2> QED BY <1>2, <1>4, <2>4, <2>6, BecomeKeeps
<1>5. ASSUME Become(c, Fresh("unknown")) PROVE ClientsInv'
  BY <1>2, <1>5, FreshOK, BecomeKeeps DEF Ended
<1> QED BY <1>2, <1>4, <1>5 DEF Fetch

\* An event row appended from what the client holds has the column types.
LEMMA RecordKeeps ==
  ASSUME TablesInv, ClientsInv, NEW c \in Clients,
         clients[c].phase \in {"resolved", "running"},
         NEW good, good \in Client, HoldsOK(c, good),
         NEW bad \in Ended, Record(c, good, bad)
  PROVE  TablesInv' /\ ClientsInv'
<1> DEFINE me == clients[c]
<1>1. /\ me.lin \in Lineages /\ me.row \in RowIds /\ me.ver \in RowIds
      /\ me.gone \in BOOLEAN
  <2>1. me \in Client
    BY DEF ClientsInv
  <2>2. me.gone \in BOOLEAN
    BY <2>1 DEF Client
  <2> QED BY <2>2 DEF ClientsInv, ClientsOK, HoldsOK
<1>2. [lin |-> me.lin, ver |-> me.ver, row |-> me.row, gone |-> me.gone] \in Ref
  BY ONLY <1>1 DEF Ref
<1>3. /\ UNCHANGED <<toolboxes, lineages, rows, bindings, namespaces>>
      /\ refs' \subseteq Ref
  BY <1>2 DEF Record, TablesInv
<1>4. TablesInv'
  BY <1>3, BindingChangeKeeps DEF TablesInv, LineageIntact
<1>5. Become(c, good) \/ Become(c, [Fresh(bad) EXCEPT !.gone = me.gone])
  BY DEF Record
<1> DEFINE ended == [Fresh(bad) EXCEPT !.gone = me.gone]
<1>6. ended \in Client /\ HoldsOK(c, ended)
  <2>1. Fresh(bad) \in Client /\ Fresh(bad).phase = bad
    BY FreshOK
  <2>2. ended \in Client /\ ended.phase = bad
    BY ONLY <1>1, <2>1 DEF Client
  <2>3. bad \notin {"bound", "resolved", "running"}
    BY DEF Ended
  <2> QED BY <2>2, <2>3 DEF HoldsOK
<1> QED BY <1>3, <1>4, <1>5, <1>6, BecomeKeeps

LEMMA StartKeeps ==
  ASSUME TablesInv, ClientsInv, NEW c \in Clients, Start(c)
  PROVE  TablesInv' /\ ClientsInv'
<1> DEFINE me == clients[c]
           new == [me EXCEPT !.phase = "running"]
<1>1. me \in Client /\ HoldsOK(c, me) /\ me.phase = "resolved"
  BY DEF ClientsInv, ClientsOK, Start
<1>2. /\ new \in Client /\ new.phase = "running"
      /\ new.name = me.name /\ new.pos = me.pos /\ new.lin = me.lin
      /\ new.row = me.row /\ new.ver = me.ver /\ new.src = me.src
  BY ONLY <1>1 DEF Client, Phases
<1>3. HoldsOK(c, new)
  BY <1>1, <1>2 DEF HoldsOK, Ended
<1>4. Record(c, new, "refused") /\ "refused" \in Ended
  BY DEF Start, Ended
<1> QED BY <1>1, <1>2, <1>3, <1>4, RecordKeeps

LEMMA FinishKeeps ==
  ASSUME TablesInv, ClientsInv, NEW c \in Clients, Finish(c)
  PROVE  TablesInv' /\ ClientsInv'
<1>1. "returned" \in Ended /\ "lost" \in Ended
  BY DEF Ended
<1>2. Fresh("returned") \in Client /\ HoldsOK(c, Fresh("returned"))
  BY <1>1, FreshOK
<1> QED BY <1>1, <1>2, RecordKeeps DEF Finish

LEMMA GuardedAuthorKeeps ==
  ASSUME TablesInv, ClientsInv, NEW c \in Clients, NEW src \in Authored,
         GuardedAuthor(c, src)
  PROVE  TablesInv' /\ ClientsInv'
<1> DEFINE me == clients[c]
<1>1. me.phase = "resolved" /\ HoldsOK(c, me)
  BY DEF GuardedAuthor, ClientsInv, ClientsOK
<1>2. /\ me.name \in Names /\ Usable(ScopeOf[c]) /\ ScopeOf[c] \in Scopes
      /\ src \in Sources /\ {} \in SUBSET Paths
  BY <1>1, StoreAssumption DEF HoldsOK, Ended, Sources
<1>3. PICK t \in Toolboxes :
        /\ IsTarget(ScopeOf[c], me.name, t)
        /\ \/ /\ WriteVersion(<<t, me.name>>, src, {})
              /\ Become(c, [Fresh("wrote") EXCEPT !.lin = <<t, me.name>>])
           \/ /\ Become(c, Fresh("stale"))
              /\ UNCHANGED <<toolboxes, lineages, rows, bindings, namespaces, refs>>
  BY DEF GuardedAuthor
<1>4. t \in toolboxes
  BY <1>2, <1>3, TargetExists
<1>5. CASE /\ WriteVersion(<<t, me.name>>, src, {})
           /\ Become(c, [Fresh("wrote") EXCEPT !.lin = <<t, me.name>>])
  <2> DEFINE new == [Fresh("wrote") EXCEPT !.lin = <<t, me.name>>]
  <2>1. TablesInv' /\ toolboxes' = toolboxes
    BY <1>2, <1>4, <1>5, WriteVersionKeeps DEF WriteVersion
  <2>2. <<t, me.name>> \in Lineages
    BY <1>2 DEF Lineages
  <2>3. Fresh("wrote") \in Client
    BY FreshOK DEF Ended
  <2>4. PICK lin \in Lineages : lin = <<t, me.name>>
    BY <2>2
  <2>5. new \in Client
    <3>1. [Fresh("wrote") EXCEPT !.lin = lin] \in Client
      BY ONLY <2>3, lin \in Lineages DEF Client
    <3> QED BY <2>4, <3>1
  <2>6. HoldsOK(c, new)
    <3>1. new.phase = "wrote"
      BY DEF Fresh
    <3> QED BY <3>1 DEF HoldsOK, Ended
  <2> QED BY <1>5, <2>1, <2>5, <2>6, BecomeKeeps
<1>6. CASE /\ Become(c, Fresh("stale"))
           /\ UNCHANGED <<toolboxes, lineages, rows, bindings, namespaces, refs>>
  <2>1. TablesInv' /\ toolboxes' = toolboxes
    BY <1>6, TablesStutter DEF tables
  <2> QED BY <1>6, <2>1, FreshOK, BecomeKeeps DEF Ended
<1> QED BY <1>3, <1>5, <1>6

-----------------------------------------------------------------------------
(* The invariant, and the theorems.                                        *)

LEMMA InitEstablishes == Init => IInv
<1> SUFFICES ASSUME Init PROVE IInv
  OBVIOUS
<1>1. 0 \in 0 .. MaxRow
  BY StoreAssumption
<1>2. Live = {}
  BY DEF Init, Live
<1>3. OwnedRows /\ BindingIntegrity /\ LineageIntact /\ CoreRecoverable
  BY <1>2 DEF Init, OwnedRows, BindingIntegrity, LineageIntact, CoreRecoverable
<1>4. TablesInv
  BY <1>1, <1>3 DEF Init, TablesInv
<1>5. \A c \in Clients : Fresh("idle") \in Client /\ HoldsOK(c, Fresh("idle"))
  BY FreshOK DEF Ended
<1>6. ClientsInv
  BY <1>5 DEF Init, ClientsInv, ClientsOK
<1> QED BY <1>4, <1>6, Split

LEMMA NextKeeps == IInv /\ [Next]_vars => IInv'
<1> SUFFICES ASSUME IInv, [Next]_vars PROVE IInv'
  OBVIOUS
<1>0. TablesInv /\ ClientsInv
  BY Split
<1>1. ASSUME NEW t \in Toolboxes, NEW lib \in Shipped, CreateToolbox(t, lib)
      PROVE  TablesInv' /\ ClientsInv'
  <2>1. clients' = clients /\ toolboxes \subseteq toolboxes'
    BY <1>1 DEF CreateToolbox
  <2> QED BY <1>0, <1>1, <2>1, CreateToolboxKeeps, ClientsStutter
<1>2. ASSUME NEW lib \in Shipped, RefreshCore(lib) PROVE TablesInv' /\ ClientsInv'
  <2>1. clients' = clients /\ toolboxes \subseteq toolboxes'
    BY <1>2 DEF RefreshCore
  <2> QED BY <1>0, <1>2, <2>1, RefreshCoreKeeps, ClientsStutter
<1>3. ASSUME NEW s \in Scopes, NEW n \in Names, NEW src \in Authored,
             NEW given \in SUBSET Paths, Author(s, n, src, given)
      PROVE  TablesInv' /\ ClientsInv'
  <2>1. PICK t \in Toolboxes : IsTarget(s, n, t) /\ WriteVersion(<<t, n>>, src, given)
    BY <1>3 DEF Author
  <2>2. t \in toolboxes /\ src \in Sources
    BY <1>3, <2>1, TargetExists DEF Author, Sources
  <2>3. clients' = clients /\ toolboxes \subseteq toolboxes'
    BY <1>3, <2>1 DEF Author, WriteVersion
  <2> QED BY <1>0, <2>1, <2>2, <2>3, WriteVersionKeeps, ClientsStutter
<1>4. ASSUME NEW s \in Scopes, NEW n \in Names, NEW given \in SUBSET Paths,
             Reclassify(s, n, given)
      PROVE  TablesInv' /\ ClientsInv'
  <2>1. clients' = clients /\ toolboxes \subseteq toolboxes'
    BY <1>4 DEF Reclassify
  <2> QED BY <1>0, <1>4, <2>1, ReclassifyKeeps, ClientsStutter
<1>5. ASSUME NEW s \in Scopes, NEW n \in Names, NEW v \in RowIds, DeleteVersion(s, n, v)
      PROVE  TablesInv' /\ ClientsInv'
  <2>1. PICK r \in Live : Marks(r)
    BY <1>5 DEF DeleteVersion, Marks
  <2>2. toolboxes \subseteq toolboxes'
    BY <1>5 DEF DeleteVersion
  <2> QED BY <1>0, <1>5, <2>1, <2>2, DeleteVersionKeeps, MarksKeep
<1>6. ASSUME NEW s \in Scopes, NEW n \in Names, DeleteBinding(s, n)
      PROVE  TablesInv' /\ ClientsInv'
  <2>1. clients' = clients /\ toolboxes \subseteq toolboxes'
    BY <1>6 DEF DeleteBinding
  <2> QED BY <1>0, <1>6, <2>1, DeleteBindingKeeps, ClientsStutter
<1>7. ASSUME NEW t \in Toolboxes, NEW n \in Names, NEW v \in RowIds, Rollback(t, n, v)
      PROVE  TablesInv' /\ ClientsInv'
  <2>1. clients' = clients /\ toolboxes \subseteq toolboxes'
    BY <1>7 DEF Rollback
  <2> QED BY <1>0, <1>7, <2>1, RollbackKeeps, ClientsStutter
<1>8. ASSUME NEW c \in Clients, NEW n \in Names, NEW exact \in 0 .. MaxRow,
             Begin(c, n, exact)
      PROVE  TablesInv' /\ ClientsInv'
  BY <1>0, <1>8, BeginKeeps
<1>9. ASSUME NEW c \in Clients, Probe(c) \/ Fetch(c) \/ Start(c) \/ Finish(c)
      PROVE  TablesInv' /\ ClientsInv'
  BY <1>0, <1>9, ProbeKeeps, FetchKeeps, StartKeeps, FinishKeeps
<1>10. ASSUME NEW c \in Clients, NEW src \in Authored, GuardedAuthor(c, src)
       PROVE  TablesInv' /\ ClientsInv'
  BY <1>0, <1>10, GuardedAuthorKeeps
<1>11. ASSUME UNCHANGED vars PROVE TablesInv' /\ ClientsInv'
  <2>1. UNCHANGED tables /\ clients' = clients /\ toolboxes \subseteq toolboxes'
    BY <1>11 DEF vars, tables
  <2> QED BY <1>0, <2>1, TablesStutter, ClientsStutter
<1>12. ASSUME Next PROVE TablesInv' /\ ClientsInv'
  BY <1>12, <1>1, <1>2, <1>3, <1>4, <1>5, <1>6, <1>7, <1>8, <1>9, <1>10 DEF Next
<1>13. TablesInv' /\ ClientsInv'
  BY <1>11, <1>12
<1> QED BY <1>13 DEF IInv, TablesInv, ClientsInv, TypeOK

LEMMA Invariance == Spec => []IInv
BY InitEstablishes, NextKeeps, PTL DEF Spec

-----------------------------------------------------------------------------
(* What is seen from outside a transaction: a row once written stays what   *)
(* it is until it is deleted, so whatever a caller has looked up, and       *)
(* whatever an event says of itself, goes on being true until then.         *)

\* The row that client c has looked up is still the version it was then; its
\* source too, but for core version 1, which RefreshCore rewrites.
HeldOK(c, me) ==
  /\ me.phase \in {"refused", "lost"} => me.gone
  /\ me.phase \in {"bound", "resolved", "running"} =>
       me.lin = <<ScopeOf[c][me.pos], me.name>>
  /\ me.phase \in {"bound", "resolved", "running"} /\ ~ me.gone =>
       rows[me.row] # Null /\ rows[me.row].lin = me.lin
  /\ me.phase \in {"resolved", "running"} /\ ~ me.gone =>
       /\ rows[me.row].ver = me.ver
       /\ rows[me.row].src = me.src \/ (me.lin[2] \in CoreNames /\ me.ver = 1)

HeldStable == \A c \in Clients : HeldOK(c, clients[c])

\* The step leaves row r the version it is.
RowStays(r) ==
  /\ rows'[r] # Null /\ rows'[r].lin = rows[r].lin /\ rows'[r].ver = rows[r].ver
  /\ rows'[r].src = rows[r].src \/ (rows[r].lin[2] \in CoreNames /\ rows[r].ver = 1)

RowsStay == \A r \in RowIds : rows[r] # Null => RowStays(r)

LEMMA NextIsFree == ASSUME NEW S \in SUBSET Nat, NEW i \in Nat, IsNext(i, S) PROVE i \notin S
BY DEF IsNext

LEMMA WriteStays ==
  ASSUME TypeOK, NEW lin \in Lineages, NEW src \in Sources, NEW given,
         WriteVersion(lin, src, given)
  PROVE  RowsStay
<1>1. PICK id \in RowIds, v \in RowIds :
        /\ IsNext(id, Live)
        /\ rows' = [rows EXCEPT ![id] = [lin |-> lin, ver |-> v, src |-> src]]
  BY DEF WriteVersion
<1>2. id \notin Live
  BY <1>1, NextIsFree, StoreAssumption DEF Live, RowIds
<1>3. \A r \in RowIds : r # id => rows'[r] = rows[r]
  BY <1>1 DEF TypeOK
<1> QED BY <1>2, <1>3 DEF RowsStay, RowStays, Live

LEMMA SeedStays ==
  ASSUME TypeOK, NEW t \in Toolboxes, NEW lib \in Shipped, CreateToolbox(t, lib)
  PROVE  RowsStay
<1>1. PICK ids \in [CoreNames -> RowIds] : Allocates(ids) /\ rows' = SeedRows(rows, t, lib, ids)
  BY DEF CreateToolbox
<1>2. \A n \in CoreNames : ids[n] \notin Live
  <2> SUFFICES ASSUME NEW n \in CoreNames, ids[n] \in Live
               PROVE  FALSE
    OBVIOUS
  <2>1. ids[n] < ids[n]
    BY <1>1 DEF Allocates
  <2>2. ids[n] \in Nat
    BY StoreAssumption DEF RowIds
  <2> QED BY <2>1, <2>2
<1>3. \A r \in Live : rows'[r] = rows[r]
  BY <1>1, <1>2 DEF SeedRows, Live
<1> QED BY <1>3 DEF RowsStay, RowStays, Live

LEMMA RefreshStays ==
  ASSUME TypeOK, NEW lib \in Shipped, RefreshCore(lib)
  PROVE  RowsStay
<1> SUFFICES ASSUME NEW r \in RowIds, rows[r] # Null
             PROVE  /\ rows'[r] # Null /\ rows'[r].lin = rows[r].lin /\ rows'[r].ver = rows[r].ver
                    /\ \/ rows'[r].src = rows[r].src
                       \/ rows[r].lin[2] \in CoreNames /\ rows[r].ver = 1
  BY DEF RowsStay, RowStays
<1>1. rows[r] \in Version
  BY DEF TypeOK
<1>2. CASE rows[r].ver = 1 /\ rows[r].lin[2] \in CoreNames
  <2>1. rows'[r] = [rows[r] EXCEPT !.src = lib]
    BY <1>2 DEF RefreshCore
  <2>2. /\ rows'[r] \in Version
        /\ rows'[r].lin = rows[r].lin /\ rows'[r].ver = rows[r].ver
    BY <1>1, <2>1 DEF Version, Sources
  <2> QED BY <1>2, <2>2, NullAssumption
<1>3. CASE ~ (rows[r].ver = 1 /\ rows[r].lin[2] \in CoreNames)
  <2>1. rows'[r] = rows[r]
    BY <1>3 DEF RefreshCore
  <2> QED BY <2>1
<1> QED BY <1>2, <1>3

\* No step but the deletion of a version frees a row or makes it another version.
LEMMA RowsPersist ==
  ASSUME IInv, [Next]_vars,
         ~ \E s \in Scopes, n \in Names, v \in RowIds : DeleteVersion(s, n, v)
  PROVE  RowsStay
<1>1. TypeOK
  BY DEF IInv
<1>2. ASSUME rows' = rows PROVE RowsStay
  BY <1>2 DEF RowsStay, RowStays
<1>3. ASSUME NEW t \in Toolboxes, NEW lib \in Shipped, CreateToolbox(t, lib) PROVE RowsStay
  BY <1>1, <1>3, SeedStays
<1>4. ASSUME NEW lib \in Shipped, RefreshCore(lib) PROVE RowsStay
  BY <1>1, <1>4, RefreshStays
<1>5. ASSUME NEW s \in Scopes, NEW n \in Names, NEW src \in Authored, NEW given \in SUBSET Paths,
             Author(s, n, src, given)
      PROVE  RowsStay
  BY <1>1, <1>5, WriteStays DEF Author, Lineages, Sources
<1>6. ASSUME NEW c \in Clients, NEW src \in Authored, GuardedAuthor(c, src) PROVE RowsStay
  <2>1. clients[c].name \in Names
    BY <1>6 DEF IInv, ClientsOK, HoldsOK, GuardedAuthor, Ended
  <2>2. CASE rows' = rows
    BY <1>2, <2>2
  <2>3. CASE \E t \in Toolboxes : WriteVersion(<<t, clients[c].name>>, src, {})
    BY <1>1, <2>1, <2>3, WriteStays DEF Lineages, Sources
  <2> QED BY <1>6, <2>2, <2>3 DEF GuardedAuthor
<1>7. ASSUME NEW c \in Clients, Probe(c) \/ Fetch(c) \/ Start(c) \/ Finish(c) PROVE rows' = rows
  BY <1>7 DEF Probe, Fetch, Start, Finish, Record
<1> QED BY <1>2, <1>3, <1>4, <1>5, <1>6, <1>7
        DEF Next, Reclassify, DeleteBinding, Rollback, Begin, vars

\* What that deletion does: of one row it removes what names it, and marks who
\* holds it; all the others stay.
LEMMA OneRowGoes ==
  ASSUME TypeOK, NEW s \in Scopes, NEW n \in Names, NEW v \in RowIds, DeleteVersion(s, n, v)
  PROVE  \E r \in RowIds : /\ Marks(r)
                           /\ refs' = {e \in refs : e.row # r}
                           /\ \A q \in RowIds : q # r => rows'[q] = rows[q]
<1>1. PICK r \in Live : /\ refs' = {e \in refs : e.row # r}
                        /\ rows' = [rows EXCEPT ![r] = Null]
                        /\ Marks(r)
  BY DEF DeleteVersion, Marks
<1>2. r \in RowIds /\ \A q \in RowIds : q # r => rows'[q] = rows[q]
  BY <1>1 DEF Live, TypeOK
<1> QED BY <1>1, <1>2

\* An event recorded in a step names a stored version, and says the truth of it
\* unless its call held a version that has been deleted.
RecordedTruly ==
  \A e \in refs' : e \in refs \/ (rows'[e.row] # Null /\ (e.gone \/ SaysTrue(e)'))

LEMMA WriteRecords ==
  ASSUME TypeOK, NEW lin \in Lineages, NEW src \in Sources, NEW given, WriteVersion(lin, src, given)
  PROVE  RecordedTruly
<1>1. PICK id \in RowIds, v \in RowIds :
        /\ rows' = [rows EXCEPT ![id] = [lin |-> lin, ver |-> v, src |-> src]]
        /\ refs' = refs \cup {[lin |-> lin, ver |-> v, row |-> id, gone |-> FALSE]}
  BY DEF WriteVersion
<1>2. rows'[id] = [lin |-> lin, ver |-> v, src |-> src] /\ rows'[id] \in Version
  BY <1>1 DEF TypeOK, Version
<1> QED BY <1>1, <1>2, NullAssumption DEF RecordedTruly, SaysTrue

LEMMA RefsRecorded ==
  ASSUME IInv, HeldStable, [Next]_vars
  PROVE  RecordedTruly
<1>1. TypeOK /\ BindingIntegrity
  BY DEF IInv
<1>2. ASSUME refs' \subseteq refs PROVE RecordedTruly
  BY <1>2 DEF RecordedTruly
<1>3. ASSUME NEW s \in Scopes, NEW n \in Names, NEW src \in Authored, NEW given \in SUBSET Paths,
             Author(s, n, src, given)
      PROVE  RecordedTruly
  BY <1>1, <1>3, WriteRecords DEF Author, Lineages, Sources
<1>4. ASSUME NEW c \in Clients, NEW src \in Authored, GuardedAuthor(c, src) PROVE RecordedTruly
  <2>1. clients[c].name \in Names
    BY <1>4 DEF IInv, ClientsOK, HoldsOK, GuardedAuthor, Ended
  <2>2. CASE refs' = refs
    BY <1>2, <2>2
  <2>3. CASE \E t \in Toolboxes : WriteVersion(<<t, clients[c].name>>, src, {})
    BY <1>1, <2>1, <2>3, WriteRecords DEF Lineages, Sources
  <2> QED BY <1>4, <2>2, <2>3 DEF GuardedAuthor
<1>5. ASSUME NEW t \in Toolboxes, NEW n \in Names, NEW s, Wins(s, n, t), rows' = rows,
             refs' \subseteq refs \cup {[lin |-> <<t, n>>, row |-> bindings[<<t, n>>],
                                         ver |-> rows[bindings[<<t, n>>]].ver, gone |-> FALSE]}
      PROVE  RecordedTruly
  <2>1. bindings[<<t, n>>] # 0 /\ <<t, n>> \in Lineages
    BY <1>5 DEF Wins, Bound, Lineages
  <2>2. rows[bindings[<<t, n>>]] # Null /\ rows[bindings[<<t, n>>]].lin = <<t, n>>
    BY <1>1, <2>1 DEF BindingIntegrity
  <2> QED BY <1>5, <2>2 DEF RecordedTruly, SaysTrue
<1>6. ASSUME NEW s \in Scopes, NEW n \in Names, NEW given \in SUBSET Paths, Reclassify(s, n, given)
      PROVE  RecordedTruly
  <2>1. PICK t \in Toolboxes :
          /\ Wins(s, n, t)
          /\ refs' \subseteq refs \cup {[lin |-> <<t, n>>, row |-> bindings[<<t, n>>],
                                         ver |-> rows[bindings[<<t, n>>]].ver, gone |-> FALSE]}
    BY <1>6 DEF Reclassify
  <2>2. rows' = rows
    BY <1>6 DEF Reclassify
  <2> QED BY <1>5, <2>1, <2>2
<1>7. ASSUME NEW s \in Scopes, NEW n \in Names, DeleteBinding(s, n)
      PROVE  RecordedTruly
  <2>1. PICK t \in Toolboxes :
          /\ Wins(s, n, t)
          /\ refs' \subseteq refs \cup {[lin |-> <<t, n>>, row |-> bindings[<<t, n>>],
                                         ver |-> rows[bindings[<<t, n>>]].ver, gone |-> FALSE]}
    BY <1>7 DEF DeleteBinding
  <2>2. rows' = rows
    BY <1>7 DEF DeleteBinding
  <2> QED BY <1>5, <2>1, <2>2
<1>8. ASSUME NEW c \in Clients, Start(c) \/ Finish(c) PROVE RecordedTruly
  <2>1. /\ clients[c].phase \in {"resolved", "running"} /\ rows' = rows
        /\ \/ refs' = refs
           \/ /\ rows[clients[c].row] # Null
              /\ refs' = refs \cup {[lin |-> clients[c].lin, ver |-> clients[c].ver,
                                     row |-> clients[c].row, gone |-> clients[c].gone]}
    BY <1>8 DEF Start, Finish, Record
  <2>2. HeldOK(c, clients[c])
    BY DEF HeldStable
  <2> QED BY <2>1, <2>2 DEF HeldOK, RecordedTruly, SaysTrue
<1>9. ASSUME NEW s \in Scopes, NEW n \in Names, NEW v \in RowIds, DeleteVersion(s, n, v)
      PROVE  refs' \subseteq refs
  BY <1>9 DEF DeleteVersion
<1> QED BY <1>2, <1>3, <1>4, <1>6, <1>7, <1>8, <1>9
        DEF Next, CreateToolbox, RefreshCore, Rollback, Begin, Probe, Fetch, vars

\* What a caller has looked up stays true when no row changes what it is.
LEMMA HeldStays ==
  ASSUME TypeOK, RowsStay, NEW c \in Clients, NEW me, HoldsOK(c, me), HeldOK(c, me)
  PROVE  HeldOK(c, me)'
<1>1. CASE me.phase \in {"bound", "resolved", "running"}
  <2>1. me.row \in RowIds
    BY <1>1 DEF HoldsOK
  <2> QED BY <1>1, <2>1 DEF HeldOK, RowsStay, RowStays
<1>2. CASE me.phase \notin {"bound", "resolved", "running"}
  BY <1>2 DEF HeldOK
<1> QED BY <1>1, <1>2

\* A caller that ends holds nothing, and its call has not been refused nor lost.
LEMMA FreshHolds ==
  ASSUME NEW c \in Clients, NEW phase \in {"idle", "unknown", "returned", "wrote", "stale"}
  PROVE  HeldOK(c, Fresh(phase))
BY DEF HeldOK, Fresh

LEMMA HeldMoves ==
  ASSUME IInv, HeldStable, NEW c \in Clients, rows' = rows,
         \/ Probe(c) \/ Fetch(c) \/ Start(c) \/ Finish(c)
         \/ \E n \in Names, exact \in 0 .. MaxRow : Begin(c, n, exact)
  PROVE  HeldOK(c, clients[c])'
<1> DEFINE me == clients[c]
<1>1. /\ TypeOK /\ BindingIntegrity /\ clients[c] \in Client
      /\ HoldsOK(c, clients[c]) /\ HeldOK(c, clients[c])
  BY DEF IInv, TypeOK, ClientsOK, HeldStable
<1>2. \A record : Become(c, record) => clients'[c] = record
  BY <1>1 DEF Become, TypeOK
<1>3. ASSUME NEW n \in Names, NEW exact \in 0 .. MaxRow, Begin(c, n, exact)
      PROVE  HeldOK(c, clients'[c])
  <2>1. clients'[c] = [Fresh("probing") EXCEPT !.name = n, !.exact = exact, !.pos = 1]
    BY <1>2, <1>3 DEF Begin
  <2>2. clients'[c].phase = "probing"
    BY <2>1 DEF Fresh
  <2> QED BY <2>2 DEF HeldOK
<1>4. ASSUME Probe(c) PROVE HeldOK(c, clients'[c])
  <2>1. me.phase = "probing" /\ me.name \in Names /\ me.pos \in DOMAIN ScopeOf[c]
    BY <1>1, <1>4 DEF Probe, HoldsOK, Ended
  <2>2. ScopeOf[c][me.pos] \in Toolboxes
    BY <2>1, StoreAssumption
  <2> DEFINE lin == <<ScopeOf[c][me.pos], me.name>>
  <2>3. lin \in Lineages
    BY <2>1, <2>2 DEF Lineages
  <2>4. CASE /\ bindings[lin] # 0
             /\ Become(c, [me EXCEPT !.phase = "bound", !.lin = lin, !.row = bindings[lin]])
    <3>1. clients'[c] = [me EXCEPT !.phase = "bound", !.lin = lin, !.row = bindings[lin]]
      BY <1>2, <2>4
    <3>2. /\ clients'[c].phase = "bound" /\ clients'[c].lin = lin
          /\ clients'[c].row = bindings[lin] /\ clients'[c].pos = me.pos
          /\ clients'[c].name = me.name
      BY <1>1, <3>1 DEF Client
    <3>3. rows[bindings[lin]] # Null /\ rows[bindings[lin]].lin = lin
      BY <1>1, <2>3, <2>4 DEF BindingIntegrity
    <3> QED BY <3>2, <3>3 DEF HeldOK
  <2>5. CASE Become(c, [me EXCEPT !.pos = @ + 1])
    <3>1. clients'[c].phase = "probing"
      BY <1>1, <1>2, <2>1, <2>5 DEF Client
    <3> QED BY <3>1 DEF HeldOK
  <2>6. CASE Become(c, Fresh("unknown"))
    BY <1>2, <2>6, FreshHolds
  <2> QED BY <1>4, <2>4, <2>5, <2>6 DEF Probe
<1>5. ASSUME Fetch(c) PROVE HeldOK(c, clients'[c])
  <2>1. me.phase = "bound"
    BY <1>5 DEF Fetch
  <2>2. ASSUME NEW r \in Fetched(me),
               Become(c, [me EXCEPT !.phase = "resolved", !.row = r,
                                    !.ver = rows[r].ver, !.src = rows[r].src,
                                  !.gone = @ /\ me.exact = 0])
        PROVE  HeldOK(c, clients'[c])
    <3>1. /\ clients'[c].phase = "resolved" /\ clients'[c].row = r
          /\ clients'[c].lin = me.lin /\ clients'[c].pos = me.pos /\ clients'[c].name = me.name
          /\ clients'[c].ver = rows[r].ver /\ clients'[c].src = rows[r].src
          /\ clients'[c].gone = (me.gone /\ me.exact = 0)
      <4>1. PICK b \in BOOLEAN : b = (me.gone /\ me.exact = 0)
        OBVIOUS
      <4>2. clients'[c] = [me EXCEPT !.phase = "resolved", !.row = r, !.ver = rows[r].ver,
                                     !.src = rows[r].src, !.gone = b]
        BY <1>2, <2>2, <4>1
      <4>3. me \in Client
        BY <1>1
      <4> QED BY ONLY <4>1, <4>2, <4>3 DEF Client
    <3>2. rows[r] # Null
      BY <2>2 DEF Fetched, RowsOf, Live
    <3>3. (~ (me.gone /\ me.exact = 0)) => rows[r].lin = me.lin
      <4>1. CASE me.exact = 0
        BY <4>1, <1>1, <2>1, <2>2 DEF Fetched, HeldOK
      <4>2. CASE me.exact # 0
        BY <4>2, <2>2 DEF Fetched, RowsOf
      <4> QED BY <4>1, <4>2
    <3>4. me.lin = <<ScopeOf[c][me.pos], me.name>>
      BY <1>1, <2>1 DEF HeldOK
    <3> QED BY <3>1, <3>2, <3>3, <3>4 DEF HeldOK
  <2>3. CASE Become(c, Fresh("unknown"))
    BY <1>2, <2>3, FreshHolds
  <2> QED BY <1>5, <2>2, <2>3 DEF Fetch
<1>6. ASSUME NEW bad \in {"refused", "lost"}, rows[me.row] = Null,
             me.phase \in {"resolved", "running"},
             Become(c, [Fresh(bad) EXCEPT !.gone = me.gone])
      PROVE  HeldOK(c, clients'[c])
  <2>1. clients'[c] = [Fresh(bad) EXCEPT !.gone = me.gone]
    BY <1>2, <1>6
  <2>2. clients'[c].phase = bad /\ clients'[c].gone = me.gone
    BY <2>1 DEF Fresh
  <2>3. me.gone
    BY <1>1, <1>6 DEF HeldOK
  <2> QED BY <2>2, <2>3 DEF HeldOK
<1>7. ASSUME Start(c) \/ Finish(c) PROVE HeldOK(c, clients'[c])
  <2>1. CASE Become(c, Fresh("returned"))
    BY <1>2, <2>1, FreshHolds
  <2>2. CASE Become(c, [me EXCEPT !.phase = "running"]) /\ me.phase = "resolved"
    <3>1. clients'[c] = [me EXCEPT !.phase = "running"]
      BY <1>2, <2>2
    <3>2. /\ clients'[c].phase = "running" /\ clients'[c].row = me.row
          /\ clients'[c].lin = me.lin /\ clients'[c].pos = me.pos /\ clients'[c].name = me.name
          /\ clients'[c].ver = me.ver /\ clients'[c].src = me.src /\ clients'[c].gone = me.gone
      BY <1>1, <3>1 DEF Client
    <3> QED BY <1>1, <2>2, <3>2 DEF HeldOK
  <2> QED BY <1>6, <1>7, <2>1, <2>2 DEF Start, Finish, Record
<1>8. HeldOK(c, clients'[c])
  BY <1>3, <1>4, <1>5, <1>6, <1>7
<1> QED BY <1>8 DEF HeldOK

OutsideInv == IInv /\ IdentityUnlessDeleted /\ HeldStable

\* A step that leaves the rows what they are.
LEMMA StayingKeeps ==
  ASSUME OutsideInv, [Next]_vars, RowsStay
  PROVE  IdentityUnlessDeleted' /\ HeldStable'
<1>1. IInv /\ IdentityUnlessDeleted /\ HeldStable /\ TypeOK
  BY DEF OutsideInv, IInv
<1>2. IdentityUnlessDeleted'
  <2> SUFFICES ASSUME NEW e \in refs'
               PROVE  rows'[e.row] # Null /\ (e.gone \/ SaysTrue(e)')
    BY DEF IdentityUnlessDeleted
  <2>1. CASE e \in refs
    <3>1. e.row \in RowIds
      BY <1>1, <2>1 DEF TypeOK, Ref
    <3>2. rows[e.row] # Null /\ (e.gone \/ SaysTrue(e))
      BY <1>1, <2>1 DEF IdentityUnlessDeleted
    <3>3. RowStays(e.row)
      BY <3>1, <3>2 DEF RowsStay
    <3> QED BY <3>2, <3>3 DEF RowStays, SaysTrue
  <2>2. CASE e \notin refs
    BY <1>1, <2>2, RefsRecorded DEF RecordedTruly
  <2> QED BY <2>1, <2>2
<1>3. ASSUME NEW c \in Clients PROVE HeldOK(c, clients[c])'
  <2>1. HoldsOK(c, clients[c]) /\ HeldOK(c, clients[c])
    BY <1>1 DEF IInv, ClientsOK, HeldStable
  <2>2. CASE clients'[c] = clients[c]
    <3>1. PICK me : me = clients[c]
      OBVIOUS
    <3>2. HeldOK(c, me)'
      BY <1>1, <2>1, <3>1, HeldStays
    <3> QED BY <2>2, <3>1, <3>2 DEF HeldOK
  <2>3. CASE \/ Probe(c) \/ Fetch(c) \/ Start(c) \/ Finish(c)
             \/ \E n \in Names, exact \in 0 .. MaxRow : Begin(c, n, exact)
    <3>1. rows' = rows
      BY <2>3 DEF Probe, Fetch, Start, Finish, Begin, Record
    <3> QED BY <1>1, <2>3, <3>1, HeldMoves
  <2>4. ASSUME NEW src \in Authored, GuardedAuthor(c, src) PROVE HeldOK(c, clients[c])'
    <3>1. clients'[c].phase \in {"wrote", "stale"}
      BY <1>1, <2>4 DEF GuardedAuthor, Become, Fresh, TypeOK
    <3> QED BY <3>1 DEF HeldOK
  <2>5. ASSUME NEW d \in Clients, d # c,
               \/ Probe(d) \/ Fetch(d) \/ Start(d) \/ Finish(d)
               \/ \E n \in Names, exact \in 0 .. MaxRow : Begin(d, n, exact)
               \/ \E src \in Authored : GuardedAuthor(d, src)
        PROVE  clients'[c] = clients[c]
    BY <1>1, <2>5 DEF Probe, Fetch, Start, Finish, Begin, Record, GuardedAuthor, Become, TypeOK
  <2>6. ASSUME UNCHANGED clients PROVE clients'[c] = clients[c]
    BY <2>6
  <2>7. ASSUME NEW s \in Scopes, NEW n \in Names, NEW v \in RowIds, DeleteVersion(s, n, v)
        PROVE  HeldOK(c, clients[c])'
    <3>1. PICK r \in Live : Marks(r)
      BY <2>7 DEF DeleteVersion, Marks
    <3>2. /\ clients'[c].phase = clients[c].phase /\ clients'[c].name = clients[c].name
          /\ clients'[c].pos = clients[c].pos /\ clients'[c].lin = clients[c].lin
          /\ clients'[c].row = clients[c].row /\ clients'[c].ver = clients[c].ver
          /\ clients'[c].src = clients[c].src
          /\ clients'[c].gone = (clients[c].gone \/ clients[c].row = r)
      BY <1>1, <3>1, Marked DEF TypeOK
    <3>3. PICK me : me = clients[c]
      OBVIOUS
    <3>4. HeldOK(c, me)'
      BY <1>1, <2>1, <3>3, HeldStays
    <3> QED BY <3>2, <3>3, <3>4 DEF HeldOK
  <2> QED BY <2>2, <2>3, <2>4, <2>5, <2>6, <2>7
          DEF Next, CreateToolbox, RefreshCore, Author, Reclassify,
              DeleteBinding, Rollback, vars
<1> QED BY <1>2, <1>3 DEF HeldStable

\* The deletion of a version, which frees one row.
LEMMA FreeingKeeps ==
  ASSUME OutsideInv, NEW s \in Scopes, NEW n \in Names, NEW v \in RowIds,
         DeleteVersion(s, n, v)
  PROVE  IdentityUnlessDeleted' /\ HeldStable'
<1>1. IInv /\ IdentityUnlessDeleted /\ HeldStable /\ TypeOK
  BY DEF OutsideInv, IInv
<1>2. PICK r \in RowIds : /\ Marks(r)
                          /\ refs' = {e \in refs : e.row # r}
                          /\ \A q \in RowIds : q # r => rows'[q] = rows[q]
  BY <1>1, OneRowGoes
<1>3. IdentityUnlessDeleted'
  <2> SUFFICES ASSUME NEW e \in refs'
               PROVE  rows'[e.row] # Null /\ (e.gone \/ SaysTrue(e)')
    BY DEF IdentityUnlessDeleted
  <2>1. e \in refs /\ e.row # r
    BY <1>2
  <2>2. e.row \in RowIds
    BY <1>1, <2>1 DEF TypeOK, Ref
  <2>3. rows'[e.row] = rows[e.row]
    BY <1>2, <2>1, <2>2
  <2> QED BY <1>1, <2>1, <2>3 DEF IdentityUnlessDeleted, SaysTrue
<1>4. ASSUME NEW c \in Clients PROVE HeldOK(c, clients[c])'
  <2>1. HoldsOK(c, clients[c]) /\ HeldOK(c, clients[c])
    BY <1>1 DEF IInv, ClientsOK, HeldStable
  <2>2. /\ clients'[c].phase = clients[c].phase /\ clients'[c].name = clients[c].name
        /\ clients'[c].pos = clients[c].pos /\ clients'[c].lin = clients[c].lin
        /\ clients'[c].row = clients[c].row /\ clients'[c].ver = clients[c].ver
        /\ clients'[c].src = clients[c].src
        /\ clients'[c].gone = (clients[c].gone \/ clients[c].row = r)
    BY <1>1, <1>2, Marked DEF TypeOK
  <2>3. CASE clients[c].phase \notin {"bound", "resolved", "running"}
    BY <2>1, <2>2, <2>3 DEF HeldOK
  <2>4. CASE clients[c].phase \in {"bound", "resolved", "running"}
    <3>1. clients[c].row \in RowIds
      BY <2>1, <2>4 DEF HoldsOK
    <3>2. clients[c].row # r => rows'[clients[c].row] = rows[clients[c].row]
      BY <1>2, <3>1
    <3> QED BY <2>1, <2>2, <2>4, <3>2 DEF HeldOK
  <2> QED BY <2>3, <2>4
<1> QED BY <1>3, <1>4 DEF HeldStable

LEMMA OutsideKeeps ==
  ASSUME OutsideInv, [Next]_vars
  PROVE  OutsideInv'
<1>1. IInv /\ IInv'
  BY NextKeeps DEF OutsideInv
<1>2. CASE \E s \in Scopes, n \in Names, v \in RowIds : DeleteVersion(s, n, v)
  BY <1>1, <1>2, FreeingKeeps DEF OutsideInv
<1>3. CASE ~ \E s \in Scopes, n \in Names, v \in RowIds : DeleteVersion(s, n, v)
  BY <1>1, <1>3, RowsPersist, StayingKeeps DEF OutsideInv
<1> QED BY <1>2, <1>3

LEMMA OutsideHolds == Spec => []OutsideInv
<1>1. Init => OutsideInv
  <2> SUFFICES ASSUME Init
               PROVE  IdentityUnlessDeleted /\ HeldStable
    BY InitEstablishes DEF OutsideInv
  <2>1. \A c \in Clients : clients[c] = Fresh("idle")
    BY DEF Init
  <2> QED BY <2>1, FreshHolds DEF Init, IdentityUnlessDeleted, HeldStable
<1>2. OutsideInv /\ [Next]_vars => OutsideInv'
  BY OutsideKeeps
<1> QED BY <1>1, <1>2, PTL DEF Spec

-----------------------------------------------------------------------------
(* What a write replaces and what it makes visible.                        *)

\* The version numbers of a lineage tell its rows apart, so the active version with
\* the number that was viewed is the row that was viewed.
LEMMA ViewedIsReplaced ==
  ASSUME OutsideInv, NEW c \in Clients, [Next]_vars,
         Writes(c), ~ clients[c].gone, SameTool(c)
  PROVE  SameSource(c)
<1> DEFINE me == clients[c]
<1>1. /\ TypeOK /\ BindingIntegrity /\ LineageIntact /\ clients[c] \in Client
      /\ HoldsOK(c, clients[c]) /\ HeldOK(c, clients[c])
      /\ clients[c].phase = "resolved" /\ clients'[c].phase = "wrote"
  BY DEF OutsideInv, IInv, TypeOK, ClientsOK, HeldStable, Writes
<1>2. PICK src \in Authored : GuardedAuthor(c, src)
  <2>1. \A record : Become(c, record) => clients'[c] = record
    BY <1>1 DEF Become, TypeOK
  <2>2. ~ Probe(c) /\ ~ Fetch(c) /\ ~ Finish(c)
    BY <1>1 DEF Probe, Fetch, Finish
  <2>3. ~ Start(c)
    <3> SUFFICES ASSUME Start(c)
                 PROVE  FALSE
      OBVIOUS
    <3>1. \/ clients'[c] = [clients[c] EXCEPT !.phase = "running"]
          \/ clients'[c] = [Fresh("refused") EXCEPT !.gone = clients[c].gone]
      BY <2>1 DEF Start, Record
    <3>2. clients'[c].phase \in {"running", "refused"}
      BY <1>1, <3>1 DEF Client, Fresh
    <3> QED BY <1>1, <3>2
  <2>4. ASSUME NEW n \in Names, NEW exact \in 0 .. MaxRow, Begin(c, n, exact) PROVE FALSE
    BY <1>1, <2>4 DEF Begin, Ended
  <2>5. ASSUME NEW d \in Clients, d # c,
               \/ Probe(d) \/ Fetch(d) \/ Start(d) \/ Finish(d)
               \/ \E n \in Names, exact \in 0 .. MaxRow : Begin(d, n, exact)
               \/ \E src \in Authored : GuardedAuthor(d, src)
        PROVE  clients'[c] = clients[c]
    BY <1>1, <2>5 DEF Probe, Fetch, Start, Finish, Begin, Record, GuardedAuthor, Become, TypeOK
  <2>6. clients'[c].phase # clients[c].phase
    BY <1>1
  <2>7. ASSUME NEW s \in Scopes, NEW n \in Names, NEW v \in RowIds, DeleteVersion(s, n, v)
        PROVE  clients'[c].phase = clients[c].phase
    <3>1. PICK r \in Live : Marks(r)
      BY <2>7 DEF DeleteVersion, Marks
    <3> QED BY <1>1, <3>1, Marked DEF TypeOK
  <2> QED BY <2>2, <2>3, <2>4, <2>5, <2>6, <2>7
          DEF Next, CreateToolbox, RefreshCore, Author, Reclassify,
              DeleteBinding, Rollback, vars
<1>3. PICK t \in Toolboxes :
        /\ IsTarget(ScopeOf[c], me.name, t)
        /\ \/ /\ BaseMatches(<<t, me.name>>, me.ver)
              /\ clients'[c].lin = <<t, me.name>>
           \/ clients'[c].phase = "stale"
  <2>1. \A record : Become(c, record) => clients'[c] = record
    BY <1>1 DEF Become, TypeOK
  <2>2. \A l : [Fresh("wrote") EXCEPT !.lin = l].lin = l
    BY DEF Fresh
  <2>3. Fresh("stale").phase = "stale"
    BY DEF Fresh
  <2> QED BY <1>2, <2>1, <2>2, <2>3 DEF GuardedAuthor
<1>4. /\ ScopeOf[c] \in Scopes /\ me.name \in Names
      /\ me.pos \in DOMAIN ScopeOf[c] /\ me.ver \in RowIds /\ me.row \in RowIds
      /\ me.lin = <<ScopeOf[c][me.pos], me.name>>
  BY <1>1, StoreAssumption DEF HoldsOK, HeldOK, Ended
<1>5. PICK l \in Lineages : l = <<t, me.name>>
  BY <1>4 DEF Lineages
<1>6. clients'[c].lin = l /\ BaseMatches(l, me.ver)
  BY <1>1, <1>3, <1>5
<1>7. me.lin = l
  BY <1>6 DEF SameTool
<1>8. rows[me.row] # Null /\ rows[me.row].lin = l /\ rows[me.row].ver = me.ver
  BY <1>1, <1>7 DEF HeldOK
<1>9. bindings[l] # 0 /\ rows[bindings[l]].ver = me.ver
  BY <1>4, <1>6 DEF BaseMatches, RowIds
<1>10. bindings[l] \in RowIds
  BY <1>1, <1>9, StoreAssumption DEF TypeOK, RowIds
<1>11. l \in lineages /\ rows[bindings[l]] # Null /\ rows[bindings[l]].lin = l
  BY <1>1, <1>9 DEF BindingIntegrity
<1>12. bindings[l] = me.row
  BY <1>1, <1>4, <1>8, <1>9, <1>10, <1>11 DEF LineageIntact, RowsOf, Live
<1> QED BY <1>1, <1>6, <1>7, <1>12 DEF HeldOK, SameSource

\* Every binding is free or names a row that is there, so one that names a row that
\* was free is of this step's write.
LEMMA WriteIsSeen ==
  ASSUME IInv, NEW t0 \in Toolboxes, NEW n0 \in Names, NEW src, NEW given,
         WriteVersion(<<t0, n0>>, src, given)
  PROVE  (\A t \in Toolboxes, n \in Names : VisibleAt(t, n)) /\ NamesakesStay
<1>1. TypeOK /\ BindingIntegrity /\ <<t0, n0>> \in Lineages
  BY DEF IInv, Lineages
<1>2. PICK id \in RowIds : bindings' = [bindings EXCEPT ![<<t0, n0>>] = id]
  BY DEF WriteVersion
<1>3. /\ bindings'[<<t0, n0>>] = id /\ id # 0
      /\ \A l \in Lineages : l # <<t0, n0>> => bindings'[l] = bindings[l]
  BY <1>1, <1>2, StoreAssumption DEF TypeOK, RowIds
<1>4. NamesakesStay
  BY <1>3 DEF NamesakesStay
<1>5. ASSUME NEW t \in Toolboxes, NEW n \in Names, bindings'[<<t, n>>] \in RowIds \ Live,
             NEW s \in Scopes, IsTarget(s, n, t)
      PROVE  Wins(s, n, t)'
  <2>1. <<t, n>> = <<t0, n0>>
    <3> SUFFICES ASSUME <<t, n>> # <<t0, n0>>
                 PROVE  FALSE
      OBVIOUS
    <3>1. <<t, n>> \in Lineages /\ bindings[<<t, n>>] \in RowIds \ Live
      BY <1>3, <1>5 DEF Lineages
    <3>2. bindings[<<t, n>>] # 0
      BY <3>1, StoreAssumption DEF RowIds
    <3> QED BY <1>1, <3>1, <3>2 DEF BindingIntegrity, Live
  <2>2. Bound(t, n)'
    BY <1>3, <2>1 DEF Bound
  <2>3. \A u \in Toolboxes : u # t => (Bound(u, n)' <=> Bound(u, n))
    <3> SUFFICES ASSUME NEW u \in Toolboxes, u # t
                 PROVE  Bound(u, n)' <=> Bound(u, n)
      OBVIOUS
    <3>1. <<u, n>> \in Lineages /\ <<u, n>> # <<t0, n0>>
      BY <2>1 DEF Lineages
    <3> QED BY <1>3, <3>1 DEF Bound
  <2>4. s \in Seq(Toolboxes) /\ s # <<>>
    BY StoreAssumption
  <2>5. \A i \in DOMAIN s : s[i] \in Toolboxes
    BY <2>4
  <2>6. CASE HasWinner(s, n)
    <3>1. PICK i \in DOMAIN s : /\ s[i] = t /\ Bound(t, n)
                                /\ \A j \in 1 .. (i - 1) : ~ Bound(s[j], n)
      BY <1>5, <2>6 DEF IsTarget, Wins
    <3>2. \A j \in 1 .. (i - 1) : j \in DOMAIN s
      BY <2>4, <3>1
    <3>3. \A j \in 1 .. (i - 1) : ~ Bound(s[j], n)'
      <4> SUFFICES ASSUME NEW j \in 1 .. (i - 1)
                   PROVE  ~ Bound(s[j], n)'
        OBVIOUS
      <4>1. ~ Bound(s[j], n) /\ s[j] # t /\ s[j] \in Toolboxes
        BY <2>5, <3>1, <3>2
      <4>2. Bound(s[j], n)' <=> Bound(s[j], n)
        BY <2>3, <4>1
      <4> QED BY <4>1, <4>2
    <3> QED BY <2>2, <3>1, <3>3 DEF Wins
  <2>7. CASE ~ HasWinner(s, n)
    <3>1. t = s[1] /\ 1 \in DOMAIN s
      BY <1>5, <2>4, <2>7 DEF IsTarget
    <3>2. \A j \in 1 .. (1 - 1) : ~ Bound(s[j], n)'
      OBVIOUS
    <3> QED BY <2>2, <3>1, <3>2 DEF Wins
  <2> QED BY <2>6, <2>7
<1> QED BY <1>4, <1>5 DEF VisibleAt

\* No other step names a free row.
LEMMA OthersAreSilent ==
  ASSUME IInv, NEW k \in Lineages, NEW q, q \in Live \cup {0},
         bindings' = bindings \/ bindings' = [bindings EXCEPT ![k] = q]
  PROVE  (\A t \in Toolboxes, n \in Names : VisibleAt(t, n)) /\ NamesakesStay
<1>1. TypeOK /\ BindingIntegrity /\ bindings \in [Lineages -> 0 .. MaxRow]
  BY DEF IInv, TypeOK
<1>2. \A l \in Lineages : l # k => bindings'[l] = bindings[l]
  BY <1>1
<1>3. bindings'[k] \in {bindings[k], q}
  BY <1>1
<1>4. \A l \in Lineages : bindings[l] \in Live \cup {0}
  BY <1>1 DEF BindingIntegrity, Live, RowIds, TypeOK
<1>5. 0 \notin RowIds
  BY StoreAssumption DEF RowIds
<1>6. \A l \in Lineages : bindings'[l] \notin RowIds \ Live
  BY <1>2, <1>3, <1>4, <1>5
<1>7. NamesakesStay
  BY <1>2 DEF NamesakesStay
<1> QED BY <1>6, <1>7 DEF VisibleAt, Lineages

LEMMA EveryWriteIsSeen ==
  ASSUME IInv, [Next]_vars, toolboxes' = toolboxes
  PROVE  (\A t \in Toolboxes, n \in Names : VisibleAt(t, n)) /\ NamesakesStay
<1> DEFINE Goal == (\A t \in Toolboxes, n \in Names : VisibleAt(t, n)) /\ NamesakesStay
<1>1. ASSUME bindings' = bindings PROVE Goal
  <2>1. CASE Lineages = {}
    <3>1. \A t \in Toolboxes, n \in Names : <<t, n>> \in Lineages
      BY DEF Lineages
    <3> QED BY <2>1, <3>1 DEF NamesakesStay
  <2>2. CASE Lineages # {}
    <3>1. PICK k \in Lineages : TRUE
      BY <2>2
    <3> QED BY <1>1, <3>1, OthersAreSilent
  <2> QED BY <2>1, <2>2
<1>2. ASSUME NEW t \in Toolboxes, NEW lib \in Shipped, CreateToolbox(t, lib) PROVE FALSE
  BY <1>2 DEF CreateToolbox
<1>3. ASSUME NEW s \in Scopes, NEW n \in Names, NEW src \in Authored, NEW given \in SUBSET Paths,
             Author(s, n, src, given)
      PROVE  Goal
  BY <1>3, WriteIsSeen DEF Author
<1>4. ASSUME NEW c \in Clients, NEW src \in Authored, GuardedAuthor(c, src) PROVE Goal
  <2>1. clients[c].name \in Names
    BY <1>4 DEF IInv, ClientsOK, HoldsOK, GuardedAuthor, Ended
  <2>2. CASE bindings' = bindings
    BY <1>1, <2>2
  <2>3. CASE \E t \in Toolboxes : WriteVersion(<<t, clients[c].name>>, src, {})
    BY <2>1, <2>3, WriteIsSeen
  <2> QED BY <1>4, <2>2, <2>3 DEF GuardedAuthor
<1>5. ASSUME NEW s \in Scopes, NEW n \in Names, NEW v \in RowIds, DeleteVersion(s, n, v)
      PROVE  Goal
  <2>1. PICK t \in Toolboxes : \/ \E q \in Live : bindings' = [bindings EXCEPT ![<<t, n>>] = q]
                               \/ bindings' = bindings
    BY <1>5 DEF DeleteVersion
  <2> QED BY <1>1, <2>1, OthersAreSilent DEF Lineages
<1>6. ASSUME NEW s \in Scopes, NEW n \in Names, DeleteBinding(s, n) PROVE Goal
  BY <1>6, OthersAreSilent DEF DeleteBinding, Lineages
<1>7. ASSUME NEW t \in Toolboxes, NEW n \in Names, NEW v \in RowIds, Rollback(t, n, v) PROVE Goal
  BY <1>7, OthersAreSilent DEF Rollback, RowsOf, Lineages
<1> HIDE DEF Goal
<1>8. Goal
  BY <1>1, <1>2, <1>3, <1>4, <1>5, <1>6, <1>7
     DEF Next, RefreshCore, Reclassify, Begin, Probe, Fetch, Start, Finish, Record, vars
<1> QED BY <1>8 DEF Goal

-----------------------------------------------------------------------------
(* The theorems.                                                           *)

\* Every table and caller keeps its types, under every interleaving of lookups
\* and transactions (kernel.py, write_tool to rollback).
THEOREM TypeCorrect == Spec => []TypeOK
<1>1. IInv => TypeOK
  BY DEF IInv
<1> QED BY <1>1, Invariance, PTL

\* A binding never names a missing version nor one of another tool or toolbox,
\* though rowids freed by delete_tool are handed out again.
THEOREM BindingsSound == Spec => []BindingIntegrity
<1>1. IInv => BindingIntegrity
  BY DEF IInv
<1> QED BY <1>1, Invariance, PTL

\* No order of writes, deletions and rollbacks leaves a lineage without a
\* version, with two versions of one number, or unfiled.
THEOREM LineagesSurvive == Spec => []LineageIntact
<1>1. IInv => LineageIntact
  BY DEF IInv
<1> QED BY <1>1, Invariance, PTL

\* Core tools stay bound and their version 1 stays shipped source, in every
\* toolbox, whatever callers author, delete or roll back.
THEOREM CoreAlwaysRecoverable == Spec => []CoreRecoverable
<1>1. IInv => CoreRecoverable
  BY DEF IInv
<1> QED BY <1>1, Invariance, PTL

\* What an event says of its tool goes on being true, rowids and their reuse
\* notwithstanding, unless its call recorded it after its version was deleted; and
\* no event outlives the version it names (append_event, delete_tool).
THEOREM IdentitiesStay == Spec => []IdentityUnlessDeleted
<1>1. OutsideInv => IdentityUnlessDeleted
  BY DEF OutsideInv
<1> QED BY <1>1, OutsideHolds, PTL

\* No call that has resolved its tool is refused or loses its outcome, whatever
\* transactions fall between its statements, unless one of them deleted the version
\* it had resolved (call_tool).
THEOREM ResultsAreKept == Spec => []ResultUnlessDeleted
<1>1. OutsideInv => ResultUnlessDeleted
  BY DEF OutsideInv, HeldStable, HeldOK, ResultUnlessDeleted
<1> QED BY <1>1, OutsideHolds, PTL

\* A guarded write that reaches the tool its caller has viewed replaces what was
\* viewed, though view and write are apart, unless the version viewed was deleted
\* between them (write_tool, base_version).
THEOREM GuardedWritesAreSafe == Spec => GuardedUnlessDeleted
<1>1. OutsideInv /\ [Next]_vars =>
        [\A c \in Clients :
           (Writes(c) /\ ~ clients[c].gone /\ SameTool(c)) => SameSource(c)]_vars
  BY ViewedIsReplaced
<1> QED BY <1>1, OutsideHolds, PTL DEF GuardedUnlessDeleted, Spec

\* Every write through a selection is what the selection resolves next, and touches
\* no namesake elsewhere (_resolve and the target of write_tool).
THEOREM WritesAreVisible == Spec => WriteVisible
<1>1. IInv /\ [Next]_vars =>
        [toolboxes' = toolboxes =>
           /\ \A t \in Toolboxes, n \in Names : VisibleAt(t, n)
           /\ NamesakesStay]_vars
  BY EveryWriteIsSeen
<1> QED BY <1>1, Invariance, PTL DEF WriteVisible, Spec
=============================================================================
