------------------------------ MODULE ToolStore ------------------------------
(***************************************************************************)
(* The tool tables of the Mechagnome kernel (kernel.py): toolboxes, tool   *)
(* lineages, tool versions, bindings, namespaces, and the tool identity    *)
(* that the rows of the events table carry.  Every mutation is one BEGIN   *)
(* IMMEDIATE transaction, hence one action.  A lookup made outside such a  *)
(* transaction (call_tool, view_tool) is a sequence of SELECTs, each an    *)
(* action of its own, so a mutation may fall between any two of them, or   *)
(* between the lookup and the rows the caller appends afterwards.          *)
(*                                                                         *)
(* A lineage is UNIQUE(toolbox, name), so it is the pair itself.  An       *)
(* explicit toolbox argument of write_tool or delete_tool resolves like a  *)
(* scope of that one toolbox; MC modules list singleton scopes for it.     *)
(* Event rows are kept as the identity columns (tool, version, foreign     *)
(* key) of those whose tool_version_id is not NULL; their order is not     *)
(* this module's matter.                                                   *)
(***************************************************************************)
EXTENDS Naturals, Sequences, FiniteSets

CONSTANTS
  Toolboxes,       \* toolbox ids that may be created
  Names,           \* tool names
  CoreNames,       \* the names the library ships (CORE_NAMES)
  Shipped,         \* sources a release of the library ships
  Authored,        \* sources write_tool callers submit
  Paths,           \* namespace paths callers choose
  Scopes,          \* ordered toolbox selections
  Clients,         \* concurrent callers of call_tool or view_tool
  ScopeOf,         \* the selection each client runs under
  MaxRow,          \* bound: largest tool_versions.id, and so largest version
  Null

ASSUME StoreAssumption ==
  /\ CoreNames \subseteq Names
  /\ Shipped \cap Authored = {}
  /\ Scopes \subseteq Seq(Toolboxes) \ {<<>>}
  /\ ScopeOf \in [Clients -> Scopes]
  /\ MaxRow \in Nat

VARIABLES
  toolboxes,   \* table toolboxes
  lineages,    \* table tool_lineages
  rows,        \* table tool_versions, by rowid; Null when the id is free
  bindings,    \* table bindings, by (toolbox, name); 0 when unbound
  namespaces,  \* table tool_namespaces, by lineage
  refs,        \* events rows with a tool_version_id: what they say they are
  clients      \* the callers' own state, outside the database

vars == <<toolboxes, lineages, rows, bindings, namespaces, refs, clients>>

Lineages == Toolboxes \X Names
RowIds   == 1 .. MaxRow
Sources  == Shipped \cup Authored
AllPaths == Paths \cup {"core", "uncategorized"}
Version  == [lin : Lineages, ver : RowIds, src : Sources]

\* gone is history: the version was deleted while the call that recorded it held it.
Ref == [lin : Lineages, ver : RowIds, row : RowIds, gone : BOOLEAN]

ASSUME NullAssumption ==
  /\ Null \notin Lineages
  /\ Null \notin Names \cup Sources
  /\ Null \notin Version

\* Phases in which a client holds nothing of the store.
Ended == {"idle", "unknown", "refused", "returned", "lost", "wrote", "stale"}
Phases == Ended \cup {"probing", "bound", "resolved", "running"}

\* gone is history: the version in the client's hands has been deleted since its
\* last SELECT, or the call that had it ended so.
Client ==
  [phase : Phases, name : Names \cup {Null}, exact : 0 .. MaxRow,
   pos : Nat, lin : Lineages \cup {Null}, row : 0 .. MaxRow,
   ver : 0 .. MaxRow, src : Sources \cup {Null}, gone : BOOLEAN]

Fresh(phase) ==
  [phase |-> phase, name |-> Null, exact |-> 0, pos |-> 0, lin |-> Null,
   row |-> 0, ver |-> 0, src |-> Null, gone |-> FALSE]

-----------------------------------------------------------------------------
(* Reading the tables.                                                     *)

Live == {r \in RowIds : rows[r] # Null}
RowsOf(lin) == {r \in Live : rows[r].lin = lin}
VersionsOf(lin) == {rows[r].ver : r \in RowsOf(lin)}

\* i is what MAX(column) + 1 yields over S; 1 over an empty table.
IsNext(i, S) == (\A m \in S : m < i) /\ (i = 1 \/ i - 1 \in S)

Bound(t, n) == bindings[<<t, n>>] # 0

\* The first selected toolbox that binds n, as _resolve scans them.
Wins(scope, n, t) ==
  \E i \in DOMAIN scope :
    /\ scope[i] = t
    /\ Bound(t, n)
    /\ \A j \in 1 .. (i - 1) : ~ Bound(scope[j], n)

HasWinner(scope, n) == \E i \in DOMAIN scope : Bound(scope[i], n)

\* Mutant: the scan of the selection keeps its last match or toolbox.
LastIsTarget(scope, n, t) == t = scope[Len(scope)]

\* Where write_tool puts n: the winner's toolbox, or the primary one.
IsTarget(scope, n, t) ==
  IF HasWinner(scope, n) THEN Wins(scope, n, t) ELSE t = scope[1]

Usable(scope) == \A i \in DOMAIN scope : scope[i] \in toolboxes

-----------------------------------------------------------------------------
(* Toolboxes and shipped defaults.                                         *)

\* ids are the rowids the inserts of one seeding receive.
Allocates(ids) ==
  /\ \A m, n \in CoreNames : ids[m] = ids[n] => m = n
  /\ \A n \in CoreNames :
       /\ \A r \in Live : r < ids[n]
       /\ \/ ids[n] = 1
          \/ ids[n] - 1 \in Live
          \/ \E m \in CoreNames : ids[m] = ids[n] - 1

\* Version 1 of every core tool in toolbox t, written by the library lib.
SeedRows(old, t, lib, ids) ==
  [r \in RowIds |->
     IF \E n \in CoreNames : ids[n] = r
     THEN [lin |-> <<t, CHOOSE n \in CoreNames : ids[n] = r>>,
           ver |-> 1, src |-> lib]
     ELSE old[r]]

CreateToolbox(t, lib) ==
  /\ t \notin toolboxes
  /\ toolboxes' = toolboxes \cup {t}
  /\ lineages' = lineages \cup {<<t, n>> : n \in CoreNames}
  /\ \E ids \in [CoreNames -> RowIds] :
       /\ Allocates(ids)
       /\ rows' = SeedRows(rows, t, lib, ids)
       /\ bindings' = [l \in Lineages |->
            IF l[1] = t /\ l[2] \in CoreNames THEN ids[l[2]] ELSE bindings[l]]
  /\ namespaces' = [l \in Lineages |->
       IF l[1] = t /\ l[2] \in CoreNames THEN {"core"} ELSE namespaces[l]]
  /\ UNCHANGED <<refs, clients>>

\* Opening the database with a library rewrites every core version 1.
RefreshCore(lib) ==
  /\ rows' = [r \in RowIds |->
       IF rows[r] # Null /\ rows[r].ver = 1 /\ rows[r].lin[2] \in CoreNames
       THEN [rows[r] EXCEPT !.src = lib] ELSE rows[r]]
  /\ UNCHANGED <<toolboxes, lineages, bindings, namespaces, refs, clients>>

-----------------------------------------------------------------------------
(* write_tool, delete_tool and rollback: one transaction each.             *)

\* Mutant: base_version accepts any version the lineage stores.
BaseExists(lin, base) == base = 0 \/ base \in VersionsOf(lin)

\* base_version compares the integer of the version active in the target.
BaseMatches(lin, base) ==
  \/ base = 0
  \/ bindings[lin] # 0 /\ rows[bindings[lin]].ver = base

\* Mutant: a write without namespaces, for a new lineage, files it nowhere.
NamespacesAsGiven(lin, given) == IF given # {} THEN given ELSE namespaces[lin]

\* The paths a write leaves: those given, else those kept, else the default.
NextNamespaces(lin, given) ==
  IF given # {} THEN given
  ELSE IF namespaces[lin] # {} THEN namespaces[lin]
  ELSE IF lin[2] \in CoreNames THEN {"core"} ELSE {"uncategorized"}

\* Mutant: versions are numbered from zero.
WriteFromZero(lin, src, given) ==
  \E id, v \in RowIds :
    /\ IsNext(id, Live)
    /\ IsNext(v, {u + 1 : u \in VersionsOf(lin)})
    /\ lineages' = lineages \cup {lin}
    /\ rows' = [rows EXCEPT ![id] = [lin |-> lin, ver |-> v - 1, src |-> src]]
    /\ bindings' = [bindings EXCEPT ![lin] = id]
    /\ namespaces' = [namespaces EXCEPT ![lin] = NextNamespaces(lin, given)]
    /\ refs' = refs \cup {[lin |-> lin, ver |-> v - 1, row |-> id, gone |-> FALSE]}
    /\ UNCHANGED toolboxes

\* A full write: a new version under MAX + 1, made the active one.
WriteVersion(lin, src, given) ==
  \E id, v \in RowIds :
    /\ IsNext(id, Live)
    /\ IsNext(v, VersionsOf(lin))
    /\ lineages' = lineages \cup {lin}
    /\ rows' = [rows EXCEPT ![id] = [lin |-> lin, ver |-> v, src |-> src]]
    /\ bindings' = [bindings EXCEPT ![lin] = id]
    /\ namespaces' = [namespaces EXCEPT ![lin] = NextNamespaces(lin, given)]
    /\ refs' = refs \cup {[lin |-> lin, ver |-> v, row |-> id, gone |-> FALSE]}
    /\ UNCHANGED toolboxes

Author(scope, n, src, given) ==
  /\ Usable(scope)
  /\ \E t \in Toolboxes :
       /\ IsTarget(scope, n, t)
       /\ WriteVersion(<<t, n>>, src, given)
  /\ UNCHANGED clients

\* A write of namespaces only, which needs an active version.
Reclassify(scope, n, given) ==
  /\ Usable(scope)
  /\ given # {}
  /\ \E t \in Toolboxes :
       /\ Wins(scope, n, t)
       /\ namespaces' = [namespaces EXCEPT ![<<t, n>>] = given]
       /\ refs' = IF namespaces[<<t, n>>] = given THEN refs
                  ELSE refs \cup {[lin |-> <<t, n>>, row |-> bindings[<<t, n>>],
                                   ver |-> rows[bindings[<<t, n>>]].ver,
                                   gone |-> FALSE]}
  /\ UNCHANGED <<toolboxes, lineages, rows, bindings, clients>>

\* Mutant: the fallback query does not filter on the lineage.
FallbackOfAnyTool(r, q) == q \in Live \ {r}

\* Of the versions of r's lineage: the next lower, else the next higher.
IsFallback(r, q) ==
  LET others == RowsOf(rows[r].lin) \ {r}
      lower  == {p \in others : rows[p].ver < rows[r].ver}
  IN IF lower # {}
     THEN q \in lower /\ \A p \in lower : rows[p].ver <= rows[q].ver
     ELSE q \in others /\ \A p \in others : rows[q].ver <= rows[p].ver

\* Mutant: no such guard.
AnyDeletable(n, v) == TRUE

\* The guard on core versions.
Deletable(n, v) == ~ (n \in CoreNames /\ v = 1)

\* Frees the row: a later insert may be given its id.  Nobody tells the callers
\* that hold it.
DeleteVersion(scope, n, v) ==
  /\ Deletable(n, v)
  /\ Usable(scope)
  /\ \E t \in Toolboxes, r \in Live :
       LET lin == <<t, n>> IN
       /\ Wins(scope, n, t)
       /\ rows[r].lin = lin /\ rows[r].ver = v
       /\ Cardinality(RowsOf(lin)) > 1
       /\ \/ /\ bindings[lin] = r
             /\ \E q \in Live :
                  IsFallback(r, q) /\ bindings' = [bindings EXCEPT ![lin] = q]
          \/ bindings[lin] # r /\ UNCHANGED bindings
       /\ refs' = {e \in refs : e.row # r}
       /\ \A l \in Lineages : bindings'[l] # r     \* the foreign key
       /\ rows' = [rows EXCEPT ![r] = Null]
       /\ clients' = [c \in Clients |->
            [clients[c] EXCEPT !.gone = @ \/ clients[c].row = r]]
  /\ UNCHANGED <<toolboxes, lineages, namespaces>>

\* Mutant: deleting a binding deletes the versions of the tool with it.
DeleteWithVersions(scope, n) ==
  /\ n \notin CoreNames
  /\ Usable(scope)
  /\ \E t \in Toolboxes :
       /\ Wins(scope, n, t)
       /\ bindings' = [bindings EXCEPT ![<<t, n>>] = 0]
       /\ rows' = [r \in RowIds |-> IF r \in RowsOf(<<t, n>>) THEN Null ELSE rows[r]]
       /\ refs' = {e \in refs : e.lin # <<t, n>>}
  /\ UNCHANGED <<toolboxes, lineages, namespaces, clients>>

DeleteBinding(scope, n) ==
  /\ n \notin CoreNames
  /\ Usable(scope)
  /\ \E t \in Toolboxes :
       LET lin == <<t, n>> IN
       /\ Wins(scope, n, t)
       /\ bindings' = [bindings EXCEPT ![lin] = 0]
       /\ refs' = refs \cup {[lin |-> lin, row |-> bindings[lin],
                              ver |-> rows[bindings[lin]].ver, gone |-> FALSE]}
  /\ UNCHANGED <<toolboxes, lineages, rows, namespaces, clients>>

\* The host names the toolbox, or takes the winner: either way one toolbox t,
\* and with an explicit one the name need not be bound.
Rollback(t, n, v) ==
  /\ <<t, n>> \in lineages
  /\ \E r \in RowsOf(<<t, n>>) :
       /\ rows[r].ver = v
       /\ bindings' = [bindings EXCEPT ![<<t, n>>] = r]
  /\ UNCHANGED <<toolboxes, lineages, rows, namespaces, refs, clients>>

-----------------------------------------------------------------------------
(* A caller outside any transaction: _resolve, then the call or the write. *)

Become(c, record) == clients' = [clients EXCEPT ![c] = record]

Begin(c, n, exact) ==
  /\ clients[c].phase \in Ended
  /\ Usable(ScopeOf[c])
  /\ Become(c, [Fresh("probing") EXCEPT !.name = n, !.exact = exact, !.pos = 1])
  /\ UNCHANGED <<toolboxes, lineages, rows, bindings, namespaces, refs>>

\* One candidate toolbox of the loop in _resolve.
Probe(c) ==
  LET me == clients[c]
      scope == ScopeOf[c]
      lin == <<scope[me.pos], me.name>>
  IN /\ me.phase = "probing"
     /\ \/ /\ bindings[lin] # 0
           /\ Become(c, [me EXCEPT !.phase = "bound", !.lin = lin,
                                   !.row = bindings[lin]])
        \/ /\ bindings[lin] = 0 /\ me.pos < Len(scope)
           /\ Become(c, [me EXCEPT !.pos = @ + 1])
        \/ /\ bindings[lin] = 0 /\ me.pos = Len(scope)
           /\ Become(c, Fresh("unknown"))
     /\ UNCHANGED <<toolboxes, lineages, rows, bindings, namespaces, refs>>

\* Mutant: an exact version is looked up by its number alone.
FetchedByNumber(me) ==
  IF me.exact = 0 THEN {me.row} \cap Live ELSE {r \in Live : rows[r].ver = me.exact}

\* The rows the second SELECT of _resolve can return: by id, or by version.
Fetched(me) ==
  IF me.exact = 0 THEN {me.row} \cap Live
  ELSE {r \in RowsOf(me.lin) : rows[r].ver = me.exact}

Fetch(c) ==
  LET me == clients[c] IN
  /\ me.phase = "bound"
  /\ \/ \E r \in Fetched(me) :
          Become(c, [me EXCEPT !.phase = "resolved", !.row = r,
                               !.ver = rows[r].ver, !.src = rows[r].src,
                               !.gone = @ /\ me.exact = 0])
     \/ Fetched(me) = {} /\ Become(c, Fresh("unknown"))
  /\ UNCHANGED <<toolboxes, lineages, rows, bindings, namespaces, refs>>

\* append_event with the identity resolved earlier; its foreign key refuses
\* an id that is free by now, and IntegrityError replaces what was to come.
Record(c, good, bad) ==
  LET me == clients[c] IN
  /\ \/ /\ rows[me.row] # Null
        /\ refs' = refs \cup {[lin |-> me.lin, ver |-> me.ver, row |-> me.row,
                               gone |-> me.gone]}
        /\ Become(c, good)
     \/ /\ rows[me.row] = Null
        /\ Become(c, [Fresh(bad) EXCEPT !.gone = me.gone])
        /\ UNCHANGED refs
  /\ UNCHANGED <<toolboxes, lineages, rows, bindings, namespaces>>

\* call_started, before the source runs.
Start(c) ==
  /\ clients[c].phase = "resolved"
  /\ Record(c, [clients[c] EXCEPT !.phase = "running"], "refused")

\* call_succeeded or call_failed, after the source ran.
Finish(c) ==
  /\ clients[c].phase = "running"
  /\ Record(c, Fresh("returned"), "lost")

\* write_tool with base_version = the active version the caller has viewed.
GuardedAuthor(c, src) ==
  LET me == clients[c] IN
  /\ me.phase = "resolved" /\ me.exact = 0
  /\ \E t \in Toolboxes :
       LET lin == <<t, me.name>> IN
       /\ IsTarget(ScopeOf[c], me.name, t)
       /\ \/ /\ BaseMatches(lin, me.ver)
             /\ WriteVersion(lin, src, {})
             /\ Become(c, [Fresh("wrote") EXCEPT !.lin = lin])
          \/ /\ ~ BaseMatches(lin, me.ver)
             /\ Become(c, Fresh("stale"))
             /\ UNCHANGED <<toolboxes, lineages, rows, bindings, namespaces, refs>>

-----------------------------------------------------------------------------
\* The schema before its first toolbox: opening a new database creates the
\* tables and the toolbox of the launch directory in one transaction.
Init ==
  /\ toolboxes = {}
  /\ lineages = {}
  /\ rows = [r \in RowIds |-> Null]
  /\ bindings = [l \in Lineages |-> 0]
  /\ namespaces = [l \in Lineages |-> {}]
  /\ refs = {}
  /\ clients = [c \in Clients |-> Fresh("idle")]

Next ==
  \/ \E t \in Toolboxes, lib \in Shipped : CreateToolbox(t, lib)
  \/ \E lib \in Shipped : RefreshCore(lib)
  \/ \E s \in Scopes, n \in Names, src \in Authored, given \in SUBSET Paths :
       Author(s, n, src, given)
  \/ \E s \in Scopes, n \in Names, given \in SUBSET Paths : Reclassify(s, n, given)
  \/ \E s \in Scopes, n \in Names, v \in RowIds : DeleteVersion(s, n, v)
  \/ \E s \in Scopes, n \in Names : DeleteBinding(s, n)
  \/ \E t \in Toolboxes, n \in Names, v \in RowIds : Rollback(t, n, v)
  \/ \E c \in Clients, n \in Names, exact \in 0 .. MaxRow : Begin(c, n, exact)
  \/ \E c \in Clients : Probe(c) \/ Fetch(c) \/ Start(c) \/ Finish(c)
  \/ \E c \in Clients, src \in Authored : GuardedAuthor(c, src)

Spec == Init /\ [][Next]_vars

-----------------------------------------------------------------------------
(* Properties.                                                             *)

\* Every table and every caller holds values of its column types.
TypeOK ==
  /\ toolboxes \subseteq Toolboxes
  /\ lineages \subseteq Lineages
  /\ rows \in [RowIds -> Version \cup {Null}]
  /\ bindings \in [Lineages -> 0 .. MaxRow]
  /\ namespaces \in [Lineages -> SUBSET AllPaths]
  /\ refs \subseteq Ref
  /\ clients \in [Clients -> Client]

\* A binding names a stored version of its own tool in its own toolbox.  The
\* schema's foreign key gives only that the row exists, and rowids are reused.
BindingIntegrity ==
  \A l \in Lineages : bindings[l] # 0 =>
    /\ l \in lineages
    /\ rows[bindings[l]] # Null
    /\ rows[bindings[l]].lin = l

\* Whatever was deleted, a tool that ever existed can be rolled back to: its
\* lineage keeps a version, versions are told apart by number, and it is filed
\* under some namespace.
LineageIntact ==
  \A l \in lineages :
    /\ RowsOf(l) # {}
    /\ \A r, q \in RowsOf(l) : rows[r].ver = rows[q].ver => r = q
    /\ namespaces[l] # {}

\* Every core tool stays callable in every toolbox, and rolling it back to
\* version 1 restores shipped source, never an authored one.
CoreRecoverable ==
  \A t \in toolboxes, n \in CoreNames :
    /\ Bound(t, n)
    /\ \E r \in RowsOf(<<t, n>>) : rows[r].ver = 1 /\ rows[r].src \in Shipped

\* Write-then-call: what write_tool stored through a selection is what the same
\* selection resolves next, whatever the selection shadows.
VisibleAt(t, n) ==
  bindings'[<<t, n>>] \in RowIds \ Live =>
    \A s \in Scopes : IsTarget(s, n, t) => Wins(s, n, t)'

\* Toolboxes own their tools: a step that moves or drops a binding touches one
\* tool of one toolbox; namesakes elsewhere stay.
NamesakesStay ==
  \A k, l \in Lineages :
    bindings'[k] # bindings[k] /\ bindings'[l] # bindings[l] => k = l

\* A write through a selection reaches the very tool that the selection resolves
\* from then on, and no other tool of that name (README: selections are ordered).
WriteVisible ==
  [][toolboxes' = toolboxes =>
       /\ \A t \in Toolboxes, n \in Names : VisibleAt(t, n)
       /\ NamesakesStay]_vars

\* The version an event row names is the one it was recorded for.
SaysTrue(e) ==
  /\ rows[e.row] # Null
  /\ rows[e.row].lin = e.lin
  /\ rows[e.row].ver = e.ver

\* An event never names a version that is not stored, and names the one it was
\* recorded for, although append_event is given an id resolved earlier
\* (kernel.py:2870) and ids are reused; save where that version was deleted while
\* the call that records it had it in its hands.
IdentityUnlessDeleted ==
  \A e \in refs : rows[e.row] # Null /\ (e.gone \/ SaysTrue(e))

\* A call that resolved its tool is recorded, runs and has its outcome recorded,
\* whatever is written, unbound, rolled back or deleted meanwhile; save where its
\* own version was deleted while it had it.
ResultUnlessDeleted ==
  \A c \in Clients : clients[c].phase \in {"refused", "lost"} => clients[c].gone

\* Client c commits a guarded write in this step; the tool it writes is the one it
\* has viewed; the source it replaces is the one it has viewed.  Core version 1,
\* which a newly opened library may rewrite in place, is the documented exception.
Writes(c) == clients[c].phase = "resolved" /\ clients'[c].phase = "wrote"
SameTool(c) == clients'[c].lin = clients[c].lin
SameSource(c) ==
  LET l == clients'[c].lin IN
  \/ rows[bindings[l]].src = clients[c].src
  \/ l[2] \in CoreNames /\ clients[c].ver = 1

\* base_version rejects stale activations (kernel.py:2556), whatever was written,
\* unbound, rolled back or deleted between the view and the write: a write that
\* lands on the tool that was viewed, as it must with a selection of one toolbox,
\* replaces what was viewed; save where the version viewed was itself deleted
\* meanwhile, whose number may be given out again.
GuardedUnlessDeleted ==
  [][\A c \in Clients :
       (Writes(c) /\ ~ clients[c].gone /\ SameTool(c)) => SameSource(c)]_vars

-----------------------------------------------------------------------------
(* What the documents say without the exception for a deleted version.  No *)
(* run checks these, which fail: the first three in the instance of        *)
(* store_calls.cfg, by DeleteVersion, the last in one without core tools,  *)
(* by DeleteBinding.                                                       *)

\* What the README says of events: they "carry stable toolbox and tool-version
\* identities".
StableIdentity == \A e \in refs : SaysTrue(e)

\* What versioning.md says of calls: they "resolve and pin their version before
\* execution", and "the running call finishes on the old source".
RunningCallFinishes == \A c \in Clients : clients[c].phase # "lost"

\* What the README says of base_version: it "rejects stale source-version
\* assumptions", so no write replaces another source than the one viewed.
StaleIsRejected ==
  [][\A c \in Clients : (Writes(c) /\ SameTool(c)) => SameSource(c)]_vars

\* What versioning.md says of it: pass it "when replacing a tool to reject a stale
\* activation", so no write lands on another tool than the one viewed.
WriteReachesViewed == [][\A c \in Clients : Writes(c) => SameTool(c)]_vars
=============================================================================
