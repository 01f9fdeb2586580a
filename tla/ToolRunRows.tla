----------------------------- MODULE ToolRunRows -----------------------------
(***************************************************************************)
(* The rows one terminal tab shows for detached runs (tui.py), composed    *)
(* with the runner that reports them (ToolRuns).  The sink of a run stages *)
(* its notification from whatever thread delivers it, keeping the newest   *)
(* per run; a timer on the event loop displays what is staged.  /clear and *)
(* /compact give the tab a new conversation and hide the rows of the old   *)
(* one; leaving the application drops what is staged and closes the runner.*)
(***************************************************************************)
EXTENDS ToolRuns

CONSTANT MaxResets   \* bound: conversations the tab goes through, less one

ASSUME ResetsAssumption == MaxResets \in Nat

VARIABLES
  accept,    \* _accept_background_events
  staged,    \* _staged_detached_events for this tab; a set, empty or of one note
  seen,      \* tool_run_generations, plus one
  ignored,   \* ignored_detached_jobs
  live,      \* keys of detached_tool_events
  rows,      \* rows the chat holds for each run
  shown,     \* the status its last row settled on
  epoch,     \* which conversation the tab is in
  born,      \* the conversation whose rollout made the run's sink
  hidden     \* history, for the properties: runs already heard of at a reset

ui == <<accept, staged, seen, ignored, live, rows, shown, epoch, born, hidden>>
allvars == <<handles, status, stop, gen, sink, completed, closed, thread, outputs,
             notes, caller, closer, accept, staged, seen, ignored, live, rows,
             shown, epoch, born, hidden>>

RowsTypeOK ==
  /\ accept \in BOOLEAN
  /\ staged \in [Runs -> SUBSET Note]
  /\ seen \in [Runs -> 0 .. MaxGen + 1]
  /\ ignored \subseteq Runs /\ live \subseteq Runs
  /\ rows \in [Runs -> Nat]
  /\ shown \in [Runs -> Terminal \cup {"none", "handoff"}]
  /\ epoch \in 0 .. MaxResets
  /\ born \in [Runs -> 0 .. MaxResets]
  /\ hidden \subseteq Runs

InitRows ==
  /\ Init
  /\ accept = TRUE
  /\ staged = [r \in Runs |-> {}]
  /\ seen = [r \in Runs |-> 0]
  /\ ignored = {} /\ live = {}
  /\ rows = [r \in Runs |-> 0]
  /\ shown = [r \in Runs |-> "none"]
  /\ epoch = 0
  /\ born = [r \in Runs |-> 0]
  /\ hidden = {}

-----------------------------------------------------------------------------

\* A rollout of the tab's conversation detaches a call.
StartFromTab(r) ==
  /\ Start(r)
  /\ born' = [born EXCEPT ![r] = epoch]
  /\ UNCHANGED <<accept, staged, seen, ignored, live, rows, shown, epoch, hidden>>

\* The worker of run q detaches a call of its own, with q's sink.
StartFromRun(q, r) ==
  /\ thread[q] = "working"
  /\ Start(r)
  /\ born' = [born EXCEPT ![r] = born[q]]
  /\ UNCHANGED <<accept, staged, seen, ignored, live, rows, shown, epoch, hidden>>

\* Mutant: the latest arrival wins.
StageLatest(n) ==
  staged' = IF accept THEN [staged EXCEPT ![n.run] = {n}] ELSE staged

\* _stage_detached_event: the newest generation per run wins.
Stage(n) ==
  staged' = IF accept /\ \A m \in staged[n.run] : n.gen > m.gen
            THEN [staged EXCEPT ![n.run] = {n}] ELSE staged

DeliverToTab(n) ==
  /\ Deliver(n)
  /\ IF sink[n.run] THEN Stage(n) ELSE UNCHANGED staged
  /\ UNCHANGED <<accept, seen, ignored, live, rows, shown, epoch, born, hidden>>

\* Mutants: staged notes are displayed whatever their generation, or only when
\* it is more than one ahead.
FreshAlways == {r \in Runs : staged[r] # {}}
FreshFarAhead == {r \in Runs : \E n \in staged[r] : n.gen > seen[r]}

\* Staged notes _display_detached_event does not drop by their generation.
Fresh == {r \in Runs : \E n \in staged[r] : n.gen >= seen[r]}

\* Mutant: every update counts as an outcome.
EndingAny == {r \in Runs : staged[r] # {}}

Ending == {r \in Runs : \E n \in staged[r] : n.status \in Terminal}

Flush ==
  LET drawn == Fresh \ ignored IN
  /\ accept
  /\ \E r \in Runs : staged[r] # {}
  /\ staged' = [r \in Runs |-> {}]
  /\ seen' = [r \in Runs |->
       IF r \in Fresh THEN 1 + (CHOOSE n \in staged[r] : TRUE).gen ELSE seen[r]]
  /\ ignored' = ignored \ (Fresh \cap Ending)
  /\ live' = (live \cup drawn) \ (drawn \cap Ending)
  /\ rows' = [r \in Runs |-> IF r \in drawn \ live THEN rows[r] + 1 ELSE rows[r]]
  /\ shown' = [r \in Runs |->
       IF r \in drawn \cap Ending THEN (CHOOSE n \in staged[r] : TRUE).status
       ELSE shown[r]]
  /\ UNCHANGED <<accept, epoch, born, hidden>>
  /\ UNCHANGED runvars

\* Mutant: a cancelled run counts as one that will not report again.
IgnoredUnlessEnded ==
  LET over == {r \in Runs : \E n \in staged[r] : n.status \in Terminal}
  IN ((ignored \cup live) \ over) \cup ({r \in Runs : staged[r] # {}} \ over)

\* The jobs _reset_session_ui ignores from now on.  Its test for a staged
\* outcome names succeeded and failed only.
IgnoredAfterReset ==
  LET over  == {r \in Runs : \E n \in staged[r] : n.status \in {"succeeded", "failed"}}
      other == {r \in Runs : staged[r] # {}} \ over
  IN ((ignored \cup live) \ over) \cup other

Reset ==
  /\ accept
  /\ epoch < MaxResets
  /\ epoch' = epoch + 1
  /\ ignored' = IgnoredAfterReset
  /\ live' = {}
  /\ hidden' = hidden \cup {r \in Runs : seen[r] > 0 \/ staged[r] # {}}
  /\ staged' = [r \in Runs |-> {}]
  /\ UNCHANGED <<accept, seen, born>>
  /\ UNCHANGED runvars

\* /clear empties the chat.
Clear ==
  /\ Reset
  /\ rows' = [r \in Runs |-> 0]
  /\ shown' = [r \in Runs |-> "none"]

\* /compact keeps it, and marks the live rows as handed to the parent.
Compact ==
  /\ Reset
  /\ shown' = [r \in Runs |-> IF r \in live THEN "handoff" ELSE shown[r]]
  /\ UNCHANGED rows

\* on_unmount, before and after the detached event lock is let go.
Unmount ==
  /\ accept
  /\ accept' = FALSE
  /\ staged' = [r \in Runs |-> {}]
  /\ UNCHANGED <<seen, ignored, live, rows, shown, epoch, born, hidden>>
  /\ UNCHANGED runvars

CloseRunner ==
  /\ ~ accept
  /\ Close
  /\ UNCHANGED ui

RunnerStep ==
  \/ \E r \in Runs : StartRaises(r) \/ Abort(r)
  \/ \E r \in Runs : Announce(r) \/ Output(r) \/ Retire(r)
  \/ \E r \in Runs, outcome \in {"succeeded", "failed"} : Finish(r, outcome)
  \/ \E c \in Callers, r \in Runs : Wait(c, r) \/ Answer(c, r) \/ Cancel(c, r)
  \/ \E c \in Callers : TimeOut(c)
  \/ Joined

NextRows ==
  \/ \E r \in Runs : StartFromTab(r)
  \/ \E q, r \in Runs : StartFromRun(q, r)
  \/ \E n \in notes : DeliverToTab(n)
  \/ Flush
  \/ Clear
  \/ Compact
  \/ Unmount
  \/ CloseRunner
  \/ RunnerStep /\ UNCHANGED ui

\* The timer of the event loop fires, and threads run (see ToolRuns).
FairnessRows ==
  /\ WF_allvars(Flush)
  /\ WF_allvars(CloseRunner)
  /\ \A r \in Runs : WF_allvars((Announce(r) \/ Retire(r)) /\ UNCHANGED ui)
  /\ \A r \in Runs, x \in {"run", "output"} \cup Callers :
       WF_allvars(\E n \in notes : n.run = r /\ n.by = x /\ DeliverToTab(n))

SpecRows == InitRows /\ [][NextRows]_allvars /\ FairnessRows

-----------------------------------------------------------------------------
(* Properties.                                                             *)

\* A run gets one row: no notification that arrives after the row settled, or
\* behind a newer one, opens another.
OneRowPerRun == \A r \in Runs : rows[r] <= 1

\* A run the tab had heard of when it was cleared or compacted gets no row and
\* moves none any more, whatever is reported of it later.
HiddenStaysHidden ==
  [][\A r \in hidden :
       /\ rows'[r] <= rows[r]
       /\ shown'[r] # shown[r] => shown'[r] \in {"none", "handoff"}]_allvars

\* The row of a finished run settles on what became of the run, unless it was
\* cleared or handed off, or the application is left first.
RowsSettle ==
  \A r \in Runs :
    r \in live /\ status[r] \in Terminal ~>
      \/ r \notin live /\ shown[r] \in {status[r], "handoff", "none"}
      \/ ~ accept
=============================================================================
