------------------------------ MODULE ToolRuns ------------------------------
(***************************************************************************)
(* Detached tool runs as IsolatedToolRunner supervises them (isolation.py):*)
(* one worker thread per run, a thread reading its output, callers that    *)
(* wait for or cancel a run, and close.  A section under _runs_lock is one *)
(* action.  A notification is built in such a section and delivered after  *)
(* it, outside the lock: notes holds those built and not yet delivered, so *)
(* two threads may deliver theirs in either order.                         *)
(*                                                                         *)
(* The subprocess is abstracted to when it ends and how; output to the     *)
(* generation it bumps; a run's owner to the callers that may address it.  *)
(***************************************************************************)
EXTENDS Naturals, Sequences, FiniteSets

CONSTANTS
  Runs,         \* run ids, never reused
  Callers,      \* threads that wait for and cancel runs
  Sees,         \* the runs each caller's session owns or is an ancestor of
  MaxActive,    \* _MAX_DETACHED_JOBS
  MaxRetained,  \* _MAX_RETAINED_DETACHED_JOBS
  MaxOutputs,   \* bound: chunks of output each run produces
  MostOutputs,  \* bound: their maximum
  NoRun

ASSUME RunsAssumption ==
  /\ IsFiniteSet(Runs)
  /\ Sees \in [Callers -> SUBSET Runs]
  /\ MaxActive \in Nat \ {0}
  /\ MaxRetained \in Nat \ {0}
  /\ MostOutputs \in Nat
  /\ MaxOutputs \in [Runs -> 0 .. MostOutputs]
  /\ NoRun \notin Runs
  /\ {"run", "output"} \cap Callers = {}

VARIABLES
  handles,    \* keys of _runs
  status,     \* run.status; "none" before the run exists
  stop,       \* run.stop_reason, set together with run.cancelled
  gen,        \* run.generation
  sink,       \* whether run.sink is still set
  completed,  \* _completed_run_ids
  closed,     \* _closed
  thread,     \* where the run's own thread is
  outputs,    \* chunks its output thread has read
  notes,      \* notifications built and not yet delivered
  caller,     \* what each caller waits for, and what it was last told
  closer      \* where close() is

runvars == <<handles, status, stop, gen, sink, completed, closed, thread,
             outputs, notes, caller, closer>>

Active   == {"running", "cancelling"}
Terminal == {"succeeded", "failed", "cancelled"}
Statuses == Active \cup Terminal \cup {"none"}
Stops    == {"nobody", "cancel", "shutdown"}

\* "unstarted": start() raised.  "announcing" and "finishing": in the sink.
Threads == {"none", "unstarted", "aborted", "fresh", "announcing", "working",
            "finishing", "retiring", "gone"}
Alive   == {"fresh", "announcing", "working", "finishing", "retiring"}

\* Bound: start, one stop and the finish each bump the generation at most once.
MaxGen == MostOutputs + 2
Note == [run : Runs, gen : 0 .. MaxGen, status : Statuses \ {"none"},
         by : {"run", "output"} \cup Callers]

Caller == [waits : Runs \cup {NoRun}, told : Runs \cup {NoRun}, as : Statuses]

TypeOK ==
  /\ handles \subseteq Runs
  /\ status \in [Runs -> Statuses]
  /\ stop \in [Runs -> Stops]
  /\ gen \in [Runs -> 0 .. MaxGen]
  /\ sink \in [Runs -> BOOLEAN]
  /\ completed \in Seq(Runs)
  /\ closed \in BOOLEAN
  /\ thread \in [Runs -> Threads]
  /\ outputs \in [Runs -> 0 .. MostOutputs]
  /\ notes \subseteq Note
  /\ caller \in [Callers -> Caller]
  /\ closer \in {"idle", "joining", "returned"}

-----------------------------------------------------------------------------

ActiveHandles == {r \in handles : status[r] \in Active}

\* The snapshot of r that a section under the lock takes for actor x.
Snapshot(r, x) == [run |-> r, gen |-> gen'[r], status |-> status'[r], by |-> x]

InSink(r, x) == \E n \in notes : n.run = r /\ n.by = x

Init ==
  /\ handles = {}
  /\ status = [r \in Runs |-> "none"]
  /\ stop = [r \in Runs |-> "nobody"]
  /\ gen = [r \in Runs |-> 0]
  /\ sink = [r \in Runs |-> TRUE]
  /\ completed = <<>>
  /\ closed = FALSE
  /\ thread = [r \in Runs |-> "none"]
  /\ outputs = [r \in Runs |-> 0]
  /\ notes = {}
  /\ caller = [c \in Callers |-> [waits |-> NoRun, told |-> NoRun, as |-> "none"]]
  /\ closer = "idle"

(* start_detached *)

\* Mutant: the limit counts running runs only.
RegisterUnlessRunning(r, outcome) ==
  /\ thread[r] = "none"
  /\ ~ closed
  /\ Cardinality({q \in handles : status[q] = "running"}) < MaxActive
  /\ handles' = handles \cup {r}
  /\ status' = [status EXCEPT ![r] = "running"]
  /\ thread' = [thread EXCEPT ![r] = outcome]
  /\ UNCHANGED <<stop, gen, sink, completed, closed, outputs, notes, caller, closer>>

\* Mutant: no look at _closed.
RegisterAfterClose(r, outcome) ==
  /\ thread[r] = "none"
  /\ Cardinality(ActiveHandles) < MaxActive
  /\ handles' = handles \cup {r}
  /\ status' = [status EXCEPT ![r] = "running"]
  /\ thread' = [thread EXCEPT ![r] = outcome]
  /\ UNCHANGED <<stop, gen, sink, completed, closed, outputs, notes, caller, closer>>

Register(r, outcome) ==
  /\ thread[r] = "none"
  /\ ~ closed
  /\ Cardinality(ActiveHandles) < MaxActive
  /\ handles' = handles \cup {r}
  /\ status' = [status EXCEPT ![r] = "running"]
  /\ thread' = [thread EXCEPT ![r] = outcome]
  /\ UNCHANGED <<stop, gen, sink, completed, closed, outputs, notes, caller, closer>>

Start(r) == Register(r, "fresh")

\* thread.start() raises; a second section under the lock takes the run out.
StartRaises(r) == Register(r, "unstarted")

Abort(r) ==
  /\ thread[r] = "unstarted"
  /\ handles' = handles \ {r}
  /\ sink' = [sink EXCEPT ![r] = FALSE]
  /\ thread' = [thread EXCEPT ![r] = "aborted"]
  /\ UNCHANGED <<status, stop, gen, completed, closed, outputs, notes, caller, closer>>

(* The run's threads: _run_detached, _append_run_output, _finish_run *)

Announce(r) ==
  /\ thread[r] = "fresh"
  /\ thread' = [thread EXCEPT ![r] = "announcing"]
  /\ UNCHANGED <<gen, status>>
  /\ notes' = notes \cup {Snapshot(r, "run")}
  /\ UNCHANGED <<handles, stop, sink, completed, closed, outputs, caller, closer>>

Output(r) ==
  /\ thread[r] = "working"
  /\ ~ InSink(r, "output")
  /\ outputs[r] < MaxOutputs[r]
  /\ outputs' = [outputs EXCEPT ![r] = @ + 1]
  /\ gen' = [gen EXCEPT ![r] = @ + 1]
  /\ UNCHANGED status
  /\ notes' = notes \cup {Snapshot(r, "output")}
  /\ UNCHANGED <<handles, stop, sink, completed, closed, thread, caller, closer>>

\* Mutant: the status of a stopped run is the reason it stopped for.
VerdictIsReason(r, outcome) == IF stop[r] = "nobody" THEN outcome ELSE stop[r]

\* Mutant: a worker's success stands.
VerdictOfWorker(r, outcome) ==
  CASE outcome = "succeeded" -> outcome
    [] stop[r] = "cancel" -> "cancelled"
    [] OTHER -> "failed"

\* What becomes of a run whose worker answered with outcome.
Verdict(r, outcome) ==
  CASE stop[r] = "cancel"   -> "cancelled"
    [] stop[r] = "shutdown" -> "failed"
    [] OTHER                -> outcome

\* _call has returned or raised, having joined the output thread.
Finish(r, outcome) ==
  /\ thread[r] = "working"
  /\ ~ InSink(r, "output")
  /\ status' = [status EXCEPT ![r] = Verdict(r, outcome)]
  /\ gen' = [gen EXCEPT ![r] = @ + 1]
  /\ thread' = [thread EXCEPT ![r] = "finishing"]
  /\ notes' = notes \cup {Snapshot(r, "run")}
  /\ UNCHANGED <<handles, stop, sink, completed, closed, outputs, caller, closer>>

\* Mutant: eviction forgets the id but not the run.
RetireLeaking(r) ==
  LET all == Append(completed, r) IN
  /\ thread[r] = "retiring"
  /\ sink' = [sink EXCEPT ![r] = FALSE]
  /\ completed' = IF Len(all) > MaxRetained THEN Tail(all) ELSE all
  /\ thread' = [thread EXCEPT ![r] = "gone"]
  /\ UNCHANGED <<handles, status, stop, gen, closed, outputs, notes, caller, closer>>

\* The second section of _finish_run: forget the oldest beyond the bound.
Retire(r) ==
  LET all  == Append(completed, r)
      over == IF Len(all) > MaxRetained THEN Len(all) - MaxRetained ELSE 0
  IN /\ thread[r] = "retiring"
     /\ sink' = [sink EXCEPT ![r] = FALSE]
     /\ completed' = SubSeq(all, over + 1, Len(all))
     /\ handles' = handles \ {all[i] : i \in 1 .. over}
     /\ thread' = [thread EXCEPT ![r] = "gone"]
     /\ UNCHANGED <<status, stop, gen, closed, outputs, notes, caller, closer>>

\* _notify returns, whether or not there was a sink to call.
Deliver(n) ==
  /\ n \in notes
  /\ notes' = notes \ {n}
  /\ thread' = IF n.by # "run" THEN thread
               ELSE [thread EXCEPT ![n.run] = IF @ = "announcing" THEN "working"
                                              ELSE "retiring"]
  /\ UNCHANGED <<handles, status, stop, gen, sink, completed, closed, outputs,
                 caller, closer>>

(* wait_tool_run and cancel_tool_run; get_tool_run changes nothing *)

\* The caller is in no call.
Free(c) == caller[c].waits = NoRun /\ \A n \in notes : n.by # c

Visible(c, r) == r \in handles \cap Sees[c] /\ thread[r] # "unstarted"

Wait(c, r) ==
  /\ Free(c) /\ Visible(c, r)
  /\ status[r] \in Active
  /\ caller' = [caller EXCEPT ![c].waits = r]
  /\ UNCHANGED <<handles, status, stop, gen, sink, completed, closed, thread,
                 outputs, notes, closer>>

\* The condition is seen to hold, be it at once or after the waits.
Answer(c, r) ==
  /\ caller[c].waits = r \/ (Free(c) /\ Visible(c, r))
  /\ status[r] \in Terminal
  /\ caller' = [caller EXCEPT ![c] = [waits |-> NoRun, told |-> r, as |-> status[r]]]
  /\ UNCHANGED <<handles, status, stop, gen, sink, completed, closed, thread,
                 outputs, notes, closer>>

TimeOut(c) ==
  /\ caller[c].waits # NoRun
  /\ status[caller[c].waits] \in Active
  /\ caller' = [caller EXCEPT ![c].waits = NoRun]
  /\ UNCHANGED <<handles, status, stop, gen, sink, completed, closed, thread,
                 outputs, notes, closer>>

\* Mutant: the status moves on but nothing tells the worker.
CancelUnsignalled(c, r) ==
  /\ Free(c) /\ Visible(c, r)
  /\ status[r] = "running"
  /\ status' = [status EXCEPT ![r] = "cancelling"]
  /\ gen' = [gen EXCEPT ![r] = @ + 1]
  /\ notes' = notes \cup {Snapshot(r, c)}
  /\ UNCHANGED <<handles, stop, sink, completed, closed, thread, outputs, caller, closer>>

Cancel(c, r) ==
  /\ Free(c) /\ Visible(c, r)
  /\ status[r] = "running"
  /\ status' = [status EXCEPT ![r] = "cancelling"]
  /\ stop' = [stop EXCEPT ![r] = "cancel"]
  /\ gen' = [gen EXCEPT ![r] = @ + 1]
  /\ notes' = notes \cup {Snapshot(r, c)}
  /\ UNCHANGED <<handles, sink, completed, closed, thread, outputs, caller, closer>>

(* close *)

Stopped == {r \in handles : status[r] = "running"}

Close ==
  /\ ~ closed
  /\ closed' = TRUE
  /\ status' = [r \in Runs |-> IF r \in Stopped THEN "cancelling" ELSE status[r]]
  /\ stop' = [r \in Runs |-> IF r \in Stopped THEN "shutdown" ELSE stop[r]]
  /\ gen' = [r \in Runs |-> IF r \in Stopped THEN gen[r] + 1 ELSE gen[r]]
  /\ closer' = "joining"
  /\ UNCHANGED <<handles, sink, completed, thread, outputs, notes, caller>>

\* Every thread listed by Close is joined.  A thread leaves handles only once
\* it is gone, and none starts after Close, so these are all there are.
Joined ==
  /\ closer = "joining"
  /\ \A r \in handles : thread[r] \notin Alive
  /\ closer' = "returned"
  /\ UNCHANGED <<handles, status, stop, gen, sink, completed, closed, thread,
                 outputs, notes, caller>>

Next ==
  \/ \E r \in Runs : Start(r) \/ StartRaises(r) \/ Abort(r)
  \/ \E r \in Runs : Announce(r) \/ Output(r) \/ Retire(r)
  \/ \E r \in Runs, outcome \in {"succeeded", "failed"} : Finish(r, outcome)
  \/ \E n \in notes : Deliver(n)
  \/ \E c \in Callers, r \in Runs : Wait(c, r) \/ Answer(c, r) \/ Cancel(c, r)
  \/ \E c \in Callers : TimeOut(c)
  \/ Close
  \/ Joined

\* Threads are scheduled and the sink returns.  A worker is killed once its
\* run's cancelled event is set; otherwise it may run for ever.
Fairness ==
  /\ \A r \in Runs : WF_runvars(Abort(r) \/ Announce(r) \/ Retire(r))
  /\ \A r \in Runs : WF_runvars(stop[r] # "nobody" /\ Finish(r, "failed"))
  /\ \A r \in Runs, x \in {"run", "output"} \cup Callers :
       WF_runvars(\E n \in notes : n.run = r /\ n.by = x /\ Deliver(n))
  /\ \A c \in Callers, r \in Runs : WF_runvars(caller[c].waits = r /\ Answer(c, r))
  /\ WF_runvars(Joined)

Spec == Init /\ [][Next]_runvars /\ Fairness

-----------------------------------------------------------------------------
(* Properties.                                                             *)

\* The limit counts handles by status, yet what it must bound is subprocesses:
\* a run being cancelled still has its worker.
WorkersBounded ==
  Cardinality({r \in Runs : thread[r] \in {"fresh", "announcing", "working"}})
    <= MaxActive

\* Every run with a live thread can be reached, and beyond those only the
\* retained ones: nothing leaks and nothing is evicted early.
HandlesAccounted ==
  /\ Len(completed) <= MaxRetained
  /\ \A r \in Runs :
       r \in handles <=> \/ thread[r] \in Alive \cup {"unstarted"}
                        \/ \E i \in 1 .. Len(completed) : completed[i] = r

\* When close() returns, no run's thread is alive, so none will call a sink of
\* the application that is shutting down.
CloseJoinsAll ==
  closer = "returned" =>
    /\ \A r \in Runs : thread[r] \notin Alive
    /\ \A n \in notes : n.by \in Callers

\* A stop takes effect, whatever workers and sinks are doing: the run ends, who
\* waits for it wakes, though another or the shutdown stopped it, and close()
\* returns.
StopsTakeEffect ==
  /\ \A r \in Runs :
       status[r] = "cancelling" ~> status[r] \in Terminal \/ thread[r] = "aborted"
  /\ \A c \in Callers, r \in Runs :
       caller[c].waits = r /\ stop[r] # "nobody" ~> caller[c].waits # r
  /\ closer = "joining" ~> closer = "returned"

\* A run whose thread could not be started never was one.
NeverRan(r) == thread[r] \in {"unstarted", "aborted"}

\* The state and the reason to stop that the lifecycle sees of each run.
State == [r \in Runs |-> IF NeverRan(r) THEN "none" ELSE status[r]]
Why   == [r \in Runs |-> IF NeverRan(r) THEN "nobody" ELSE stop[r]]

Lifecycle == INSTANCE ToolRunLifecycle WITH state <- State, why <- Why

\* The runner keeps the lifecycle it promises: an accepted stop decides the
\* outcome, though the worker may have answered before its thread took the lock,
\* and the outcome that callers are told is never revised, by no later cancel,
\* shutdown or eviction.
KeepsLifecycle == Lifecycle!Spec
=============================================================================
