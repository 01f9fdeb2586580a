------------------------------ MODULE CallTree ------------------------------
(***************************************************************************)
(* A batch of tool calls in the log of its session, and in what the user   *)
(* sees of it.  The batch's calls run side by side (harness.py,            *)
(* _execute_all), each in a worker process whose tree of nested calls      *)
(* appends events to the one log (kernel.py, _invoke_async); each call's   *)
(* thread relays what is committed (isolation.py, _relay) into one sink    *)
(* (harness.py, _OrderedEventSink).  A call that asks the model for a      *)
(* completion needs a child session, which the kernel creates only under   *)
(* the active leaf of the log (kernel.py, create_child_session).           *)
(*                                                                         *)
(* An event is its position in the log.  Others append to the log as well: *)
(* detached runs of the session, and the user who changes its toolboxes.   *)
(* Tools of the synchronous kind, whose threads outlive a cancellation,    *)
(* and a sink that raises are left out.                                    *)
(***************************************************************************)
EXTENDS Integers, Sequences, FiniteSets, SequencesExt

CONSTANTS
  Calls,      \* the calls of a batch
  MaxDepth,   \* max_depth
  MaxCalls,   \* max_calls of one tree
  MaxForeign, \* bound: events of others
  MaxEvents   \* bound: events of the log, for each call of the
              \* batch, when a nested call begins

ASSUME CallTreeAssumption ==
  /\ IsFiniteSet(Calls)
  /\ MaxDepth \in Nat /\ MaxCalls \in Nat \ {0}
  /\ MaxForeign \in Nat /\ MaxEvents \in Nat

VARIABLES
  batch,     \* the calls the model asked for
  log,       \* the events of the session since the batch began
  phase,     \* what the thread of each call is doing
  after,     \* the last event it has relayed
  until,     \* the last event that its final page holds
  pending,   \* _OrderedEventSink: events that wait for an earlier one
  shown,     \* events the user has seen, in order
  tree,      \* the nested calls of each call's worker, in order of their start
  watchers,  \* history: the calls that watched when each event was committed
  failed     \* history: calls that never began to relay, or failed at the end

relay == <<after, until, pending, shown>>
vars  == <<batch, log, phase, relay, tree, watchers, failed>>

Phases == {"waiting", "starting", "spawned", "working", "ended", "draining", "over"}
States == {"running", "returned", "cancelled"}

Node  == [parent : 0 .. MaxCalls, depth : 0 .. MaxDepth, state : States]
Other == [kind |-> "other", call |-> <<>>]

Ordered == Cardinality(batch) > 1

\* The calls that have noted where the log ends and have not read it for the last
\* time: one that is starting relays from there, if its worker begins at all.
Watching == {c \in batch : phase[c] \in {"starting", "spawned", "working", "ended"}}

TypeOK ==
  /\ batch \in SUBSET Calls \ {{}}
  /\ \A n \in DOMAIN log :
       log[n] = Other \/ (log[n].kind \in {"scope", "started", "terminal"} /\ log[n].call[1] \in batch)
  /\ phase \in [Calls -> Phases]
  /\ \A c \in Calls : after[c] \in 0 .. Len(log) /\ until[c] \in 0 .. Len(log)
  /\ pending \subseteq DOMAIN log
  /\ shown \in Seq(DOMAIN log)
  /\ tree \in [Calls -> Seq(Node)] /\ \A c \in Calls : Len(tree[c]) <= MaxCalls
  /\ watchers \in Seq(SUBSET batch) /\ Len(watchers) = Len(log)
  /\ failed \subseteq batch
  /\ \A c \in Calls : phase[c] \notin {"spawned", "working"} =>
       \A n \in DOMAIN tree[c] : tree[c][n].state # "running"

Init ==
  /\ batch \in SUBSET Calls \ {{}}
  /\ log = <<>>
  /\ phase = [c \in Calls |-> "waiting"]
  /\ after = [c \in Calls |-> 0] /\ until = [c \in Calls |-> 0]
  /\ pending = {} /\ shown = <<>>
  /\ tree = [c \in Calls |-> <<>>]
  /\ watchers = <<>> /\ failed = {}

-----------------------------------------------------------------------------
(* The log: one sequence per session, whoever appends.                     *)

Commit(event) ==
  /\ log' = Append(log, event)
  /\ watchers' = Append(watchers, Watching)
  /\ UNCHANGED failed

\* A detached run, another process, or the user beside the rollout.
Foreign ==
  /\ Cardinality({n \in DOMAIN log : log[n] = Other}) < MaxForeign
  /\ Commit(Other)
  /\ UNCHANGED <<batch, phase, relay, tree>>

Started(c, n)  == \E k \in DOMAIN log : log[k] = [kind |-> "started", call |-> <<c, n>>]
Terminal(c, n) == \E k \in DOMAIN log : log[k] = [kind |-> "terminal", call |-> <<c, n>>]

-----------------------------------------------------------------------------
(* The tree of a call, in its worker.                                      *)

Live(c, n) == phase[c] = "working" /\ tree[c][n].state = "running"

ChildrenOf(c, n) == {m \in DOMAIN tree[c] : tree[c][m].parent = n}

\* The worker opens the call: its scope, of which the calls below know nothing.
Enter(c) ==
  /\ phase[c] = "spawned"
  /\ Commit([kind |-> "scope", call |-> <<c, 0>>])
  /\ phase' = [phase EXCEPT ![c] = "working"]
  /\ UNCHANGED <<batch, relay, tree>>

\* Mutant: every nested call has the budget of the tree for itself.
MayInvokeMore(c, depth) == depth <= MaxDepth

\* A call beyond the limits raises in its caller, and leaves no trace.
MayInvoke(c, depth) == depth <= MaxDepth /\ Len(tree[c]) < MaxCalls

Invoke(c, parent, depth) ==
  /\ MayInvoke(c, depth)
  /\ depth > 0 => Len(log) * Cardinality(batch) < MaxEvents
  /\ Commit([kind |-> "started", call |-> <<c, Len(tree[c]) + 1>>])
  /\ tree' = [tree EXCEPT ![c] =
       Append(@, [parent |-> parent, depth |-> depth, state |-> "running"])]
  /\ UNCHANGED <<batch, phase, relay>>

InvokeRoot(c) == phase[c] = "working" /\ tree[c] = <<>> /\ Invoke(c, 0, 0)

\* The source of call n makes a nested call, beside others it may have made.
InvokeNested(c, n) == Live(c, n) /\ Invoke(c, n, tree[c][n].depth + 1)

\* The source returns or raises.  It may have left nested calls to themselves;
\* they end with the root's.
Return(c, n) ==
  /\ Live(c, n)
  /\ Commit([kind |-> "terminal", call |-> <<c, n>>])
  /\ tree' = [tree EXCEPT ![c][n].state = "returned"]
  /\ UNCHANGED <<batch, phase, relay>>

Below(c, n) == {m \in DOMAIN tree[c] :
  \/ m = n
  \/ tree[c][m].parent = n
  \/ tree[c][m].parent # 0 /\ tree[c][tree[c][m].parent].parent = n}

Cancelled(c, ns) ==
  [m \in DOMAIN tree[c] |->
     IF m \in ns /\ tree[c][m].state = "running"
     THEN [tree[c][m] EXCEPT !.state = "cancelled"] ELSE tree[c][m]]

\* A caller stops waiting for its nested call, which is cancelled where it
\* stands, with what it waits for itself: no event tells of it.
Abandon(c, n) ==
  /\ Live(c, n) /\ tree[c][n].parent # 0
  /\ tree' = [tree EXCEPT ![c] = Cancelled(c, Below(c, n))]
  /\ UNCHANGED <<batch, log, phase, relay, watchers, failed>>

\* The root has ended, or could not begin, or the worker is killed, as it is when
\* its events cannot be read.
WorkerEnds(c) ==
  /\ phase[c] \in {"spawned", "working"}
  /\ phase' = [phase EXCEPT ![c] = "ended"]
  /\ tree' = [tree EXCEPT ![c] = Cancelled(c, DOMAIN tree[c])]
  /\ UNCHANGED <<batch, log, relay, watchers, failed>>

-----------------------------------------------------------------------------
(* Completions: what the kernel asks of the log before it makes a session.  *)

\* Mutant: a call is over when those it made are.
EndedBelow(c, n) == \A m \in ChildrenOf(c, n) : Terminal(c, m)

Ended(c, n) == Terminal(c, n)

\* The call may have a child session: it is open, and nothing it made still is.
ActiveLeaf(c, n) ==
  /\ Started(c, n) /\ ~ Ended(c, n)
  /\ \A m \in ChildrenOf(c, n) : Started(c, m) => Ended(c, m)

-----------------------------------------------------------------------------
(* The threads of the calls, and the sink.                                 *)

\* A thread may start long after the batch began: the executor is bounded.
StartCall(c) ==
  /\ c \in batch /\ phase[c] = "waiting"
  /\ after' = [after EXCEPT ![c] = Len(log)]
  /\ phase' = [phase EXCEPT ![c] = "starting"]
  /\ UNCHANGED <<batch, log, until, pending, shown, tree, watchers, failed>>

Spawn(c) ==
  /\ phase[c] = "starting"
  /\ phase' = [phase EXCEPT ![c] = "spawned"]
  /\ UNCHANGED <<batch, log, relay, tree, watchers, failed>>

\* The scope, the socket pair or the process cannot be had: nothing is relayed.
CannotBegin(c) ==
  /\ phase[c] = "starting"
  /\ phase' = [phase EXCEPT ![c] = "over"]
  /\ failed' = failed \cup {c}
  /\ UNCHANGED <<batch, log, relay, tree, watchers>>

\* The rollout was stopped before.
RefuseCall(c) ==
  /\ c \in batch /\ phase[c] = "waiting"
  /\ phase' = [phase EXCEPT ![c] = "over"]
  /\ UNCHANGED <<batch, log, relay, tree, watchers, failed>>

\* The longest run of events from the next one on that are all in es.
Ready(es) ==
  LET next == Len(shown) + 1
      last == CHOOSE k \in next - 1 .. Len(log) :
                /\ next .. k \subseteq es /\ k + 1 \notin es
  IN [i \in 1 .. last - next + 1 |-> next + i - 1]

\* _OrderedEventSink for several calls, the conversation's own sink for one.
Sink(e) ==
  IF ~ Ordered
  THEN shown' = Append(shown, e) /\ UNCHANGED pending
  ELSE LET es == IF e <= Len(shown) THEN pending ELSE pending \cup {e}
           ready == Ready(es)
       IN shown' = shown \o ready /\ pending' = es \ Range(ready)

RelayOne(c) ==
  /\ \/ phase[c] \in {"spawned", "working", "ended"} /\ after[c] < Len(log)
     \/ phase[c] = "draining" /\ after[c] < until[c]
  /\ after' = [after EXCEPT ![c] = @ + 1]
  /\ Sink(after[c] + 1)
  /\ UNCHANGED <<batch, log, phase, until, tree, watchers, failed>>

\* Mutant: what the worker has done since the last page is not read any more.
LastPageRead(c) == after[c]

\* The last page: what is committed after it is for others to relay.
LastPage(c) == Len(log)

Drain(c) ==
  /\ phase[c] = "ended"
  /\ until' = [until EXCEPT ![c] = LastPage(c)]
  /\ phase' = [phase EXCEPT ![c] = "draining"]
  /\ UNCHANGED <<batch, log, after, pending, shown, tree, watchers, failed>>

\* The last relay raises before its end, and its error is swallowed.
RelayFails(c) ==
  /\ phase[c] = "draining" /\ after[c] < until[c]
  /\ phase' = [phase EXCEPT ![c] = "over"]
  /\ failed' = failed \cup {c}
  /\ UNCHANGED <<batch, log, relay, tree, watchers>>

Over(c) ==
  /\ phase[c] = "draining" /\ after[c] = until[c]
  /\ phase' = [phase EXCEPT ![c] = "over"]
  /\ UNCHANGED <<batch, log, relay, tree, watchers, failed>>

-----------------------------------------------------------------------------
Next ==
  \/ Foreign
  \/ \E c \in Calls :
       \/ StartCall(c) \/ RefuseCall(c) \/ Spawn(c) \/ CannotBegin(c)
       \/ RelayOne(c) \/ Drain(c) \/ RelayFails(c) \/ Over(c)
       \/ Enter(c) \/ InvokeRoot(c) \/ WorkerEnds(c)
       \/ \E n \in DOMAIN tree[c] :
            InvokeNested(c, n) \/ Return(c, n) \/ Abandon(c, n)

Spec == Init /\ [][Next]_vars

-----------------------------------------------------------------------------
(* Properties                                                              *)

Increasing(s) == \A n \in 1 .. Len(s) - 1 : s[n] < s[n + 1]

AllOver == \A c \in batch : phase[c] = "over"

\* What every call that watched it has failed to relay, or nobody watched.
Orphaned(e) == e \notin Range(shown) /\ watchers[e] \subseteq failed

\* Nothing is shown twice or before what precedes it.  When the calls are over,
\* every event that a call watched has been shown, of others' too, unless all that
\* watched it failed to relay, or it waits for ever behind such an event in the
\* sink of several calls: nothing else is lost, whatever calls end, are killed,
\* cannot begin or start late.
RelayFaithful ==
  /\ Increasing(shown)
  /\ AllOver =>
       \A e \in DOMAIN log :
         \/ e \in Range(shown)
         \/ Orphaned(e)
         \/ Ordered /\ \E m \in 1 .. e - 1 : Orphaned(m)

\* What a call commits and its thread does not fail to relay reaches the user
\* (README.md:490, "Committed events are relayed to the TUI from SQLite while the
\* worker runs").  No run checks it: it fails, in the instance of calltree.cfg, by
\* an event that is committed before the first call of the batch starts.
CallIsRelayed ==
  AllOver =>
    \A e \in DOMAIN log :
      log[e] # Other /\ log[e].call[1] \notin failed => e \in Range(shown)

\* The log agrees with the tree: a running call is the active leaf, and may ask
\* for completions, exactly if all its nested calls have ended.  One that was
\* abandoned bars its caller for good.
LeafIsFree ==
  \A c \in Calls : \A n \in DOMAIN tree[c] :
    Live(c, n) =>
      (ActiveLeaf(c, n) <=> \A m \in ChildrenOf(c, n) : tree[c][m].state = "returned")
=============================================================================
