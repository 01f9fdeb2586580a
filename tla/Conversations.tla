---------------------------- MODULE Conversations ----------------------------
(***************************************************************************)
(* Rollouts of conversations and the tree of agents they prompt            *)
(* (harness.py), down to the worker of each tool call and the broker       *)
(* thread that serves it (isolation.py).  A handle is a Conversation       *)
(* object; several handles may be of one durable session.  Its rollout     *)
(* calls tools in parallel, each in a worker process; a tool may prompt a  *)
(* further conversation, whose rollout then runs in the broker thread of   *)
(* that call.  Cancelling a rollout kills its workers and closes its       *)
(* children, recursively.                                                  *)
(*                                                                         *)
(* A section under a _run_lock, the coordinator's lock or the foreground   *)
(* lock is one action.  _cancel_locked closes children while it holds the  *)
(* parent's lock, so that nobody registers or leaves there meanwhile; it   *)
(* is one action with all it closes.                                       *)
(***************************************************************************)
EXTENDS Naturals, FiniteSets

CONSTANTS
  Tabs,           \* handles the host opens
  Kids,           \* handles that prompts create
  SessionOf,      \* the durable session of each handle
  Calls,          \* tool calls, by the id their prompts name as origin
  Detached,       \* those that are detached tool runs
  HostOf,         \* the handle whose rollout makes the call
  PromptOf,       \* the handle its prompt creates, or NoHandle
  MaxForeground,  \* _MAX_ACTIVE_FOREGROUND_AGENTS
  MaxLaunches,    \* _MAX_AGENT_LAUNCHES_PER_ROLLOUT
  MaxRounds,      \* bound: rollouts of one tab
  NoHandle

Handles  == Tabs \cup Kids
Sessions == {SessionOf[h] : h \in Handles}
Rounds   == 1 .. MaxRounds

\* A budget belongs to a rollout of a tab and is handed down the tree; only a
\* rollout that was given none has one of its own.
Budgets  == Handles \X Rounds
NoBudget == <<NoHandle, 0>>

ASSUME ConversationsAssumption ==
  /\ IsFiniteSet(Handles)
  /\ IsFiniteSet(Calls)
  /\ Tabs \cap Kids = {}
  /\ NoHandle \notin Handles
  /\ DOMAIN SessionOf = Handles
  /\ Detached \subseteq Calls
  /\ HostOf \in [Calls -> Handles]
  /\ PromptOf \in [Calls -> Kids \cup {NoHandle}]
  /\ \A b, c \in Calls : PromptOf[b] = PromptOf[c] /\ b # c => PromptOf[b] = NoHandle
  /\ MaxForeground \in Nat \ {0}
  /\ MaxLaunches \in Nat \ {0}
  /\ MaxRounds \in Nat \ {0}

VARIABLES
  closed,    \* handles with _closed set
  token,     \* the current reservation and the strongest stop asked of it
  thread,    \* where the thread that runs the rollout is
  round,     \* rollouts each tab has had
  budget,    \* _current_agent_budget
  children,  \* _foreground_children
  barred,    \* _cancelled_tool_prompt_origins
  busy,      \* _busy_sessions
  active,    \* _active_foreground
  launches,  \* launches charged to each budget
  shut,      \* the coordinator's _closed
  latch,     \* _foreground_cancelled
  call,      \* where the thread of each call is
  worker,    \* its process
  charged,   \* the budget its capabilities are bound to
  stopped,   \* detached calls whose run was cancelled
  prompt,    \* where its broker thread is
  linked     \* calls whose child is in _foreground_children_by_origin

rollouts == <<closed, token, thread, round, budget, children, barred>>
agents   == <<busy, active, launches, shut>>
workers  == <<latch, call, worker, charged, stopped>>
vars     == <<rollouts, agents, workers, prompt, linked>>

Tokens  == {"none", "run", "graceful", "force"}
Threads == {"idle", "entered", "model", "tools", "leaving", "done"}
Stages  == {"none", "queued", "started", "running", "asked", "barred",
            "killing", "over"}
Brokers == {"idle", "received", "entered", "counted", "sending", "sent", "gone"}

\* The part of a prompt during which its origin is active (_SessionPromptState).
Entered == {"entered", "counted", "sending", "sent"}

Foreground == Calls \ Detached

\* The worker is in _foreground_processes.
Registered == {"running", "asked", "barred", "killing"}

TypeOK ==
  /\ closed \subseteq Handles
  /\ token \in [Handles -> Tokens]
  /\ thread \in [Handles -> Threads]
  /\ round \in [Tabs -> 0 .. MaxRounds]
  /\ budget \in [Handles -> Budgets \cup {NoBudget}]
  /\ children \in [Handles -> SUBSET Kids]
  /\ barred \subseteq Calls
  /\ busy \subseteq Sessions
  /\ active \in 0 .. MaxForeground
  /\ launches \in [Budgets -> 0 .. MaxLaunches]
  /\ shut \in BOOLEAN
  /\ latch \subseteq Sessions
  /\ call \in [Calls -> Stages]
  /\ worker \in [Calls -> {"none", "alive", "dead"}]
  /\ charged \in [Calls -> Budgets \cup {NoBudget}]
  /\ stopped \subseteq Detached
  /\ prompt \in [Calls -> Brokers]
  /\ linked \subseteq Calls

Init ==
  /\ closed = {}
  /\ token = [h \in Handles |-> "none"]
  /\ thread = [h \in Handles |-> "idle"]
  /\ round = [t \in Tabs |-> 0]
  /\ budget = [h \in Handles |-> NoBudget]
  /\ children = [h \in Handles |-> {}]
  /\ barred = {}
  /\ busy = {}
  /\ active = 0
  /\ launches = [b \in Budgets |-> 0]
  /\ shut = FALSE
  /\ latch = {}
  /\ call = [c \in Calls |-> "none"]
  /\ worker = [c \in Calls |-> "none"]
  /\ charged = [c \in Calls |-> NoBudget]
  /\ stopped = {}
  /\ prompt = [c \in Calls |-> "idle"]
  /\ linked = {}

-----------------------------------------------------------------------------
(* A rollout: _reserve_rollout, then send.                                 *)

\* The call whose broker thread runs the rollout of h.
PromptedBy(h) == {c \in Calls : PromptOf[c] = h /\ prompt[c] = "sending"}

MayBegin(h) ==
  /\ thread[h] = "idle"
  /\ IF h \in Tabs THEN round[h] < MaxRounds ELSE PromptedBy(h) # {}

\* Mutant: two handles of one session may roll out at once.
EnterAnyway(h) ==
  /\ MayBegin(h)
  /\ thread' = [thread EXCEPT ![h] = "entered"]
  /\ busy' = busy \cup {SessionOf[h]}
  /\ UNCHANGED <<closed, token, round, budget, children, barred, active,
                 launches, shut, workers, prompt, linked>>

\* enter_rollout; a busy session refuses a tab (nothing changes) or ends a
\* prompt, whose conversation is closed next.
Enter(h) ==
  /\ MayBegin(h)
  /\ \/ /\ SessionOf[h] \notin busy
        /\ thread' = [thread EXCEPT ![h] = "entered"]
        /\ busy' = busy \cup {SessionOf[h]}
     \/ /\ SessionOf[h] \in busy
        /\ h \in Kids
        /\ thread' = [thread EXCEPT ![h] = "done"]
        /\ UNCHANGED busy
  /\ UNCHANGED <<closed, token, round, budget, children, barred, active,
                 launches, shut, workers, prompt, linked>>

\* The budget a rollout gets: a new one, or the one its prompt is charged to.
BudgetFor(h) ==
  IF h \in Tabs THEN <<h, round[h] + 1>>
  ELSE charged[CHOOSE c \in Calls : PromptOf[c] = h]

\* The section of _reserve_rollout under the run lock; send begins.
Reserve(h) ==
  /\ thread[h] = "entered"
  /\ \/ /\ h \notin closed /\ token[h] = "none"
        /\ token' = [token EXCEPT ![h] = "run"]
        /\ budget' = [budget EXCEPT ![h] = BudgetFor(h)]
        /\ round' = [t \in Tabs |-> IF t = h THEN round[t] + 1 ELSE round[t]]
        /\ thread' = [thread EXCEPT ![h] = "model"]
     \/ /\ h \in closed \/ token[h] # "none"
        /\ thread' = [thread EXCEPT ![h] = "leaving"]
        /\ UNCHANGED <<token, budget, round>>
  /\ UNCHANGED <<closed, children, barred, agents, workers, prompt, linked>>

\* A model turn asks for a batch of calls; token.check.
Batch(h, B) ==
  /\ thread[h] = "model" /\ token[h] # "force"
  /\ B # {} /\ \A c \in B : HostOf[c] = h /\ call[c] = "none"
  /\ thread' = [thread EXCEPT ![h] = "tools"]
  /\ call' = [c \in Calls |-> IF c \in B THEN "queued" ELSE call[c]]
  /\ charged' = [c \in Calls |-> IF c \in B THEN budget[h] ELSE charged[c]]
  /\ UNCHANGED <<closed, token, round, budget, children, barred, agents,
                 latch, worker, stopped, prompt, linked>>

\* Every thread of the batch is joined.
BatchOver(h) ==
  \A c \in Foreground : HostOf[c] = h => call[c] \in {"none", "over"}

\* The observations are recorded and the next model turn begins.
Observe(h) ==
  /\ thread[h] = "tools" /\ BatchOver(h)
  /\ token[h] = "run"
  /\ thread' = [thread EXCEPT ![h] = "model"]
  /\ UNCHANGED <<closed, token, round, budget, children, barred, agents,
                 workers, prompt, linked>>

\* An answer, a failure or a stop ends the rollout at these points.
MayEnd(h) ==
  \/ thread[h] = "model"
  \/ thread[h] = "tools" /\ BatchOver(h)

\* Mutant: the cancellation latch of the workers is not reset.
EndLatched(h) ==
  /\ MayEnd(h)
  /\ thread' = [thread EXCEPT ![h] = "leaving"]
  /\ token' = [token EXCEPT ![h] = "none"]
  /\ budget' = [budget EXCEPT ![h] = NoBudget]
  /\ UNCHANGED <<closed, round, children, barred, agents, workers, prompt, linked>>

\* The last section of send.
End(h) ==
  /\ MayEnd(h)
  /\ thread' = [thread EXCEPT ![h] = "leaving"]
  /\ token' = [token EXCEPT ![h] = "none"]
  /\ budget' = [budget EXCEPT ![h] = NoBudget]
  /\ latch' = latch \ {SessionOf[h]}
  /\ UNCHANGED <<closed, round, children, barred, agents, call, worker, charged,
                 stopped, prompt, linked>>

\* exit_rollout.
Exit(h) ==
  /\ thread[h] = "leaving"
  /\ thread' = [thread EXCEPT ![h] = IF h \in Tabs THEN "idle" ELSE "done"]
  /\ busy' = busy \ {SessionOf[h]}
  /\ UNCHANGED <<closed, token, round, budget, children, barred, active,
                 launches, shut, workers, prompt, linked>>

-----------------------------------------------------------------------------
(* Stopping.                                                               *)

\* h and whatever _cancel_locked and close reach from it: what is in every set
\* that contains h and the children of its members.
Below(h) ==
  LET Trees == {S \in SUBSET Handles : h \in S /\ \A x \in S : children[x] \subseteq S}
  IN {x \in Handles : \A S \in Trees : x \in S}

\* Mutant: a closed handle only refuses further rollouts.
CutLater(S, shutting) ==
  /\ closed' = closed \cup shutting
  /\ UNCHANGED <<token, latch, worker>>

\* The handles in S lose their rollouts, those in shutting are closed for good.
Cut(S, shutting) ==
  LET hit == {h \in S : token[h] # "none"}
      killed == {SessionOf[h] : h \in hit}
  IN /\ token' = [h \in Handles |-> IF h \in hit THEN "force" ELSE token[h]]
     /\ closed' = closed \cup shutting
     /\ latch' = latch \cup killed
     /\ worker' = [c \in Calls |->
          IF /\ c \in Foreground /\ SessionOf[HostOf[c]] \in killed
             /\ call[c] \in Registered /\ worker[c] = "alive"
          THEN "dead" ELSE worker[c]]

GracefulStop(t) ==
  /\ token[t] = "run"
  /\ token' = [token EXCEPT ![t] = "graceful"]
  /\ UNCHANGED <<closed, thread, round, budget, children, barred, agents,
                 workers, prompt, linked>>

Cancel(t) ==
  /\ token[t] # "none"
  /\ Cut(Below(t), Below(t) \ {t})
  /\ UNCHANGED <<thread, round, budget, children, barred, agents, call, charged,
                 stopped, prompt, linked>>

Close(t) ==
  /\ t \notin closed
  /\ Cut(Below(t), Below(t))
  /\ UNCHANGED <<thread, round, budget, children, barred, agents, call, charged,
                 stopped, prompt, linked>>

\* Harness.close: the coordinator refuses new prompts.
Shut ==
  /\ ~ shut
  /\ shut' = TRUE
  /\ UNCHANGED <<rollouts, busy, active, launches, workers, prompt, linked>>

\* A detached run is cancelled, by request or at shutdown.
StopRun(c) ==
  /\ c \in Detached \ stopped /\ call[c] \notin {"none", "over"}
  /\ stopped' = stopped \cup {c}
  /\ UNCHANGED <<rollouts, agents, latch, call, worker, charged, prompt, linked>>

-----------------------------------------------------------------------------
(* A tool call: IsolatedToolRunner._call.                                  *)

\* A worker of the host's rollout detaches another call.
Detach(c) ==
  /\ c \in Detached /\ call[c] = "none"
  /\ \E d \in Foreground : /\ HostOf[d] = HostOf[c]
                           /\ call[d] = "running" /\ worker[d] = "alive"
                           /\ charged' = [charged EXCEPT ![c] = charged[d]]
  /\ call' = [call EXCEPT ![c] = "queued"]
  /\ UNCHANGED <<rollouts, agents, latch, worker, stopped, prompt, linked>>

Cancelled(c) ==
  IF c \in Detached THEN c \in stopped ELSE token[HostOf[c]] = "force"

\* The first look at the cancellation, and the process.
Spawn(c) ==
  /\ call[c] = "queued"
  /\ \/ /\ ~ Cancelled(c)
        /\ call' = [call EXCEPT ![c] = "started"]
        /\ worker' = [worker EXCEPT ![c] = "alive"]
     \/ /\ call' = [call EXCEPT ![c] = "over"]
        /\ UNCHANGED worker
  /\ UNCHANGED <<rollouts, agents, latch, charged, stopped, prompt, linked>>

\* Mutant: a worker is registered without a look at the latch.
EnrollUnlatched(c) ==
  /\ call[c] = "started"
  /\ call' = [call EXCEPT ![c] = "running"]
  /\ UNCHANGED <<rollouts, agents, latch, worker, charged, stopped, prompt, linked>>

\* _register_foreground: a worker that comes late for a cancel is killed.
Enroll(c) ==
  /\ call[c] = "started"
  /\ call' = [call EXCEPT ![c] = "running"]
  /\ worker' = [worker EXCEPT ![c] =
       IF c \in Foreground /\ SessionOf[HostOf[c]] \in latch THEN "dead" ELSE @]
  /\ UNCHANGED <<rollouts, agents, latch, charged, stopped, prompt, linked>>

\* The worker ends by itself, at any point of what it does; once its call has
\* been left, Kill stands for that.
WorkerEnds(c) ==
  /\ worker[c] = "alive" /\ call[c] \in {"started", "running"}
  /\ worker' = [worker EXCEPT ![c] = "dead"]
  /\ UNCHANGED <<rollouts, agents, latch, call, charged, stopped, prompt, linked>>

\* The loop of _call ends, its timeout included: cancel_current of the provider
\* lists the origins with a prompt under way, if the broker lives.
Leave(c) ==
  /\ call[c] = "running"
  /\ call' = [call EXCEPT ![c] = IF prompt[c] \in Entered THEN "asked" ELSE "killing"]
  /\ UNCHANGED <<rollouts, agents, latch, worker, charged, stopped, prompt, linked>>

\* _cancel_tool_session_prompts: the origin is barred, then its child closed.
Bar(c) ==
  /\ call[c] = "asked"
  /\ barred' = barred \cup {c}
  /\ call' = [call EXCEPT ![c] = IF c \in linked THEN "barred" ELSE "killing"]
  /\ UNCHANGED <<closed, token, thread, round, budget, children, agents, latch,
                 worker, charged, stopped, prompt, linked>>

CloseOrigin(c) ==
  /\ call[c] = "barred"
  /\ Cut(Below(PromptOf[c]), Below(PromptOf[c]))
  /\ call' = [call EXCEPT ![c] = "killing"]
  /\ UNCHANGED <<thread, round, budget, children, barred, agents, charged,
                 stopped, prompt, linked>>

\* The process group is stopped, and the broker joined for a second at most.
Kill(c) ==
  /\ call[c] = "killing"
  /\ worker' = [worker EXCEPT ![c] = "dead"]
  /\ call' = [call EXCEPT ![c] = "over"]
  /\ UNCHANGED <<rollouts, agents, latch, charged, stopped, prompt, linked>>

-----------------------------------------------------------------------------
(* A prompt, in the broker thread of a call: run_foreground.               *)

\* A request arrives.
Receive(c) ==
  /\ worker[c] = "alive" /\ call[c] \in Registered
  /\ prompt[c] = "idle" /\ PromptOf[c] # NoHandle
  /\ prompt' = [prompt EXCEPT ![c] = "received"]
  /\ UNCHANGED <<rollouts, agents, workers, linked>>

\* Its origin becomes active.
Open(c) ==
  /\ prompt[c] = "received"
  /\ prompt' = [prompt EXCEPT ![c] = "entered"]
  /\ UNCHANGED <<rollouts, agents, workers, linked>>

\* Mutant: launches are counted but not limited.
MayLaunchAlways(c) == ~ shut /\ active < MaxForeground

MayLaunch(c) ==
  ~ shut /\ active < MaxForeground /\ launches[charged[c]] < MaxLaunches

\* The coordinator's section: counted, or refused, which ends the prompt.
Count(c) ==
  /\ prompt[c] = "entered"
  /\ \/ /\ MayLaunch(c)
        /\ active' = active + 1
        /\ launches' = [launches EXCEPT ![charged[c]] = @ + 1]
        /\ prompt' = [prompt EXCEPT ![c] = "counted"]
        /\ UNCHANGED <<rollouts, busy, shut, workers, linked>>
     \/ /\ ~ MayLaunch(c)
        /\ prompt' = [prompt EXCEPT ![c] = "gone"]
        /\ barred' = barred \ {c}
        /\ UNCHANGED <<closed, token, thread, round, budget, children, agents,
                       workers, linked>>

\* Mutant: only the origin is looked at.
RefusedByOrigin(c) == c \in barred

\* What a new child meets at _register_foreground_child.
Refused(c) ==
  LET h == HostOf[c] IN
  \/ c \in barred
  \/ c \in Foreground /\ (h \in closed \/ token[h] = "force")

\* The conversation is created and registered with its parent, or closed.
Register(c) ==
  LET h == HostOf[c]
      k == PromptOf[c]
  IN /\ prompt[c] = "counted"
     /\ \/ /\ ~ Refused(c)
           /\ children' = IF c \in Foreground
                          THEN [children EXCEPT ![h] = @ \cup {k}] ELSE children
           /\ linked' = linked \cup {c}
           /\ prompt' = [prompt EXCEPT ![c] = "sending"]
           /\ UNCHANGED <<closed, thread>>
        \/ /\ Refused(c)
           /\ closed' = closed \cup {k}
           /\ thread' = [thread EXCEPT ![k] = "done"]
           /\ prompt' = [prompt EXCEPT ![c] = "sent"]
           /\ UNCHANGED <<children, linked>>
     /\ UNCHANGED <<token, round, budget, barred, agents, workers>>

\* The conversation could not be created: no access, or no such session.
CreateFails(c) ==
  /\ prompt[c] = "counted"
  /\ prompt' = [prompt EXCEPT ![c] = "sent"]
  /\ UNCHANGED <<rollouts, agents, workers, linked>>

\* send is over: unregistered from the parent, and closed with what it left
\* behind, the children of calls that were given up.
Unregister(c) ==
  LET h == HostOf[c]
      k == PromptOf[c]
  IN /\ prompt[c] = "sending" /\ thread[k] = "done"
     /\ children' = [children EXCEPT ![h] = @ \ {k}]
     /\ linked' = linked \ {c}
     /\ Cut(Below(k), Below(k))
     /\ prompt' = [prompt EXCEPT ![c] = "sent"]
     /\ UNCHANGED <<thread, round, budget, barred, agents, call, charged, stopped>>

\* Mutant: the agent stops counting when its prompt is sent.
AnsweredEarly(c) == prompt[c] \in {"sending", "sent"}

Answered(c) == prompt[c] = "sent"

\* No longer counted, nor barred, nor active; the answer is sent.
Answer(c) ==
  /\ Answered(c)
  /\ active' = active - 1
  /\ barred' = barred \ {c}
  /\ prompt' = [prompt EXCEPT ![c] = "gone"]
  /\ UNCHANGED <<closed, token, thread, round, budget, children, busy, launches,
                 shut, workers, linked>>

-----------------------------------------------------------------------------
RolloutStep(h) ==
  \/ Enter(h) \/ Reserve(h) \/ Observe(h) \/ End(h) \/ Exit(h)
  \/ \E B \in SUBSET Foreground : Batch(h, B)

CallStep(c) ==
  \/ Detach(c) \/ Spawn(c) \/ Enroll(c) \/ WorkerEnds(c) \/ Leave(c)
  \/ Bar(c) \/ CloseOrigin(c) \/ Kill(c) \/ StopRun(c)

PromptStep(c) ==
  \/ Receive(c) \/ Open(c) \/ Count(c) \/ Register(c) \/ CreateFails(c)
  \/ Unregister(c) \/ Answer(c)

Next ==
  \/ \E h \in Handles : RolloutStep(h)
  \/ \E t \in Tabs : GracefulStop(t) \/ Cancel(t) \/ Close(t)
  \/ \E c \in Calls : CallStep(c) \/ PromptStep(c)
  \/ Shut

\* Threads run.  A model turn, a worker and a tool may take for ever, unless
\* they are cancelled; a cancelled one notices.
Fairness ==
  /\ \A h \in Handles : WF_vars(thread[h] = "leaving" /\ Exit(h))
  /\ \A h \in Kids : WF_vars(Enter(h) \/ Reserve(h))
  /\ \A h \in Tabs : WF_vars(Reserve(h))
  /\ \A h \in Handles : WF_vars(token[h] = "force" /\ End(h))
  /\ \A c \in Calls :
       /\ WF_vars(Spawn(c) \/ Enroll(c) \/ Bar(c) \/ CloseOrigin(c) \/ Kill(c))
       /\ WF_vars((Cancelled(c) \/ worker[c] = "dead") /\ Leave(c))
       /\ WF_vars(Open(c) \/ Count(c) \/ Register(c) \/ Unregister(c) \/ Answer(c))

Spec == Init /\ [][Next]_vars /\ Fairness

-----------------------------------------------------------------------------
InProgress(h) == thread[h] \in {"entered", "model", "tools", "leaving"}

\* However many handles a durable session has, at most one of them is in a
\* rollout, and the coordinator's busy sessions are exactly those.
SessionsSerial ==
  /\ busy = {SessionOf[h] : h \in {x \in Handles : InProgress(x)}}
  /\ \A g, h \in Handles :
       InProgress(g) /\ InProgress(h) /\ SessionOf[g] = SessionOf[h] => g = h

\* While a cancelled rollout winds down none of its registered workers is
\* alive: neither one that ran at the cancel nor one registered later.
ForcedHasNoWorker ==
  \A c \in Foreground :
    token[HostOf[c]] = "force" /\ call[c] \in Registered => worker[c] # "alive"

\* The latch that kills late workers is set for the sessions whose rollout is
\* cancelled and for no other, so that it never meets the workers of a later
\* rollout, of this handle or another of the session.
LatchFresh == latch = {SessionOf[h] : h \in {x \in Handles : token[x] = "force"}}

\* The tab at whose tree's root h is: h or a host above it, by whoever prompts whom.
RootOf(h) ==
  LET Paths == {S \in SUBSET Handles :
                  h \in S /\ \A c \in Calls : PromptOf[c] \in S => HostOf[c] \in S}
  IN {t \in Tabs : \A S \in Paths : t \in S}

\* Every agent in a rollout holds one of the MaxForeground slots, over all tabs
\* and for foreground and detached calls alike, whatever became of its call; and
\* one allowance is shared by the whole recursive tree: a tab's rollouts lead to
\* at most MaxLaunches agents each, however deep they prompt each other.
AgentsBounded ==
  /\ Cardinality({k \in Kids : InProgress(k)}) <= active
  /\ active <= MaxForeground
  /\ \A t \in Tabs :
       Cardinality({k \in Kids : RootOf(k) = {t} /\ thread[k] # "idle"})
         <= MaxLaunches * round[t]

\* Whatever is registered with a closed or cancelled conversation is closed as
\* well, though it may have been created while the tree was being cancelled; so
\* is the child of a call that ended while its prompt was known to be under way,
\* even one registered only after the call had looked for it.
StoppedTreeClosed ==
  /\ \A h \in Handles :
       h \in closed \/ token[h] = "force" => children[h] \subseteq closed
  /\ \A c \in Calls :
       c \in barred /\ call[c] = "over" /\ prompt[c] = "sending"
         => PromptOf[c] \in closed

\* What the docstring of _cancel_tool_session_prompts says: the children of a
\* call whose worker was stopped are cancelled.
OrphansAreClosed ==
  \A c \in Foreground :
    call[c] = "over" /\ prompt[c] = "sending" /\ InProgress(PromptOf[c])
      => PromptOf[c] \in closed

\* A cancelled rollout ends, whatever its model and its tools were doing, and
\* does not wait for the agents it prompted; an agent that was closed ends and
\* gives its slot back.
StoppedAgentsLeave ==
  /\ \A h \in Handles : token[h] = "force" ~> ~ InProgress(h)
  /\ \A c \in Calls : PromptOf[c] # NoHandle =>
       (prompt[c] \in Entered /\ PromptOf[c] \in closed ~> prompt[c] = "gone")
=============================================================================
