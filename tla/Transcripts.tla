---------------------------- MODULE Transcripts ----------------------------
(***************************************************************************)
(* What the model is told.  A conversation handle (harness.py) keeps the   *)
(* messages of its rollout in memory while it appends the same facts to    *)
(* the session's log; whoever opens the session later, after a crash, in   *)
(* another handle or in a fork, rebuilds the messages from the log         *)
(* (_session_replay).                                                      *)
(*                                                                         *)
(* Two sessions: the root, which a tab of the user holds and agents of its *)
(* tree may continue, and one child of it, a fork that an agent prompts or *)
(* the tab's own session after a compaction.  Rollouts of one session are  *)
(* serial (Conversations).  Events that a replay passes over, those of     *)
(* tool calls and of annotations, are left out, and so is the message that *)
(* names a child's parent.  Texts have no value: a message is known by the *)
(* event that records it.                                                  *)
(***************************************************************************)
EXTENDS Integers, Sequences, SequencesExt

CONSTANTS
  Root, Child,  \* the sessions
  MaxCalls,     \* bound: tool calls of one turn
  MaxEvents,    \* bound: events of both when a prompt or a turn begins
  MaxBreaks     \* bound: rollouts cut off by an error, and crashes

Sessions == {Root, Child}

ASSUME TranscriptsAssumption ==
  /\ Root # Child
  /\ MaxCalls \in Nat /\ MaxEvents \in Nat /\ MaxBreaks \in Nat

VARIABLES
  log,        \* the events of each session
  child,      \* how the child came to be: "none", "fork" or "compaction"
  through,    \* context_through_seq of a fork
  run,        \* the rollout of each session, with the messages of its handle
  pending,    \* _cancelled_prompt_pending of the tab's handle
  inherited,  \* _inherited_cancelled_prompt_pending
  handed,     \* history: a compacted child's first prompt has a turn to announce
  lost,       \* history: calls a broken rollout left without observation
  breaks      \* rollouts broken, and crashes

context == <<child, through, handed>>
handle  == <<pending, inherited>>
vars    == <<log, context, run, handle, lost, breaks>>

-----------------------------------------------------------------------------
(* _session_replay                                                         *)

\* messages; those up to safe survive a cancelled turn; open calls; whether a
\* prompt has begun; cancelled_prompt_pending.
Blank == [messages |-> <<>>, safe |-> 0, open |-> {}, begun |-> FALSE, pending |-> FALSE]

CallIds(e) == {<<e.id, i>> : i \in 1 .. e.calls}

Ids == Sessions \X (Nat \ {0})   \* session and sequence number
Calls == Ids \X (1 .. MaxCalls)

\* The events that a replay reads, and a failed turn, which it passes over.
Entries ==
  [id : Ids, kind : {"user"}, external : BOOLEAN, header : BOOLEAN]
    \cup [id : Ids, kind : {"model"}, calls : 0 .. MaxCalls]
    \cup [id : Ids, kind : {"tool_observation"}, call : Calls]
    \cup [id : Ids, kind : {"final", "model_failed"}]
    \cup [id : Ids, kind : {"cancelled"}, user : BOOLEAN]

Messages ==
  [role : {"user"}, id : Ids, header : BOOLEAN]
    \cup [role : {"assistant"}, id : Ids, calls : 0 .. MaxCalls]
    \cup [role : {"tool"}, call : Calls]

\* The messages grow by m and leave the calls of open unanswered.
Extend(r, m, open) ==
  [r EXCEPT !.messages = Append(@, m),
            !.open = open,
            !.safe = IF open = {} THEN Len(r.messages) + 1 ELSE @]

\* Mutant: a prompt of an agent, too, uses the announcement up.
ReadUserAny(r, e) ==
  LET m == [role |-> "user", id |-> e.id, header |-> e.header \/ r.pending]
  IN [Extend(r, m, {}) EXCEPT !.begun = TRUE, !.pending = FALSE]

ReadUser(r, e) ==
  LET m == [role |-> "user", id |-> e.id, header |-> e.header \/ (r.pending /\ e.external)]
  IN [Extend(r, m, {}) EXCEPT !.begun = TRUE, !.pending = @ /\ ~ e.external]

ReadModel(r, e) == Extend(r, [role |-> "assistant", id |-> e.id, calls |-> e.calls], CallIds(e))

ReadObservation(r, e) == Extend(r, [role |-> "tool", call |-> e.call], r.open \ {e.call})

ReadFinal(r, e) ==
  [r EXCEPT !.begun = FALSE, !.safe = Len(r.messages), !.open = {}]

\* A cancelled turn loses what follows its last complete batch.
ReadCancelled(r, e) ==
  [r EXCEPT !.messages = IF r.begun THEN SubSeq(@, 1, r.safe) ELSE @,
            !.begun = FALSE, !.open = {}, !.pending = @ \/ e.user]

Read(r, e) ==
  CASE e.kind = "user"             -> ReadUser(r, e)
    [] e.kind = "model"            -> ReadModel(r, e)
    [] e.kind = "tool_observation" -> ReadObservation(r, e)
    [] e.kind = "final"            -> ReadFinal(r, e)
    [] e.kind = "cancelled"        -> ReadCancelled(r, e)
    [] OTHER                       -> r

\* What the events make of r, one after the other.
ReadAll(r, events) ==
  LET state[n \in 0 .. Len(events)] ==
        IF n = 0 THEN r ELSE Read(state[n - 1], events[n])
  IN state[Len(events)]

\* A fork starts with the messages and the announcement of its source.
Inherit(r) == [Blank EXCEPT !.messages = r.messages, !.safe = Len(r.messages),
                            !.pending = r.pending]

Context(x) ==
  IF x = Child /\ child = "fork"
  THEN Inherit(ReadAll(Blank, SubSeq(log[Root], 1, through)))
  ELSE Blank

Replay(x) == ReadAll(Context(x), log[x])

-----------------------------------------------------------------------------
NextSeq(x) == Len(log[x]) + 1   \* the next sequence number
Id(x)  == <<x, NextSeq(x)>>

IsExternal(e) == e.kind = "user" /\ e.external

Events == Len(log[Root]) + Len(log[Child])

\* A rollout: whether the tab's handle runs it, the observations appended of the
\* batch, the messages, the flags of its token.
Rollouts ==
  [phase : {"asking", "calling"}, byTab : BOOLEAN, done : 0 .. MaxCalls,
   live : Seq(Messages), graceful : BOOLEAN, force : BOOLEAN, byUser : BOOLEAN]

Idle == [phase |-> "idle", byTab |-> FALSE, done |-> 0, live |-> <<>>,
         graceful |-> FALSE, force |-> FALSE, byUser |-> FALSE]

Begun(byTab, live) == [Idle EXCEPT !.phase = "asking", !.byTab = byTab, !.live = live]

Running(x) == run[x].phase # "idle"

TypeOK ==
  /\ log \in [Sessions -> Seq(Entries)]
  /\ child \in {"none", "fork", "compaction"}
  /\ through \in 0 .. Len(log[Root])
  /\ child = "none" => log[Child] = <<>>
  /\ run \in [Sessions -> Rollouts \cup {Idle}]
  /\ pending \in [Sessions -> BOOLEAN] /\ inherited \in [Sessions -> BOOLEAN]
  /\ handed \in BOOLEAN /\ lost \subseteq Calls /\ breaks \in 0 .. MaxBreaks
  /\ \A x \in Sessions :
       /\ \A n \in DOMAIN log[x] : log[x][n].id = <<x, n>>
       /\ Running(x) =>
            /\ run[x].byUser => run[x].byTab /\ (run[x].graceful \/ run[x].force)
            /\ run[x].phase = "calling" <=> Replay(x).open # {}

Init ==
  /\ log = [x \in Sessions |-> <<>>]
  /\ child = "none" /\ through = 0 /\ handed = FALSE
  /\ run = [x \in Sessions |-> Idle]
  /\ pending = [x \in Sessions |-> FALSE]
  /\ inherited = [x \in Sessions |-> FALSE]
  /\ lost = {} /\ breaks = 0

-----------------------------------------------------------------------------
(* Prompts: _reserve_rollout and the beginning of _run.                    *)

\* The session that the tab holds: a compaction moves it to the child.
InTab(x) == x = IF child = "compaction" THEN Child ELSE Root

\* A fork is prompted by the agent that made it, whose handle is new, and whose
\* first prompt is nobody's continuation.
MayPrompt(x, external) ==
  /\ ~ Running(x) /\ Events < MaxEvents
  /\ x = Child => child # "none"
  /\ external => InTab(x) \/ (x = Child /\ log[Child] = <<>>)

\* Mutant: a handle starts from the messages that its session has of its own.
RefreshedOwn(x) == ReadAll(Blank, log[x])

\* _refresh_messages
Refreshed(x) == Replay(x)

Prompt(x, external) ==
  LET replay == Refreshed(x)
      header == external /\ (replay.pending \/ inherited[x])
  IN /\ MayPrompt(x, external)
     /\ log' = [log EXCEPT ![x] = Append(@,
          [id |-> Id(x), kind |-> "user", external |-> external, header |-> header])]
     /\ run' = [run EXCEPT ![x] = Begun(external /\ InTab(x),
          Append(replay.messages, [role |-> "user", id |-> Id(x), header |-> header]))]
     /\ pending' = [pending EXCEPT ![x] = @ /\ ~ external]
     /\ inherited' = [inherited EXCEPT ![x] = @ /\ ~ external]
     /\ UNCHANGED <<context, lost, breaks>>

-----------------------------------------------------------------------------
(* Stopping a rollout: request_graceful_stop, cancel, and close, which is  *)
(* nobody's wish for the session.                                          *)

\* Mutant: an agent's rollout takes the user's graceful stop, too.
GracefulStopAny(x) ==
  /\ Running(x) /\ ~ run[x].graceful /\ ~ run[x].force
  /\ run' = [run EXCEPT ![x].graceful = TRUE, ![x].byUser = TRUE]
  /\ UNCHANGED <<log, context, handle, lost, breaks>>

GracefulStop(x) ==
  /\ run[x].byTab /\ ~ run[x].graceful /\ ~ run[x].force
  /\ run' = [run EXCEPT ![x].graceful = TRUE, ![x].byUser = TRUE]
  /\ UNCHANGED <<log, context, handle, lost, breaks>>

ForceStop(x, user) ==
  /\ Running(x) /\ ~ run[x].force
  /\ user => run[x].byTab
  /\ run' = [run EXCEPT ![x].force = TRUE, ![x].byUser = @ \/ user]
  /\ UNCHANGED <<log, context, handle, lost, breaks>>

\* send: the cancelled event after these, and what a replay makes of it.
EndCancelled(x, events, user) ==
  /\ log' = [log EXCEPT ![x] = Append(events,
       [id |-> <<x, Len(events) + 1>>, kind |-> "cancelled", user |-> user])]
  /\ pending' = [pending EXCEPT ![x] =
       IF run[x].byTab THEN ReadAll(Context(x), log'[x]).pending ELSE @]
  /\ run' = [run EXCEPT ![x] = Idle]
  /\ UNCHANGED <<context, inherited, lost, breaks>>

Stopped(x) == run[x].force /\ EndCancelled(x, log[x], run[x].byUser)

-----------------------------------------------------------------------------
(* A rollout: _run, _respond and the model session's _stream.              *)

Asking(x)  == run[x].phase = "asking"  /\ ~ run[x].force
Calling(x) == run[x].phase = "calling" /\ ~ run[x].force

\* The model answers for good, or with calls.
Answer(x) ==
  /\ Asking(x)
  /\ log' = [log EXCEPT ![x] = @ \o
       <<[id |-> Id(x), kind |-> "model", calls |-> 0],
         [id |-> <<x, Len(log[x]) + 2>>, kind |-> "final"]>>]
  /\ run' = [run EXCEPT ![x] = Idle]
  /\ UNCHANGED <<context, handle, lost, breaks>>

AskForCalls(x, n) ==
  /\ Asking(x) /\ Events < MaxEvents
  /\ log' = [log EXCEPT ![x] = Append(@, [id |-> Id(x), kind |-> "model", calls |-> n])]
  /\ run' = [run EXCEPT
       ![x].live = Append(@, [role |-> "assistant", id |-> Id(x), calls |-> n]),
       ![x].phase = "calling", ![x].done = 0]
  /\ UNCHANGED <<context, handle, lost, breaks>>

\* The turn fails: the log says so, and has no end of the turn.
ModelFails(x) ==
  /\ Asking(x)
  /\ log' = [log EXCEPT ![x] = Append(@, [id |-> Id(x), kind |-> "model_failed"])]
  /\ run' = [run EXCEPT ![x] = Idle]
  /\ UNCHANGED <<context, handle, lost, breaks>>

\* The assistant's message that the batch belongs to.
Batch(x) == run[x].live[Len(run[x].live) - run[x].done]

\* The batch has been executed, or refused as too large; its observations are
\* appended in the order of its calls.  The last one ends the turn if a graceful
\* stop was asked for.
Observe(x) ==
  LET call   == <<Batch(x).id, run[x].done + 1>>
      events == Append(log[x], [id |-> Id(x), kind |-> "tool_observation", call |-> call])
      last   == run[x].done + 1 = Batch(x).calls
  IN /\ Calling(x)
     /\ \/ last /\ run[x].graceful /\ EndCancelled(x, events, run[x].byUser)
        \/ /\ ~ (last /\ run[x].graceful)
           /\ log' = [log EXCEPT ![x] = events]
           /\ run' = [run EXCEPT
                ![x].live = Append(@, [role |-> "tool", call |-> call]),
                ![x].done = IF last THEN 0 ELSE @ + 1,
                ![x].phase = IF last THEN "asking" ELSE @]
           /\ UNCHANGED <<context, handle, lost, breaks>>

\* A tool ends as cancelled although nobody has stopped the rollout.
ToolCancelled(x) == Calling(x) /\ run[x].done = 0 /\ EndCancelled(x, log[x], FALSE)

-----------------------------------------------------------------------------
(* What has no end in the log.                                             *)

\* An event cannot be appended, or its sink raises: the rollout ends with the
\* error.
Break(x) ==
  /\ breaks < MaxBreaks /\ Running(x)
  /\ breaks' = breaks + 1
  /\ lost' = lost \cup Replay(x).open
  /\ run' = [run EXCEPT ![x] = Idle]
  /\ UNCHANGED <<log, context, handle>>

\* The process dies; another one opens the sessions: start.
Crash ==
  /\ breaks < MaxBreaks
  /\ breaks' = breaks + 1
  /\ lost' = lost \cup UNION {Replay(x).open : x \in {y \in Sessions : Running(y)}}
  /\ run' = [x \in Sessions |-> Idle]
  /\ pending' = [x \in Sessions |-> Replay(x).pending]
  /\ inherited' = [x \in Sessions |-> Replay(x).pending]
  /\ handed' = (handed /\ \E n \in DOMAIN log[Child] : IsExternal(log[Child][n]))
  /\ UNCHANGED <<log, child, through>>

-----------------------------------------------------------------------------
(* Children.                                                               *)

\* latest_completed_sequence
Completed(events) ==
  LET ends == {n \in DOMAIN events : events[n].kind \in {"final", "cancelled"}}
  IN IF ends = {} THEN 0 ELSE CHOOSE n \in ends : \A m \in ends : m <= n

\* Mutant: a fork takes all there is.
CompletedAny(events) == Len(events)

Boundary(events) == Completed(events)

\* _conversation_for_prompt and create_child_session, which creates the fork
\* only if the boundary is still the latest: whatever the root is doing.
Fork ==
  /\ child = "none"
  /\ child' = "fork"
  /\ through' = Boundary(log[Root])
  /\ UNCHANGED <<log, run, handed, handle, lost, breaks>>

\* start_child: the tab goes on in a child without the transcript, and the
\* parent is closed.
Compact ==
  /\ child = "none" /\ ~ Running(Root)
  /\ child' = "compaction"
  /\ handed' = pending[Root]
  /\ pending' = [pending EXCEPT ![Child] = pending[Root]]
  /\ inherited' = [inherited EXCEPT ![Child] = pending[Root]]
  /\ UNCHANGED <<log, run, through, lost, breaks>>

-----------------------------------------------------------------------------
Next ==
  \/ \E x \in Sessions :
       \/ \E external \in BOOLEAN : Prompt(x, external)
       \/ GracefulStop(x)
       \/ \E user \in BOOLEAN : ForceStop(x, user)
       \/ Stopped(x)
       \/ Answer(x)
       \/ \E n \in 1 .. MaxCalls : AskForCalls(x, n)
       \/ ModelFails(x) \/ Observe(x) \/ ToolCancelled(x)
       \/ Break(x)
  \/ Crash \/ Fork \/ Compact

Spec == Init /\ [][Next]_vars

-----------------------------------------------------------------------------
\* What a running conversation has sent or is about to send to the model is what
\* anyone would rebuild from the log at this moment: a crash changes nothing of
\* it, and neither does who wrote the turns before.
LiveIsReplay ==
  \A x \in Sessions : Running(x) => run[x].live = Replay(x).messages

\* The events that precede the prompts of x, those of its source included.
History(x) ==
  (IF x = Child /\ child = "fork" THEN SubSeq(log[Root], 1, through) ELSE <<>>) \o log[x]

\* The turn before was stopped by the user, and no prompt of his has come since.
Due(h, n) ==
  \E m \in 1 .. n - 1 :
    /\ h[m].kind = "cancelled" /\ h[m].user
    /\ \A k \in m + 1 .. n - 1 : ~ IsExternal(h[k])

\* A turn that the user has stopped is announced to the model by his next prompt,
\* in the session and in a fork of it, by no other, and for as long as the
\* prompt is replayed.  His first prompt after a compaction announces what the
\* tab knew, unless the process died before.
AnnouncedOnce ==
  \A x \in Sessions :
    LET h == History(x)
        headed == {m.id : m \in {k \in Range(Replay(x).messages) : k.role = "user" /\ k.header}}
        first(n) == \A k \in 1 .. n - 1 : ~ IsExternal(h[k])
    IN \A n \in DOMAIN h : h[n].kind = "user" =>
         (h[n].id \in headed <=>
            IsExternal(h[n]) /\ (Due(h, n) \/ (x = Child /\ handed /\ first(n))))

\* Calls of a list of messages that no tool message after them answers.
Unanswered(m) ==
  UNION {CallIds(m[n]) \ {m[k].call : k \in {j \in n + 1 .. Len(m) : m[j].role = "tool"}} :
           n \in {i \in DOMAIN m : m[i].role = "assistant"}}

\* The model is never asked to go on from a call of its own without the call's
\* observation, whatever was stopped, forked or continued before, unless the
\* rollout of that call was broken off.
CallsAnswered ==
  \A x \in Sessions : run[x].phase = "asking" => Unanswered(run[x].live) \subseteq lost
=============================================================================
