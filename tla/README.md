# Mechagnome in TLA+

Mechagnome is a terminal agent whose tools are rows in a SQLite database: a
model, or a tool, can write, refile, roll back and delete the tools it calls,
tools run in worker processes, some of them detached from the rollout that
started them, and tools can prompt further agents. This directory models the
parts of it where order matters, checks them with TLC and proves, for every
instance, what they promise of safety: the tool tables and their readers, sessions and their
logs, rollouts and their agents, the transport of completions, the relays of a batch, the
runner of detached tools and the rows of a tab. Line numbers refer to the repository's
`src/mechagnome/`.

## The system

| Component | State | Operations | Hard part | What makes it correct |
|---|---|---|---|---|
| Tool store (`kernel.py`) | `toolboxes`, `tool_lineages`, `tool_versions`, `bindings`, `tool_namespaces`, identity columns of `events` | create a toolbox, refresh core defaults, `write_tool`, `delete_tool`, `rollback`, `_resolve` | lookups outside transactions interleave with mutations; rowids and version numbers are reused; toolboxes shadow each other | bindings sound, lineages intact, core tools recoverable, recorded identities true, calls recorded to their end, `base_version` guards the writer |
| Call tree (`kernel.py`) | depth, number of calls, pinned scope | `call_async`, nested calls | budgets shared by parallel branches | no call beyond the budgets, each start with one end |
| Selections (`kernel.py`) | `cwd_defaults`, `session_toolboxes` | open a directory, map, unmap, select, inherit | two processes opening one directory; names of defaults | a directory always opens, a session always has a stack |
| Sessions and log (`kernel.py`) | `sessions`, `events` | append, child sessions, annotate | `MAX(seq)+1` under concurrent writers, forks of a growing log | the log accounts for stacks and annotations, a fork's context ends at a completed turn, a child hangs below an active leaf |
| Detached tool runs (`isolation.py`) | `_runs`, `_completed_run_ids`, per-run status, generation, stop reason, thread | `start_detached`, `wait_tool_run`, `cancel_tool_run`, `close`, the run's two threads | cancel, answer and shutdown race; notifications outside the lock; bounded retention | limits bind subprocesses, a stop decides the outcome, no handle leaks or is lost, everybody wakes, `close` returns |
| Foreground calls (`isolation.py`, `tool_worker.py`) | worker processes by session, cancellation latch | `call`, `cancel_foreground` | a cancel between spawn and registration | a cancelled rollout leaves no worker |
| Rollouts (`harness.py`) | reservation token, messages, log | reserve, run, stop, cancel, replay | two-stage stop, crash between two events | one rollout per session, a replay is what the model saw |
| Child agents (`harness.py`) | children by origin, busy sessions, budgets | prompt, spawn, fork, cancel a tree | a child registering as its parent is cancelled | limits hold, a cancelled tree ends |
| Ordered sink (`harness.py`) | next sequence number, pending events | `__call__` | gaps and duplicates from parallel relays | each event once, in order, none stuck |
| Model capability (`model_provider.py`) | call budget, broker thread, session bindings | complete, prompt, tool run | one serial pipe shared by parallel calls | budget respected, nobody waits for a dead peer |
| Completions (`openrouter.py`) | active sessions, cancellation latch, retries | complete, stream, cancel | the latch is cleared by a sibling; partial text before a retry | a cancel is not lost, text is not shown twice |
| Terminal (`tui.py`) | tabs, rows of tools and of detached runs, staged updates | stage, flush, `/clear`, `/compact`, leave | events of old conversations arrive late | rows tell the truth, hidden runs stay hidden |
| Migrations (`kernel.py`) | the whole database | one transaction at opening | names reserved by a new core tool | nothing is lost or renamed twice |
| Core tools, command line, help | none of their own | | | |

A host talks to the kernel in its own process; a tool runs in a subprocess
with a kernel of its own over the same database. So what the tables promise
must hold between processes, and the only atomic unit is an SQLite
transaction. Threads share objects inside the host: the detached runner under
one lock, the terminal through its event loop, the conversation under its own.
`PROJECT.json` lists the components with their state of completion, and the
hazards of the code at their lines.

## The modules

| Module | Models | Built on |
|---|---|---|
| `ToolStore` | the tool tables and their concurrent readers | |
| `ToolStoreProofs` | its inductive invariants and theorems | `ToolStore` |
| `SessionStore` | toolboxes by name, defaults of directories, stacks and annotations of sessions | |
| `SessionStoreProofs` | its inductive invariants and theorems | `SessionStore` |
| `CallTree` | a batch of tool calls in the log, from the nested call to the ordered sink | |
| `CallTreeProofs` | its inductive invariant and theorems | `CallTree` |
| `Transcripts` | the messages of a conversation and their reconstruction from the log | |
| `TranscriptsProofs` | its inductive invariants and theorems | `Transcripts` |
| `Conversations` | rollouts, the agents they prompt, the calls and broker threads between them | |
| `ConversationsProofs` | its inductive invariant and theorems | `Conversations` |
| `Completions` | requests to the model, their retries, cancellation and brokers | |
| `CompletionsProofs` | its inductive invariant and theorems | `Completions` |
| `ToolRunLifecycle` | what the runner promises of a detached run | |
| `ToolRuns` | the runner: threads, lock sections, notifications, callers, `close` | refines `ToolRunLifecycle` |
| `ToolRunsProofs` | its inductive invariant, its theorems, and the steps of the refinement | `ToolRuns` |
| `ToolRunRows` | the rows of a terminal tab | extends `ToolRuns` |
| `ToolRunRowsProofs` | its inductive invariant and theorems | `ToolRunRows`, `ToolRunsProofs` |
| `MC...` | instances for TLC | |

The parts that meet do so in three places. `ToolRunRows` composes the terminal with
the runner whose notifications it receives. `CallTree` composes the workers that append
events, the relays that read them and the sink that orders them. `Conversations` composes
rollouts, calls, brokers and child rollouts. Between those the modules take from one
another what the neighbour guarantees: `Transcripts` relies on rollouts of one session being
serial, which is proved of `Conversations` (`RolloutsAreSerial`); `Completions` on the
batch being joined before the next turn, which is `BatchOver` in both.

### ToolStore

Each table is a variable. `UNIQUE(toolbox_id, name)` makes a lineage the pair
itself; `rows` is indexed by rowid, since a rowid is what bindings and events
point at and SQLite gives a freed maximal one out again (`IsNext`). Every
mutation runs in `BEGIN IMMEDIATE`, so it is one action and its writes are
all in it, the event rows included. `refs` holds, for the event rows whose
`tool_version_id` is not NULL, the tool and version they claim; two rows with
the same claim are one element. `delete_tool(version=...)` sets that column to
NULL in the rows of the version, so they leave `refs`. It is the only operation that
frees a rowid, it may come at any time, and the history flag `gone` says that it took the
very version a caller had read: of the caller, and of the event it appends then.

`call_tool` and `view_tool` resolve outside a transaction: one SELECT per
selected toolbox (`Probe`), one for the version (`Fetch`), and later
`append_event` with what was found (`Start`, `Finish`). A mutation by anybody
may come between any two. Refusals that change nothing are the absence of a
step, except where the caller's course depends on them: `unknown`, `stale`,
and `refused` and `lost`, for an event row its foreign key refuses.

An explicit `toolbox` argument resolves like a selection of one toolbox, and
`Scopes` lists such ones; `rollback` takes the toolbox directly, because with
an explicit one it may revive an unbound tool. A caller's session is always
given in this code base, so events are always appended (`rollback` appends
none). Tool schemas, source validation and the pin of core schemas are data or
refusals and are left out.

### SessionStore

A toolbox is the number of its creation; `names` gives its present name, with the
derived name of a directory as `Own(d)`. `_ensure_cwd_default` (`Ensure`) is part of every
transaction that calls it: opening a session, falling back to the default when a stack
is emptied or reset, a lookup of a process without session. `legacy` is the toolbox to
which a database of the first schema falls back; such a migrated database is the
second initial state. A session is a record with its directory, its stack, its texts
and its revision. A stack change appends its event in the same transaction
(`ReplaceSelection`). A child copies a stack that its parent has had at some time
(`Snapshots`), because the scope of a call tree is taken when the tree starts.
`Update` may be guarded by the revision its writer passes, which is any he may have read, or not at all
(`Unguarded`, the default of `expected_revision`), and then the last commit wins. Every note
keeps as history what its writer passed (`expected`) and the text he had before him (`by`), the text at
the revision he had read whether he passed it or not. A log is read by position: `Changes` and `Notes`
are where the two kinds of events are, and `StackAt` and `TextAt` what the latest of them before a place
says, so that explaining a log takes no recursion over it. Names that users give are assumed not to be
of the derived form `cwd-...`.

### CallTree

The calls of a batch run beside each other, each with a thread in the host and a tree of
nested calls in its worker. An event is its position in the session's log, of which
`append_event` takes `MAX(seq) + 1` in an immediate transaction, so appending is one step
whoever does it: the workers, and others (`Foreign`). A thread notes where the log ends when it
starts (`StartCall`) and pages from there. Its process may then begin (`Spawn`), or the scope, the
socket pair or the process cannot be had (`CannotBegin`), and the thread ends without relaying
anything, since the last page is read only if there was a process. A thread relays one event at a
time (`RelayOne`) and reads one last page after its worker has ended (`Drain`), to its end
(`Over`) or until an error, which `_call` swallows (`RelayFails`). `Sink` is
`_OrderedEventSink` for a batch of several calls and the conversation's sink for one. Two variables are
history: `watchers`, the calls that were between `StartCall` and the last page when each event was
committed, and `failed`, the calls that never began or whose last page broke off.

`Invoke` is the check of the limits and the start of a call; the source may start
several nested calls and return before they do (`Return`), or stop waiting for one
(`Abandon`), upon which it is cancelled where it stands. `ActiveLeaf` is the SQL that
`create_child_session` asks of the log before it makes the child session of a completion.

### Transcripts

`log` holds the events that a replay reads, `run[x].live` the messages that the running handle
has in memory, and `Replay` is `_session_replay`, which reads the events one after the
other (`ReadAll`, `Read`), started by the context of a fork. A rollout is `asking` (a model turn) or `calling` (the observations of a
batch are appended one by one). A graceful stop ends it after the batch, a forced one at
once, and both append `cancelled` with the user's wish. `Break` is an append or a sink that
raises, `Crash` the death of the process, after which another process opens the sessions
(`start`). The child is a fork an agent makes, at any time, of what the root's log holds up
to its last completed turn, or the session in which the tab goes on after `/compact`.
`pending` and `inherited` are the flags of the tab's handle from which a prompt learns that
the turn before was cancelled. `handed` and `lost` are history.

### Completions

A slot is a thread that asks the model: the broker of each call, and the host for its
turns. A request passes `asked`, `admitted` (registered under its key in `_active_sessions`),
`bound` (its client is registered too), `sending`, `answered`, `reading`, perhaps `waiting`
for a retry, `leaving`. One step is one section under `_active_lock` with the work up to
the next. `operations` and `resources` are what the requests of a key have registered,
`latch` the keys whose event is set. `Latch` is the section of `_cancel_session`,
`CloseFound` the closing of what it found, after the lock is gone: a request may
register between the two. `GiveUp`, `Join` and `BrokerEnds` are the end of `_call` with its
broker; `Stop` and `End` are the host's forced stop and the end of its rollout. A detached
call has a key of its own and spends the budget of the call that started it. `stuck` is history: the calls
that left a broker behind, and whose session nobody has reset since; a reset, by a
sibling's join or by the end of the rollout, takes all of its session out. Every request
makes its own HTTP client, as `__main__` configures it; a client handed in, which
tests do, is left out.

### ToolRuns and ToolRunLifecycle

A section under `_runs_lock` is one action. The run thread starts (`Announce`),
works, takes the lock to finish (`Finish`), calls the sink, and takes the lock
again to retire the run (`Retire`). A notification is built inside a section and
delivered after it (`notes`, `Deliver`): so the `cancelling` note of another
thread may come after the final one. The worker process is abstracted to its
answer; `Finish` happens with any outcome at any time. `Sees` abstracts the
rule that an owner or an ancestor of it may address a run. `thread.start()`
may raise after the run was registered (`StartRaises`), and a second section
takes it out (`Abort`); until then its id is known to nobody.

`ToolRunLifecycle` says the same without threads: at most `MaxActive` at once,
a run that was asked to stop ends as what it was asked. `ToolRuns` implements
it (`KeepsLifecycle`), under the mapping that a run whose thread could not be
started never existed.

### ToolRunRows

One tab, from the sink to the row. `_stage_detached_event` keeps the newest
note per run (`Stage`), the timer displays what is staged (`Flush`) unless a
newer generation was displayed or the job is ignored. `_reset_session_ui`,
behind `/clear` and `/compact`, moves live rows and staged jobs to the ignored
ones. `born` and `hidden` are history for the properties: the conversation a
run was started from, and the runs the tab had heard of at a reset. Runs may be
started by the tab's rollout or by another detached run, with the sink of that
run. Ending a tab, which drops the tab itself, is not modelled.

### Conversations

A handle is a `Conversation` object. `Tabs` are opened by the host and may have
several rollouts, `Kids` are created by prompts and have one; `SessionOf` lets
several handles be of one durable session. A rollout passes `entered` (its session is
busy), `model`, `tools` (a batch of calls, joined by `BatchOver`) and `leaving`.
`token` is the reservation with the strongest stop asked of it, `children` and
`barred` are `_foreground_children` and `_cancelled_tool_prompt_origins`, `busy`,
`active`, `launches` and `shut` belong to the coordinator, `latch` is the runner's
`_foreground_cancelled`.

A call goes through `queued`, `started` (the process runs, not yet registered),
`running`, and then through the `finally` of `_call` one effect at a time: list the
prompts under way (`Leave`), bar the origin (`Bar`), close its child
(`CloseOrigin`), stop the process (`Kill`). `Leave` may happen at any time, since a
call may time out. Beside it runs the broker thread: `Receive`, `Open` (the prompt
counts as under way), `Count`, `Register`, the child's rollout, `Unregister`,
`Answer`. It may still be at any of these when its call is over, because `_call`
joins it for a second only.

One step per section under a lock. `_cancel_locked` closes children while it holds
the parent's lock, so it is one step with all that it closes (`Cut`, `Below`):
nothing registers with or leaves a locked handle, and what a child does before it
is reached it might have done before the cancel. What hangs below a handle is the
intersection of the sets that hold the handle and are closed under registered children (`Below`),
the tab above it that of the sets closed the other way (`RootOf`): both are
defined for every tree without recursion, and can be proved about. Which calls a rollout makes and
what they prompt is fixed by `HostOf` and `PromptOf`, one prompt per call and one
use of a call; a `Detached` call is one whose prompt is `independent` of the
rollout. Model turns have no content. `_cancel_tool_session_prompts` of a
detached call works on the handle that started it, and its child is closed like
any other.

## What the runs check

| Run | Instance | Result |
|---|---|---|
| `store_tables` | 2 toolboxes in an ordered selection and alone, 1 core and 1 user tool, 2 libraries, 1 path, 5 rowids | `TypeOK`, `BindingIntegrity`, `LineageIntact`, `CoreRecoverable`, `WriteVisible` hold |
| `store_calls` | a caller who selects both toolboxes, 1 core and 1 user tool, 2 libraries, 2 authored sources, 4 rowids, every mutation | `IdentityUnlessDeleted`, `ResultUnlessDeleted`, `GuardedUnlessDeleted` hold |
| `selection` | 2 directories, 1 name of users, at most 3 toolboxes, 2 sessions of which either may be the child of the other, one whose stack and one whose annotations change, guarded or not, 2 events | `TypeOK`, `OpensUnlessMoved`, `LogExplains` hold |
| `selection_moved` | the same | `DirectoryOpens` fails |
| `calltree` | a batch of 1 or 2 calls, depth 2, 4 calls to a tree, 1 event of others, a log of 6 events to start nested calls in | `TypeOK`, `RelayFaithful`, `LeafIsFree` hold |
| `transcripts` | a root and its fork or compacted successor, batches of 1 or 2 calls, 6 events, 1 break or crash | `TypeOK`, `LiveIsReplay`, `AnnouncedOnce`, `CallsAnswered` hold |
| `completions` | 2 calls of which the second may be detached, 2 rollouts, 1 retry, 1 completion each, a budget of 1 for a tree | `TypeOK`, `LatchedIsClosed`, `TextShownOnce`, `CancelledForAReason`, `AloneTheBrokerEnds` hold |
| `conversations` | a tab, an agent, and two agents of its tools, one of them detached; handles of 2 sessions twice; 2 active agents, 2 launches, 1 rollout of the tab | `TypeOK`, `SessionsSerial`, `ForcedHasNoWorker`, `LatchFresh`, `AgentsBounded`, `StoppedTreeClosed` hold |
| `conversations_end` | a tab with 2 rollouts, 2 nested agents | `StoppedAgentsLeave` holds |
| `conversations_orphan` | the same with 1 rollout | `OrphansAreClosed` fails |
| `toolruns` | 3 runs, 2 active, 1 retained, a caller who sees two of them, one chunk of output | `TypeOK`, `WorkersBounded`, `HandlesAccounted`, `CloseJoinsAll`, `StopsTakeEffect` and the refinement `KeepsLifecycle` hold |
| `rows` | 2 runs, one nested in the other or not, one reset, one chunk of output | `RowsTypeOK`, `OneRowPerRun`, `HiddenStaysHidden`, `RowsSettle` hold |

What some of them say beyond their names:

* `IdentityUnlessDeleted`, `ResultUnlessDeleted` and `GuardedUnlessDeleted` are what the documents
  promise a caller whose lookups other transactions fall between, with one exception that the
  code does not cover: somebody deletes the very version the caller has read, while he
  has it. Deletion of any other version, reuse of rowids and numbers by whoever else, writes, rollbacks, loss of the
  binding and core upgrades in place do him no harm. Which versions were deleted when is in the history
  flag `gone`. The claims without the exception are the definitions `StableIdentity`,
  `RunningCallFinishes` and `StaleIsRejected`, which fail.
* `OpensUnlessMoved`: no creation, renaming, selection or mapping makes a directory unusable,
  except giving its toolbox to another directory. `LogExplains`: who replays the events
  of a session arrives at its stack and its annotations; the numbering has no gap and each note names the
  text it replaced, whoever wrote; and who passed the revision he had read knew the very text he
  replaced. Who passed none may have overwritten a text he never saw.
* `RelayFaithful`: nothing is shown twice or out of order, and when the batch is over an event
  has been shown unless all calls that watched when it was committed failed to relay, or it waits behind such an
  event. Up to such a gap a call that watched and did not fail delivers, also what others commit.
  `LeafIsFree`: what the log says of a running call, that it may have a child session, is what
  its tree says, except that an abandoned nested call bars it for good.
* `LiveIsReplay`: at every step the messages in memory are those anyone would rebuild from the log
  at that moment. `AnnouncedOnce`: a turn that the user cancelled is announced with his
  next prompt, in the session and in a fork of it, by no other prompt, and the replay
  of that prompt still carries it. `CallsAnswered`: the model is never asked to go on from
  calls without observations, unless the rollout of those calls was broken off.
* `LatchedIsClosed`: once who latched a session has closed what he found, no request of it
  uses an open client or response beyond its own look at the latch: registration and
  cancellation may come in any order. `CancelledForAReason`: in the step in which a request turns out to
  be cancelled, the rollout of its session is stopped, or a call of its session that was given up with a
  live broker is not done cancelling, or has left that broker behind and nobody has reset
  the session since. A call that ended with its broker gone entitles nobody.

`CHECK_DEADLOCK FALSE` where the system may stop: run ids are finite and the runner may be
closed (`toolruns`, `rows`), a tab may have had all its rollouts (`conversations...`,
`completions`), the log may be full (`transcripts`), a batch ends (`calltree`). The two stores
never stop.

### Bounds

`MaxRow` is the largest rowid. Four rows suffice for an activation that is
viewed, deleted, and whose number or rowid is given out again beside the core
rows; five let both toolboxes be created and shadow each other with three
versions to spare. Two toolboxes are what shadowing needs, two names tell "another
tool" from "the same". One caller is enough, since a caller's only trace in the tables
are his events and his guarded write, and writers need no identity: any of the other
writes may be another caller's. Two authored sources tell a replaced source from the viewed one, two libraries
let a core tool be upgraded under the call. Sources are symmetric. A writer picks any source and any set of paths.

Three runs against two active ones make the limit bind; a retention of one
makes an eviction happen with the second completion; the run the caller does
not see shows that retention and limits count runs of others. One chunk of output puts a third
generation between start and end; more repeat it. One reset separates an old from a new
conversation. A generation is bumped at most by each chunk, one stop and the
finish, hence `MaxGen`.

Three agents against an allowance of two launches and two slots: the third is refused, for
its tree's allowance whenever it asks, and `AgentsBounded` says that every agent
in a rollout holds a slot. One agent is nested below another (a cancel must pass two
levels) and one is launched by a detached run. Two pairs of handles share a
session: an agent may continue the session of the tab that its ancestor belongs to,
or that of its own host. Two rollouts of the tab in `conversations_end` let the
second one meet agents that the first left behind.

Two directories are what moving a toolbox needs; three toolboxes are the two of the
directories and one of the user's. Two annotation events make a guarded writer stale and let an unguarded one overwrite what he has not
read; the annotated session is kept apart from the others because neither kind of event
affects the other. The relay needs two calls so that one can end while the other pages, and an event of
somebody else in between. A tree of four calls at depth two has siblings, a child and a
grandchild, hence an abandoned call that waits for another. Six events hold a cancelled turn
with two calls, a prompt and the first turn after it; a rollout that has begun runs on
to its end beyond the bound. One retry and one budget unit make the second attempt and the
refused request happen; a second rollout meets what the first left registered.

### Fairness

The two stores, `CallTree` and `Transcripts` have none: they promise nothing in time. For the runner: threads are
scheduled and a sink returns (`_stage_detached_event` only takes a lock that
nobody holds for long); a worker whose run was stopped ends, because `_call` polls
`cancelled` and kills the process group; a worker that was not stopped may run for
ever, so `Finish` is fair only after a stop, and a wait need never
time out. In `Conversations` threads run, and what has been cancelled notices:
`_call` polls `cancelled` and its process, `_kill_process_group` and
`_stop_process_group` are bounded, and `cancel_current` of the provider session
makes the transport raise. A model turn or a worker that is not cancelled is under no
fairness. In the tab the timer fires as long as the application runs.

In `Completions` threads run, and a request whose client or response was closed gets an error
(`Broken(s) /\ Fail(s)`): httpx raises in a read from a closed stream. The network itself is
under no fairness, so `AloneTheBrokerEnds` needs the closing to reach whatever the request was doing. A
worker that was given up is killed, so its broker reads the end of the connection. For a foreground
call the same is false (`CancelReturns`, which no run checks): a sibling that ends in between lifts the
latch under the request.

### Where code and documents disagree

* `conversations_orphan`. A call that is left closes the agents of the prompts that have
  entered `prompt_session`. A request that is still being received, or that the worker
  sends before it is killed, is missed: after a tool timeout its agent is created, registers
  (its parent goes on) and runs until the parent is stopped or closed. The docstring of
  `_cancel_tool_session_prompts` says that children are cancelled when their worker is stopped.
  A prompt that had entered is never missed, and what is missed is still closed with its parent
  (`StoppedTreeClosed`).
* `selection_moved`. The toolbox made for a directory is named after it and keeps the name when
  `set_cwd_default` gives it to another directory. The first directory then has no default, and
  making one raises `toolbox_exists`: no session can be created there, nor a stack
  reset. `README.md` says that each working directory has a default toolbox.

Without a run of their own, but easy to see with the ones there are:

* `delete_tool(version=...)` may delete the version a call is running: the terminal event violates its
  foreign key and the outcome is lost (`RunningCallFinishes`), where `versioning.md` says that the
  running call finishes on the old source. If another version takes the freed rowid first, the event
  names that one (`StableIdentity`), where `README.md` calls the identities stable. And `MAX(version) + 1`
  hands a deleted number out again, so a guarded write replaces a version its author never saw
  (`StaleIsRejected`), where `README.md` says that `base_version` rejects stale assumptions. TLC violates each
  in the instance of `store_calls.cfg` within ten states. With two selected toolboxes a guarded write
  may land in another toolbox than the view without any such deletion, when the binding viewed is deleted
  and the namesake has the same version number (`WriteReachesViewed`; it takes an instance without core tools).
* The sink of a run names its tab, not its conversation. A run the tab first hears of after
  `/clear` opens a row in the cleared tab; `HiddenStaysHidden` covers those it had heard of.
* The latch of a session is lifted by whichever of its calls is joined first. A request of a sibling that is being
  given up at the same time, and has not looked yet, then goes out to the network for a call that nobody waits
  for (`CancelReturns`, with two calls in the foreground), where the docstrings of `CompletionTransport` have
  `cancel_current` make an active `complete` return promptly.
* A call left by timeout cancels the completions of its siblings, too; and a broker that outlives its join keeps the
  latch set, so that the next turn of the model is refused as cancelled. Both are within
  `CancelledForAReason`, which says only that it goes no further.
* A nested call cancelled by its caller has no terminal event (`except Exception` does not catch
  the cancellation), so its caller is no active leaf any more and every later completion
  or prompt of it is refused as `invalid_session_origin`. So is one beside a nested call in a
  `gather`. `sessions.md` mentions the missing event, not its consequence.
* In a batch of several calls, an event that is committed while no call of it watches, before
  the first or between two threads, leaves a gap in the ordered sink behind which all later
  events of the batch wait for ever (`CallIsRelayed`, in the instance of `calltree.cfg`). So does one that only a
  call watched whose process could not be started. They are in the log, but are not
  shown, where `README.md` says that committed events are relayed while the worker runs.
* `update_session_metadata` without `expected_revision` lets the last commit win, as `sessions.md` says: a lost
  update that `LogExplains` names rather than excludes.
* After a compaction a crash before the child's first prompt loses the announcement of the
  cancelled turn. A rollout that an error or a crash breaks off leaves calls without
  observations, which the next rollout hands to the model.
* `sessions.md` says that a child inherits the selection snapshotted for its parent invocation;
  `spawn` and `fork` give it the target session's present one.

`HiddenStaysHidden` holds thanks to something that looks like an omission: a reset keeps
ignoring a run whose staged note says `cancelled`, while it forgets the
succeeded and failed ones. Of a cancelled run a `cancelling` note may still be
under way, though an older one; the mutant `IgnoredUnlessEnded` shows the row it would open.

## What is proved

Every invariant and every action property that a passing run checks is a theorem, for every value of the
constants that the named assumption allows.

### The tool tables

`ToolStoreProofs` proves for every set of toolboxes, names, sources, paths,
selections and callers, and every `MaxRow`:

* `TypeCorrect`: `Spec => []TypeOK`
* `BindingsSound`: `Spec => []BindingIntegrity`
* `LineagesSurvive`: `Spec => []LineageIntact`
* `CoreAlwaysRecoverable`: `Spec => []CoreRecoverable`
* `WritesAreVisible`: `Spec => WriteVisible`
* `IdentitiesStay`: `Spec => []IdentityUnlessDeleted`
* `ResultsAreKept`: `Spec => []ResultUnlessDeleted`
* `GuardedWritesAreSafe`: `Spec => GuardedUnlessDeleted`

from `StoreAssumption` (core names are names, shipped and authored sources are
different, selections are non-empty sequences of toolboxes) and `NullAssumption`
(`Null` is none of the values it stands beside).

Neither `BindingIntegrity`, `LineageIntact` nor `CoreRecoverable` is inductive. The invariant `IInv` adds: every row
belongs to a known lineage and is of a known toolbox (`OwnedRows`), without which a
new row of a fresh toolbox might meet old rows under its lineage, and what each phase of a caller knows
(`ClientsOK`), from which its writes land in real lineages. `BindingIntegrity` needs
`LineageIntact` and the reverse: the fallback of a deletion exists because another
row of the lineage does, and the lineage keeps a version because the deletion asked for
more than one. Two facts carry the argument: a rowid that `IsNext` yields is
free, and a version number that `IsNext` yields is unused in its lineage. The module
has one lemma per action, `NextKeeps` joins them, and `Invariance` lifts
them to the specification.

`WriteVisible` is a property of steps. By `BindingIntegrity` no binding names a free row, so one that
names a row that was free is this write's own (`WriteIsSeen`); what the selection asks first was not bound
before the write and is not after it. Every other step binds one lineage at most, to a row that exists
(`OthersAreSilent`).

The three theorems about callers need more: `OutsideInv` adds `IdentityUnlessDeleted` itself and
`HeldStable`, that what a caller has read in his last SELECT is still so (the row exists, is of the tool
he looked for, has the version and source he read, or is core version 1, which an upgrade may
rewrite), unless he is marked `gone`. Steps come in two kinds. Most free no row and change none but core version 1 (`RowsPersist`), and a new
row takes a rowid that is free, hence one that no unmarked caller and no event holds (`StayingKeeps`). The
deletion of a version frees one row (`OneRowGoes`) and in the same transaction drops it from the
events and marks exactly the callers that hold it (`FreeingKeeps`), so when the rowid comes back whoever still has it is
marked.

### The defaults of directories

`SessionStoreProofs` proves `DirectoriesOpen`: `Spec => []OpensUnlessMoved`, for every set
of directories, names and sessions and every bound, from `StoreAssumption` and
`NamesAssumption`. The second says that nobody types the name that
`_default_toolbox_name` derives from a path: it contains a digest of it, and a toolbox that
took that name would close the directory, moved or not. `OpensUnlessMoved` is
nearly inductive by itself: a directory without a default that was not
moved has its name free, and only `CreateDefault` of that same directory, by `OwnInjective`,
can take it. What has to be added is that a session's directory is one
(`SessionsOK`), because resetting a session opens its directory once more.

### The logs of sessions

The same module proves, from the same assumptions and for logs of any length,

* `TypeCorrect`: `Spec => []TypeOK`
* `LogsExplain`: `Spec => []LogExplains`

The invariant `LogInv` says of each session that its events are of their types and account for its row
(`Account`), or that it does not exist and its log is empty. That a session without row has no
events must be said, since its first event will be number 1. The argument is about what a log keeps when
it grows (`Longer`): the stack and the text before a place do not change (`StackAtPrefix`, `TextAtPrefix`).
`AccountOfSelection` appends one change, `AccountOfUpdate` up to one note for each field, of a writer who
passed the present revision or none: they are numbered on
from the revision, which is the number of notes (`FS_Union`, `FS_Interval`), and a note's `old` is
the text before it because no earlier note of the same update is of its field.
`WithoutFacts` says what the recursive function in `Without` computes, that a selection never names a
toolbox twice; it is an induction over the sequence, carried out as the choice of a least
counterexample (`LeastElement`).

### Rollouts and agents

`ConversationsProofs` proves, from `ConversationsAssumption` (finitely many handles and calls, an agent
prompted by one call at most, positive limits),

* `TypeCorrect`: `Spec => []TypeOK`
* `RolloutsAreSerial`: `Spec => []SessionsSerial`
* `LatchMeansForced`: `Spec => []LatchFresh`
* `NoWorkerSurvives`: `Spec => []ForcedHasNoWorker`
* `AgentsAreBounded`: `Spec => []AgentsBounded`
* `TreesAreClosed`: `Spec => []StoppedTreeClosed`

`LatchFresh` and `SessionsSerial` hold each other up: the end of a rollout lifts the latch of its
session, and only because no other handle of the session is in a rollout does it not lift another's. `PromptsOK` ties an
agent's rollout to the stage of the prompt it belongs to; without it a broker might end a prompt whose agent
still runs. The bounds are counting arguments. Agents in a rollout are the image of the prompts
that hold a slot, whose number is `active` (`SlotsOK`). The agents of a tab's tree inject into
pairs of a rollout of the tab and one of its `MaxLaunches` launches: each was charged to a budget of a
rollout of its root (`BudgetsOK`), and a budget's charges are no more than its
count (`AccountsOK`). `OriginsOK` is about calls left with a prompt on the way: whoever was listed
is closed or on his way to be. `ClosedBelow` needs that a child joins under the lock of its parent, and that a cancel
closes all that is `Below`.

### Completions

`CompletionsProofs` proves, from `CompletionsAssumption` (finitely many calls, a detached one started by
another, at least one rollout),

* `TypeCorrect`: `Spec => []TypeOK`
* `CancellationReaches`: `Spec => []LatchedIsClosed`
* `TextIsShownOnce`: `Spec => []TextShownOnce`
* `NobodyIsCancelledForNothing`: `Spec => CancelledForAReason`

`TypeOK` itself is not obvious: a counter of operations could fall below zero or a budget be overspent. `UsesOK` and
`SpentOK` make both exact, the operations of a key the number of what its requests have registered,
the spending the number of requests paid for. `StageOK` says what goes with each stage of a request,
`HeldOK` that what it has open is registered, so that whoever latches finds it, and
`ClosedOK` that after the latch whatever has passed its look is closed or found by somebody who is about
to close it: registration before the latch is found, registration after it looks. A reset of the key between
makes it true again by lifting the latch. `RolloutOK` gives each latch its reason: whatever session is
latched, somebody may still have it cancelled (`MayCancel`). It is inductive only because whoever stops being
entitled lifts the latch in the same step: the join of a call whose broker has ended, the end of the rollout; a call
that leaves its broker keeps both the latch and its title. A request turns out to be
cancelled only under a latch or for a stopped turn, and no such step takes a title away (`StillEntitled`); hence
`CancelledForAReason`.

### The relays of a batch

`CallTreeProofs` proves, from `CallTreeAssumption` (a batch is finite, a tree has at least its root call),

* `TypeCorrect`: `Spec => []TypeOK`
* `NothingIsLost`: `Spec => []RelayFaithful`
* `LeafAgrees`: `Spec => []LeafIsFree`

`Covered` is the heart: for each event and each call that watched when it was committed, the sink has taken the event,
or the call has still to read it, or the call has failed. When all calls are over none has anything left to
read, so what is not taken was watched by failed calls alone (`Orphaned`). `SinkOK` says that an
ordered sink shows the log from 1 on without a gap and holds back nothing that would be next, so what it holds back
waits behind an event that nobody took. `RunEnds` finds the end of the run that the sink shows at
once (the `CHOOSE` of `Ready`) as a least element. `TreeLogged` says that starts and
terminal events in the log are the calls in the trees, from which the SQL of the active leaf is what the
tree says.

### The runner of detached tools

`ToolRunsProofs` proves, from `RunsAssumption` (finitely many runs, limits of at least 1,
any number of callers that see any runs),

* `TypeCorrect`: `Spec => []TypeOK`, with it that the generation of a run never exceeds its
  chunks of output and two
* `WorkersAreBounded`: `Spec => []WorkersBounded`
* `HandlesAreAccounted`: `Spec => []HandlesAccounted`
* `CloseLeavesNone`: `Spec => []CloseJoinsAll`
* `KeepsLifecycleSteps`: `Spec => Lifecycle!Init /\ [][Lifecycle!Next]_(Lifecycle!lifecycle)`, the
  safety of the refinement `KeepsLifecycle`

The invariant `IInv` joins them by what the code keeps in step by hand. `RunsOK` ties
a run's status to where its thread is and its stop reason to its status; without it a
finishing thread might find an outcome already there. `NotesOK` says in which sink a thread can
be, so a sink that returns wakes its own thread and no other, and the joins of `close` leave none
in one. `RetainedOK` says that retained runs are gone and retained once, so evicting the oldest
frees exactly one handle. `LimitOK` counts handles, as `start_detached` does; a subprocess
belongs to an active handle, and `WorkersBounded` follows. `ClosedOK` makes
the joins of `close` final, because no run starts after `_closed`.
For the refinement a run whose thread never started is no run (`NeverRan`). One lemma maps
each step that begins, stops or ends a run, `OthersStutter` the rest, among
them the shutdown of a runner without runs.

### The rows of a tab

`ToolRunRowsProofs` proves of the composition, from `RunsAssumption` and any number of resets,

* `RowsTypeCorrect`: `SpecRows => []RowsTypeOK`
* `RunsHaveOneRow`: `SpecRows => []OneRowPerRun`
* `HiddenRunsStayHidden`: `SpecRows => HiddenStaysHidden`

`RowsInv` has the runner's `IInv`, every step of the composition being one of the runner or of the
tab alone. What it adds follows notes from the section that builds them to the row: none is ahead of its run,
one of an outcome is the last of its run and told by the run's thread (`NotesSound`), and the same of what
is staged (`StagedSound`). `HeardOK` says that a run the tab has heard of is live, ignored or silent: it has
ended and nothing newer than what was displayed is under way. The step that could break it is the reset, which stops
ignoring a run whose staged note tells of success or failure. `OutcomeIsAlone` shows that no note of such a run
is under way then: a caller's note would mean that the run was cancelled, and a cancelled run ends as
cancelled (`VerdictsOK`).

### What the model is told

`TranscriptsProofs` proves, from `TranscriptsAssumption` (two different sessions) and for any number
of calls in a batch, events, breaks and crashes,

* `TypeCorrect`: `Spec => []TypeOK`
* `MemoryIsTheLog`: `Spec => []LiveIsReplay`
* `NoCallIsOpen`: `Spec => []CallsAnswered`
* `StopsAreAnnounced`: `Spec => []AnnouncedOnce`

A replay is a recursive function of the length of the log, which is defined by a `CHOOSE`:
`UnfoldsExists` shows by a least counterexample that there is one, `ReadAllAppend` what one more event
does to it, and one lemma for each kind of event what that event does to a `Sound` replay. From there
the proofs follow what a step appends: one event (`One`), two (`Two`) or none.

* `RunInv` says of a running rollout that its messages are those of the replay, that its prompt has begun,
  and that the calls open in the replay are exactly those of its last batch from `done` on. The last part is what
  makes the position in the batch, which only the memory has, agree with the log.
* `AnswersInv` adds what a cancelled turn needs: whatever is cut off, the messages up to `safe` have no
  call without observation, except calls of a broken rollout; and the same of the replay up to every event
  that ends a turn of the root, because a fork may begin at any of them, also long after.
* `ToldInv` says that the prompts replayed with a header are those that should have one (`Told`), and that
  `cancelled_prompt_pending` holds exactly while a stop is due; that no prompt is behind `safe` while its
  turn is under way, so none is cut off and its announcement lost with it; and of the handle's flag, which the log
  does not have, that it says nothing the replay does not say, except in a compacted child whose user has not
  prompted yet (`Fits`).

## Only model-checked

* Liveness, which is beyond the prover: `StopsTakeEffect`, `RowsSettle`, `StoppedAgentsLeave`,
  `AloneTheBrokerEnds`, and the fairness of the refinement `KeepsLifecycle`.
* What fails (`OrphansAreClosed`, `DirectoryOpens`) is shown by a behaviour of a run. Of the claims that no run
  checks (`StableIdentity`, `RunningCallFinishes`, `StaleIsRejected`, `WriteReachesViewed`, `CallIsRelayed`,
  `CancelReturns`) the modules keep the definition and the instance that refutes it.

## Not modelled

* Migrations: one transaction of twelve steps at opening, without concurrency of its own; its result is
  an initial state of `SessionStore`.
* Threads of tools of the synchronous kind, which go on after a cancellation, and the
  capabilities reserved to core slots.
* A sink that raises while a batch is relayed.
* Clients handed to the transport by a host, two processes with the same session in a rollout,
  `cancelled` events of the form without mode.
* The wire format of model requests and of the worker's frames, tool source validation,
  rendering, approval, layout, the text of core tools, the command line: pure functions of their
  input or pure I/O.

## Plan

1. Every safety property the runs check is proved. What the modules take from one another is not yet a theorem:
   that `Transcripts`, with its rollouts seen as those of `Conversations`, keeps one rollout per session; that the events
   `Transcripts` and `CallTree` append are those of one log.
2. Tabs of the terminal with several conversations, and synchronous tools in `CallTree`.
