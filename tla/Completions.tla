----------------------------- MODULE Completions -----------------------------
(***************************************************************************)
(* Requests to the model (openrouter.py) on behalf of a rollout: the       *)
(* streams of its turns, and the completions of its tool calls, which the  *)
(* broker thread of each call (model_provider.py) serves one at a time.    *)
(* The conversation and its foreground calls share one cancellation        *)
(* domain, the state under a session key in _active_sessions; a detached   *)
(* call has a key of its own and shares the budget of the call that        *)
(* started it.  Whoever stops work latches the session's cancellation and  *)
(* closes what it finds open: the host at a forced stop, and every call    *)
(* that is left while its broker lives (isolation.py), which also lifts    *)
(* the latch again.                                                        *)
(*                                                                         *)
(* Each request makes an HTTP client of its own, as the program configures *)
(* it.  A step is one section under _active_lock with the work up to the   *)
(* next one; a failure is seen where its handler looks at the latch.       *)
(* Content has no value; the network does as it likes.                     *)
(***************************************************************************)
EXTENDS Integers, FiniteSets

CONSTANTS
  Calls,          \* tool calls of the rollout, detached ones included
  Detachable,     \* those that may be detached tool runs
  StarterOf,      \* the call that detaches each of these
  Host,           \* the host thread, and the session key of the rollout
  Turn,           \* the stream of a model turn
  MaxRetries,     \* _MAX_RETRIES
  MaxModelCalls,  \* MAX_MODEL_CALLS
  MaxRequests,    \* bound: completions one worker asks for
  MaxRollouts     \* bound: rollouts, of which the first calls the tools

Slots  == Calls \cup {Turn}      \* a request in progress
Actors == Calls \cup {Host}      \* who cancels and resets
Keys   == Calls \cup {Host}      \* a detached call's trace session is its own

ASSUME CompletionsAssumption ==
  /\ IsFiniteSet(Calls)
  /\ Host \notin Calls /\ Turn \notin Calls
  /\ Detachable \subseteq Calls
  /\ StarterOf \in [Detachable -> Calls \ Detachable]
  /\ MaxRetries \in Nat /\ MaxModelCalls \in Nat
  /\ MaxRequests \in Nat /\ MaxRollouts \in Nat \ {0}

VARIABLES
  detached,   \* the calls that are detached runs
  rollout,    \* "tools", "turn" or "ended"
  rounds,     \* rollouts begun
  stopped,    \* the rollout was cancelled
  at,         \* where the thread of each request is
  outcome,    \* how the request in a slot ended
  asked,      \* requests a slot has had
  tries,      \* attempts the present one has made
  client,     \* its HTTP client
  response,   \* its response
  emitted,    \* emitted_text
  shown,      \* attempts that emitted text
  spent,      \* the budget of each call tree
  known,      \* keys of _active_sessions
  latch,      \* those with the cancelled event set
  operations, \* operations of each
  resources,  \* clients and responses of each
  call,       \* where the thread of each call is
  gone,       \* calls whose broker thread has ended
  stuck,      \* calls that left a broker behind, and their session latched
  closing,    \* actors that have latched a session and not closed yet
  found       \* what they found to close

registry == <<known, latch, operations, resources>>
requests == <<at, outcome, asked, tries, client, response, emitted, shown>>
brokers  == <<call, gone, stuck>>
closers  == <<closing, found>>
host     == <<rollout, rounds, stopped>>
vars     == <<detached, host, requests, spent, registry, brokers, closers>>

KeyOf(s) == IF s \in detached THEN s ELSE Host
TreeOf(c) == IF c \in detached THEN StarterOf[c] ELSE c
Foreground == Calls \ detached

Stages == {"idle", "asked", "admitted", "bound", "sending", "answered",
           "reading", "waiting", "leaving"}

\* The present client and the present response of a slot.
ClientId(s)   == <<s, asked[s], 0>>
ResponseId(s) == <<s, asked[s], tries[s]>>
Ids == Slots \X (0 .. MaxRequests + MaxRollouts) \X (0 .. MaxRetries + 1)

TypeOK ==
  /\ detached \subseteq Detachable
  /\ rollout \in {"tools", "turn", "ended"}
  /\ rounds \in 1 .. MaxRollouts
  /\ stopped \in BOOLEAN
  /\ at \in [Slots -> Stages]
  /\ outcome \in [Slots -> {"none", "ok", "failed", "cancelled"}]
  /\ \A s \in Slots : ResponseId(s) \in Ids
  /\ client \in [Slots -> {"none", "open", "closed"}]
  /\ response \in [Slots -> {"none", "open", "closed"}]
  /\ emitted \in [Slots -> BOOLEAN]
  /\ shown \in [Slots -> 0 .. MaxRetries + 1]
  /\ spent \in [Calls -> 0 .. Cardinality(Calls) * MaxRequests]
  /\ latch \subseteq known /\ known \subseteq Keys
  /\ operations \in [Keys -> 0 .. 3 * Cardinality(Slots)]
  /\ resources \in [Keys -> SUBSET Ids]
  /\ \A k \in Keys \ known : operations[k] = 0 /\ resources[k] = {}
  /\ call \in [Calls -> {"running", "closing", "joining", "over"}]
  /\ gone \subseteq Calls /\ stuck \subseteq Calls
  /\ closing \subseteq Actors
  /\ found \in [Actors -> SUBSET Ids]

Init ==
  /\ detached \in SUBSET Detachable
  /\ rollout = "tools" /\ rounds = 1 /\ stopped = FALSE
  /\ at = [s \in Slots |-> "idle"]
  /\ outcome = [s \in Slots |-> "none"]
  /\ asked = [s \in Slots |-> 0]
  /\ tries = [s \in Slots |-> 0]
  /\ client = [s \in Slots |-> "none"]
  /\ response = [s \in Slots |-> "none"]
  /\ emitted = [s \in Slots |-> FALSE]
  /\ shown = [s \in Slots |-> 0]
  /\ spent = [c \in Calls |-> 0]
  /\ known = {} /\ latch = {}
  /\ operations = [k \in Keys |-> 0]
  /\ resources = [k \in Keys |-> {}]
  /\ call = [c \in Calls |-> "running"]
  /\ gone = {} /\ stuck = {}
  /\ closing = {}
  /\ found = [a \in Actors |-> {}]

-----------------------------------------------------------------------------
(* _active: what a request registers and unregisters.                      *)

Register(k, ids) ==
  /\ known' = known \cup {k}
  /\ operations' = [operations EXCEPT ![k] = @ + 1]
  /\ resources' = [resources EXCEPT ![k] = @ \cup ids]
  /\ UNCHANGED latch

\* The ends of n registrations.  A state without entries is dropped, unless it
\* is latched.
Unregister(k, n, ids) ==
  /\ operations' = [operations EXCEPT ![k] = @ - n]
  /\ resources' = [resources EXCEPT ![k] = @ \ ids]
  /\ known' = IF k \notin latch /\ operations'[k] = 0 /\ resources'[k] = {}
              THEN known \ {k} ELSE known
  /\ UNCHANGED latch

Move(s, stage) == at' = [at EXCEPT ![s] = stage]

\* The request of s is over, but for what it has registered.
Settle(s, how) ==
  /\ Move(s, "leaving")
  /\ outcome' = [outcome EXCEPT ![s] = how]

Rest == UNCHANGED <<detached, host, brokers, closers>>

-----------------------------------------------------------------------------
(* A request: _complete and _stream, _request_client.                      *)

\* The worker sends one request at a time, while the connection stands.
Free(c) ==
  /\ at[c] = "idle" /\ c \notin gone
  /\ asked[c] < MaxRequests
  /\ call[c] \in {"running", "closing"}

\* The budget of the call tree pays for a request, even for one it refuses.
Charge(c) == spent' = [spent EXCEPT ![TreeOf(c)] = @ + 1]

\* The broker of c receives a request.
Ask(c) ==
  /\ Free(c)
  /\ Charge(c)
  /\ asked' = [asked EXCEPT ![c] = @ + 1]
  /\ Move(c, IF spent'[TreeOf(c)] > MaxModelCalls THEN "idle" ELSE "asked")
  /\ UNCHANGED <<outcome, tries, client, response, emitted, shown, registry>>
  /\ Rest

\* Its child session is recorded, and the request registers; then it looks at
\* the latch.
Enter(s) ==
  /\ at[s] = "asked"
  /\ Register(KeyOf(s), {})
  /\ IF KeyOf(s) \in latch THEN Settle(s, "cancelled")
     ELSE Move(s, "admitted") /\ UNCHANGED outcome
  /\ UNCHANGED <<asked, tries, client, response, emitted, shown, spent>>
  /\ Rest

\* An attempt.  A client that was closed raises what nobody expects.
Attempt(s) ==
  IF client[s] = "closed"
  THEN Settle(s, "failed") /\ UNCHANGED <<tries, emitted>>
  ELSE /\ tries' = [tries EXCEPT ![s] = @ + 1]
       /\ emitted' = [emitted EXCEPT ![s] = FALSE]
       /\ Move(s, "sending")
       /\ UNCHANGED outcome

\* Mutant: the latch is not looked at once the client is registered.
BindUnchecked(s) ==
  /\ at[s] = "admitted"
  /\ client' = [client EXCEPT ![s] = "open"]
  /\ Register(KeyOf(s), {ClientId(s)})
  /\ Attempt(s)
  /\ UNCHANGED <<asked, response, shown, spent>>
  /\ Rest

\* The request makes its client and registers it.
Bind(s) ==
  /\ at[s] = "admitted"
  /\ client' = [client EXCEPT ![s] = "open"]
  /\ Register(KeyOf(s), {ClientId(s)})
  /\ Move(s, "bound")
  /\ UNCHANGED <<outcome, asked, tries, response, emitted, shown, spent>>
  /\ Rest

\* The look at the latch that follows.
Begin(s) ==
  /\ at[s] = "bound"
  /\ IF KeyOf(s) \in latch
     THEN /\ Settle(s, "cancelled")
          /\ client' = [client EXCEPT ![s] = "closed"]
          /\ UNCHANGED <<tries, emitted>>
     ELSE Attempt(s) /\ UNCHANGED client
  /\ UNCHANGED <<asked, response, shown, spent, registry>>
  /\ Rest

\* The response begins, and is registered.
Answered(s) ==
  /\ at[s] = "sending"
  /\ response' = [response EXCEPT ![s] = "open"]
  /\ Register(KeyOf(s), {ResponseId(s)})
  /\ Move(s, "answered")
  /\ UNCHANGED <<outcome, asked, tries, client, emitted, shown, spent>>
  /\ Rest

\* The response is left.
Drop(s) ==
  /\ response' = [response EXCEPT ![s] = "none"]
  /\ IF at[s] = "sending" THEN UNCHANGED registry
     ELSE Unregister(KeyOf(s), 1, {ResponseId(s)})

\* Its own look at the latch.  That a request was cancelled is no reason to
\* try it again, even if the latch is lifted meanwhile.
Checked(s) ==
  /\ at[s] = "answered"
  /\ IF KeyOf(s) \in latch THEN Settle(s, "cancelled") /\ Drop(s)
     ELSE Move(s, "reading") /\ UNCHANGED <<outcome, response, registry>>
  /\ UNCHANGED <<asked, tries, client, emitted, shown, spent>>
  /\ Rest

\* A text delta of a stream.
Delta(s) ==
  /\ at[s] = "reading" /\ s = Turn /\ response[s] = "open"
  /\ ~ emitted[s]
  /\ emitted' = [emitted EXCEPT ![s] = TRUE]
  /\ shown' = [shown EXCEPT ![s] = @ + 1]
  /\ UNCHANGED <<at, outcome, asked, tries, client, response, spent, registry>>
  /\ Rest

\* The response is complete and valid.
Read(s) ==
  /\ at[s] = "reading" /\ response[s] = "open"
  /\ Settle(s, "ok")
  /\ Drop(s)
  /\ UNCHANGED <<asked, tries, client, emitted, shown, spent>>
  /\ Rest

\* A stopped rollout does not wait for its stream.
Abandon(s) ==
  /\ at[s] = "reading" /\ s = Turn /\ stopped
  /\ Settle(s, "cancelled")
  /\ Drop(s)
  /\ UNCHANGED <<asked, tries, client, emitted, shown, spent>>
  /\ Rest

\* Mutant: a stream is retried after it has emitted text.
MayRetryAlways(s) == tries[s] <= MaxRetries

MayRetry(s) == tries[s] <= MaxRetries /\ ~ emitted[s]

\* The handler of a failure: the request is cancelled, given up (an error that is
\* not retryable, or a deadline too near), or waits for a retry.
Handled(s) ==
  \/ KeyOf(s) \in latch /\ Settle(s, "cancelled")
  \/ KeyOf(s) \notin latch /\ Settle(s, "failed")
  \/ KeyOf(s) \notin latch /\ MayRetry(s) /\ Move(s, "waiting") /\ UNCHANGED outcome

\* The attempt fails, because of the network, of what the response says, or
\* because something was closed.
Fail(s) ==
  /\ at[s] \in {"sending", "reading"}
  /\ Handled(s)
  /\ Drop(s)
  /\ UNCHANGED <<asked, tries, client, emitted, shown, spent>>
  /\ Rest

\* The delay is over, and nobody has set the session's event meanwhile.
Retry(s) ==
  /\ at[s] = "waiting"
  /\ Attempt(s)
  /\ UNCHANGED <<asked, client, response, shown, spent, registry>>
  /\ Rest

\* The client is unregistered and closed, then the request.
Leave(s) ==
  /\ at[s] = "leaving"
  /\ Unregister(KeyOf(s), IF client[s] = "none" THEN 1 ELSE 2, {ClientId(s)})
  /\ Move(s, "idle")
  /\ outcome' = [outcome EXCEPT ![s] = "none"]
  /\ tries' = [tries EXCEPT ![s] = 0]
  /\ client' = [client EXCEPT ![s] = "none"]
  /\ emitted' = [emitted EXCEPT ![s] = FALSE]
  /\ shown' = [shown EXCEPT ![s] = 0]
  /\ UNCHANGED <<asked, response, spent>>
  /\ Rest

-----------------------------------------------------------------------------
(* Cancelling a session and making it usable again.                        *)

\* The section of _cancel_session; whoever waits for a retry wakes up.
Latch(a, k) ==
  LET woken == {s \in Slots : KeyOf(s) = k /\ at[s] = "waiting"}
  IN /\ known' = known \cup {k}
     /\ latch' = latch \cup {k}
     /\ closing' = closing \cup {a}
     /\ found' = [found EXCEPT ![a] = resources[k]]
     /\ at' = [s \in Slots |-> IF s \in woken THEN "leaving" ELSE at[s]]
     /\ outcome' = [s \in Slots |-> IF s \in woken THEN "cancelled" ELSE outcome[s]]
     /\ UNCHANGED <<operations, resources>>

\* What it found is closed after the lock is released.
CloseFound(a) ==
  /\ a \in closing
  /\ response' = [s \in Slots |->
       IF response[s] = "open" /\ ResponseId(s) \in found[a] THEN "closed" ELSE response[s]]
  /\ client' = [s \in Slots |->
       IF client[s] = "open" /\ ClientId(s) \in found[a] THEN "closed" ELSE client[s]]
  /\ closing' = closing \ {a}
  /\ found' = [found EXCEPT ![a] = {}]
  /\ call' = [c \in Calls |-> IF c = a THEN "joining" ELSE call[c]]
  /\ UNCHANGED <<detached, host, at, outcome, asked, tries, emitted, shown, spent,
                 registry, gone, stuck>>

\* Mutant: a reset forgets the session while others still use it.
ForgetSession(k) ==
  /\ latch' = latch \ {k}
  /\ known' = known \ {k}
  /\ operations' = [operations EXCEPT ![k] = 0]
  /\ resources' = [resources EXCEPT ![k] = {}]

\* _reset_session.
ResetSession(k) ==
  /\ latch' = latch \ {k}
  /\ known' = IF operations[k] = 0 /\ resources[k] = {} THEN known \ {k} ELSE known
  /\ UNCHANGED <<operations, resources>>

-----------------------------------------------------------------------------
(* A call and its broker: the end of _call, and serve.                     *)

\* The broker reads the end of its connection: the worker has exited, or the
\* call has closed the other side.
BrokerEnds(c) ==
  /\ c \notin gone /\ at[c] = "idle"
  /\ gone' = gone \cup {c}
  /\ UNCHANGED <<detached, host, requests, spent, registry, call, stuck, closers>>

\* The worker has exited, or the call is given up, cancelled or timed out: the
\* provider is cancelled if the broker lives.
GiveUp(c) ==
  /\ call[c] = "running"
  /\ \/ /\ c \in gone
        /\ call' = [call EXCEPT ![c] = "over"]
        /\ UNCHANGED <<at, outcome, registry, closers>>
     \/ /\ c \notin gone
        /\ Latch(c, KeyOf(c))
        /\ call' = [call EXCEPT ![c] = "closing"]
  /\ UNCHANGED <<detached, host, asked, tries, client, response, emitted, shown,
                 spent, gone, stuck>>

\* A reset of session k leaves the others latched.
StuckBut(k) == {c \in stuck : KeyOf(c) # k}

\* Mutant: the provider is not reset.
JoinLatched(c) ==
  /\ call[c] = "joining"
  /\ stuck' = IF c \in gone THEN stuck ELSE stuck \cup {c}
  /\ call' = [call EXCEPT ![c] = "over"]
  /\ UNCHANGED <<detached, host, requests, spent, registry, gone, closers>>

\* The broker is joined, for a second at most, and the provider reset if it ended:
\* the cancellation of those who left a broker behind is lifted with it.
Join(c) ==
  /\ call[c] = "joining"
  /\ \/ /\ c \in gone
        /\ ResetSession(KeyOf(c))
        /\ stuck' = StuckBut(KeyOf(c))
     \/ /\ c \notin gone
        /\ stuck' = stuck \cup {c}
        /\ UNCHANGED registry
  /\ call' = [call EXCEPT ![c] = "over"]
  /\ UNCHANGED <<detached, host, requests, spent, gone, closers>>

-----------------------------------------------------------------------------
(* The rollout.                                                            *)

BatchOver == \A c \in Foreground : call[c] = "over"

\* The next turn asks for its stream; the check of the token comes before.
StartTurn ==
  /\ ~ stopped
  /\ \/ rollout = "tools" /\ BatchOver /\ UNCHANGED rounds
     \/ rollout = "ended" /\ rounds < MaxRollouts /\ rounds' = rounds + 1
  /\ rollout' = "turn"
  /\ asked' = [asked EXCEPT ![Turn] = @ + 1]
  /\ Move(Turn, "asked")
  /\ UNCHANGED <<detached, stopped, outcome, tries, client, response, emitted, shown,
                 spent, registry, brokers, closers>>

\* _cancel_locked.
Stop ==
  /\ rollout # "ended" /\ ~ stopped
  /\ stopped' = TRUE
  /\ Latch(Host, Host)
  /\ UNCHANGED <<detached, rollout, rounds, asked, tries, client, response, emitted,
                 shown, spent, brokers>>

MayEnd ==
  /\ Host \notin closing
  /\ \/ rollout = "tools" /\ BatchOver /\ stopped
     \/ rollout = "turn" /\ at[Turn] = "idle"

\* The end of send, under the lock of _cancel_locked.
End ==
  /\ MayEnd
  /\ rollout' = "ended"
  /\ stopped' = FALSE
  /\ ResetSession(Host)
  /\ stuck' = StuckBut(Host)
  /\ UNCHANGED <<detached, rounds, requests, spent, call, gone, closers>>

-----------------------------------------------------------------------------
RequestStep(s) ==
  \/ Enter(s) \/ Bind(s) \/ Begin(s) \/ Answered(s) \/ Checked(s) \/ Delta(s)
  \/ Read(s) \/ Abandon(s) \/ Fail(s) \/ Retry(s) \/ Leave(s)

CallStep(c) ==
  \/ Ask(c) \/ BrokerEnds(c) \/ GiveUp(c) \/ Join(c)

Next ==
  \/ \E s \in Slots : RequestStep(s)
  \/ \E c \in Calls : CallStep(c)
  \/ \E a \in Actors : CloseFound(a)
  \/ StartTurn \/ Stop \/ End

\* Threads run.  The network need not answer, unless the connection was closed.
Broken(s) == client[s] = "closed" \/ response[s] = "closed"

Fairness ==
  /\ \A s \in Slots :
       /\ WF_vars(Enter(s) \/ Bind(s) \/ Begin(s) \/ Checked(s) \/ Retry(s) \/ Leave(s))
       /\ WF_vars(Broken(s) /\ Fail(s))
  /\ \A c \in Calls :
       /\ WF_vars(Join(c))
       /\ WF_vars(call[c] # "running" /\ BrokerEnds(c))
  /\ \A a \in Actors : WF_vars(CloseFound(a))

Spec == Init /\ [][Next]_vars /\ Fairness

-----------------------------------------------------------------------------
\* Registering and cancelling may come in any order: while a session is latched
\* and nobody is about to close what he found there, nothing of it is in use that
\* has passed its own look at the latch.
LatchedIsClosed ==
  \A s \in Slots :
    /\ KeyOf(s) \in latch
    /\ \A a \in Actors : found[a] \cap {ClientId(s), ResponseId(s)} = {}
    => /\ at[s] \in {"sending", "answered", "reading"} => client[s] = "closed"
       /\ at[s] = "reading" => response[s] = "closed"
       /\ at[s] # "waiting"

\* Text of a turn is shown once: an attempt that has emitted some is the last,
\* and if the turn completes then the text shown is of the attempt that did.
TextShownOnce ==
  /\ shown[Turn] <= 1
  /\ outcome[Turn] = "ok" /\ shown[Turn] = 1 => emitted[Turn]

\* The call was given up with its broker alive, and is not done with it: what it
\* found is being closed, or the broker joined, or the broker did not end and
\* nobody has reset the session since.
Cancelling(c) == call[c] \in {"closing", "joining"} \/ c \in stuck

\* Somebody is entitled to have the requests of session k cancelled.
MayCancel(k) ==
  \/ k = Host /\ stopped
  \/ \E c \in Calls : KeyOf(c) = k /\ Cancelling(c)

\* A request that turns out to be cancelled is of a session that somebody may cancel.
ForAReason ==
  \A s \in Slots :
    outcome[s] # "cancelled" /\ outcome'[s] = "cancelled" => MayCancel(KeyOf(s))'

\* Nobody is cancelled for nothing.  When a request turns out to be cancelled, the
\* rollout of its session is stopped, or a call of its session is cancelling; a
\* call that has ended, and one whose broker had ended before it, cancels nothing
\* any more.  So a model turn is cancelled only when stopped or after a call of
\* its own rollout that left a broker behind, and never in a later rollout.
CancelledForAReason == [][ForAReason]_vars

\* The broker of a detached call, which shares its session with nobody, ends once
\* the call has been given up, without the network's help and whatever its
\* request was doing.
AloneTheBrokerEnds ==
  \A c \in Calls : (c \in detached /\ call[c] = "closing") ~> c \in gone

\* To cancel makes the request of a call return, of any call: the broker of one
\* that is given up ends, if the rollout does not end first.  No run checks it: it
\* fails, with two calls in the foreground, by the reset of the one that is joined
\* first.
CancelReturns ==
  \A c \in Calls : call[c] = "closing" ~> c \in gone \/ rollout = "ended"
=============================================================================
