------------------------ MODULE ConversationsProofs ------------------------
(***************************************************************************)
(* Proofs about Conversations, for every set of handles, calls and         *)
(* prompts, and every limit: rollouts of a session are serial, the latch   *)
(* is set for cancelled rollouts alone, none of their workers survives,    *)
(* agents are bounded by the slots and by the budgets of the tree, and     *)
(* what hangs below a stopped conversation is closed.                      *)
(***************************************************************************)
EXTENDS Conversations, FiniteSetTheorems, TLAPS

-----------------------------------------------------------------------------
(* The inductive invariant.                                                *)

\* A rollout holds a token exactly from its reservation to its end, and one of a
\* tab that is about to reserve may begin one more.
ThreadsOK ==
  /\ \A h \in Handles : token[h] # "none" <=> thread[h] \in {"model", "tools"}
  /\ \A t \in Tabs : thread[t] = "entered" => round[t] < MaxRounds
  /\ \A t \in Tabs : thread[t] # "done"

\* A kid's rollout is in its prompt's sending; before, it has not begun and has
\* neither calls nor children.
PromptsOK ==
  /\ \A c \in Calls : prompt[c] # "idle" => call[c] # "none" /\ PromptOf[c] # NoHandle
  /\ \A c \in Calls : PromptOf[c] # NoHandle =>
       /\ prompt[c] \in {"idle", "received", "entered", "counted"}
            => thread[PromptOf[c]] = "idle"
       /\ prompt[c] \in {"sent", "gone"} => thread[PromptOf[c]] \in {"idle", "done"}
  /\ \A k \in Kids : thread[k] # "idle" => \E c \in Calls : PromptOf[c] = k
  /\ \A c \in Calls : HostOf[c] \in Kids /\ call[c] # "none" => thread[HostOf[c]] # "idle"
  /\ \A k \in Kids : thread[k] = "idle" => children[k] = {}

\* Prompts that hold one of the slots.
Counted == {c \in Calls : prompt[c] \in {"counted", "sending", "sent"}}

SlotsOK == active = Cardinality(Counted) /\ active <= MaxForeground

\* The budget b is one of a rollout that a tab above h has had.
Pays(b, h) == b \in Budgets /\ b[1] \in RootOf(h) /\ b[2] <= round[b[1]]

BudgetsOK ==
  /\ \A h \in Handles : thread[h] \in {"model", "tools"} => Pays(budget[h], h)
  /\ \A c \in Calls : call[c] # "none" => Pays(charged[c], HostOf[c])

\* The calls whose agents the budget b paid for.
Launched(b) ==
  {c \in Calls : /\ PromptOf[c] # NoHandle
                 /\ charged[c] = b
                 /\ prompt[c] \in {"counted", "sending"} \/ thread[PromptOf[c]] # "idle"}

AccountsOK == \A b \in Budgets : Cardinality(Launched(b)) <= launches[b]

\* What a call knows of the prompt it leaves behind, and what is done about it.
OriginsOK ==
  /\ \A c \in Calls : c \in linked <=> prompt[c] = "sending"
  /\ \A c \in Calls : call[c] \in {"asked", "barred"} => PromptOf[c] # NoHandle
  /\ \A c \in barred : call[c] \in {"barred", "killing", "over"}
  /\ \A c \in barred :
       call[c] \in {"killing", "over"} /\ prompt[c] = "sending" => PromptOf[c] \in closed

\* Whatever is registered with a closed or cancelled conversation is closed.
ClosedBelow ==
  \A h \in Handles : h \in closed \/ token[h] = "force" => children[h] \subseteq closed

IInv ==
  /\ TypeOK
  /\ ThreadsOK
  /\ PromptsOK
  /\ SessionsSerial
  /\ LatchFresh
  /\ ForcedHasNoWorker
  /\ SlotsOK
  /\ BudgetsOK
  /\ AccountsOK
  /\ OriginsOK
  /\ ClosedBelow

-----------------------------------------------------------------------------
\* What the assumptions say of single handles and calls: a kid has one prompt.
LEMMA Assumed ==
  /\ \A h \in Handles : SessionOf[h] \in Sessions
  /\ \A c \in Calls : HostOf[c] \in Handles
  /\ \A c \in Calls : PromptOf[c] # NoHandle => PromptOf[c] \in Kids
  /\ \A b, c \in Calls : PromptOf[b] = PromptOf[c] /\ PromptOf[b] # NoHandle => b = c
  /\ \A h \in Handles : h \in Tabs <=> h \notin Kids
  /\ \A t \in Tabs : t \in Handles
  /\ \A k \in Kids : k \in Handles /\ k # NoHandle
BY ConversationsAssumption DEF Handles, Sessions

\* Where a call goes on from a stage it has reached, its origin and its budget stay.
LEMMA CallGoesOn ==
  ASSUME IInv, NEW c \in Calls, NEW stage \in Stages \ {"none"}, call[c] # "none",
         call' = [call EXCEPT ![c] = stage],
         UNCHANGED <<prompt, thread, children, budget, round, charged>>
  PROVE  /\ call' \in [Calls -> Stages]
         /\ PromptsOK'
         /\ BudgetsOK'
<1>1. \A d \in Calls : call'[d] # "none" <=> call[d] # "none"
  BY DEF IInv, TypeOK
<1>2. call' \in [Calls -> Stages]
  BY DEF IInv, TypeOK
<1>3. PromptsOK'
  BY <1>1 DEF IInv, PromptsOK
<1>4. BudgetsOK'
  BY <1>1 DEF IInv, BudgetsOK, Pays
<1> QED BY <1>2, <1>3, <1>4

\* Where a prompt goes on, its call has begun and its agent keeps its slot.
LEMMA PromptGoesOn ==
  ASSUME IInv, NEW c \in Calls, NEW at \in Brokers,
         prompt' = [prompt EXCEPT ![c] = at], UNCHANGED charged,
         prompt[c] \in {"counted", "sending", "sent"} <=> at \in {"counted", "sending", "sent"},
         \A d \in Calls : d \in Launched(charged[d])' => d \in Launched(charged[d]),
         UNCHANGED <<active, launches>>
  PROVE  /\ prompt' \in [Calls -> Brokers]
         /\ SlotsOK'
         /\ AccountsOK'
<1>1. prompt' \in [Calls -> Brokers]
  BY DEF IInv, TypeOK
<1>2. SlotsOK'
  <2>1. Counted' = Counted
    BY DEF IInv, TypeOK, Counted
  <2> QED BY <2>1 DEF IInv, SlotsOK
<1>3. AccountsOK'
  <2> SUFFICES ASSUME NEW b \in Budgets PROVE Cardinality(Launched(b)') <= launches'[b]
    BY DEF AccountsOK
  <2>1. Launched(b)' \subseteq Launched(b)
    BY DEF Launched
  <2>2. Launched(b) \subseteq Calls /\ launches[b] \in Nat
    BY DEF IInv, TypeOK, Launched
  <2>3. IsFiniteSet(Launched(b))
    BY <2>2, ConversationsAssumption, FS_Subset
  <2>4. /\ Cardinality(Launched(b)') <= Cardinality(Launched(b))
        /\ Cardinality(Launched(b)) \in Nat /\ Cardinality(Launched(b)') \in Nat
    BY <2>1, <2>3, FS_Subset, FS_CardinalityType
  <2> QED BY <2>2, <2>4 DEF IInv, AccountsOK
<1> QED BY <1>1, <1>2, <1>3

\* The same handles in their cancelled rollouts.
LEMMA ForceStays ==
  ASSUME LatchFresh, UNCHANGED latch,
         \A h \in Handles : token'[h] = "force" <=> token[h] = "force"
  PROVE  LatchFresh'
BY DEF LatchFresh

\* Threads go on where no kid begins, or ends before its prompt does.
LEMMA KidsStay ==
  ASSUME IInv,
         \A k \in Kids : thread'[k] = "idle" <=> thread[k] = "idle",
         \A k \in Kids : thread[k] = "done" => thread'[k] = "done",
         \A c \in Calls : call[c] # "none" => call'[c] # "none",
         \A c \in Calls : call'[c] # "none" =>
           call[c] # "none" \/ (HostOf[c] \in Kids => thread[HostOf[c]] # "idle"),
         UNCHANGED <<prompt, children>>
  PROVE  PromptsOK'
<1>1. \A c \in Calls : prompt'[c] # "idle" => call'[c] # "none" /\ PromptOf[c] # NoHandle
  BY DEF IInv, PromptsOK
<1>2. ASSUME NEW c \in Calls, PromptOf[c] # NoHandle
      PROVE  /\ prompt'[c] \in {"idle", "received", "entered", "counted"}
                  => thread'[PromptOf[c]] = "idle"
             /\ prompt'[c] \in {"sent", "gone"} => thread'[PromptOf[c]] \in {"idle", "done"}
  <2>1. PromptOf[c] \in Kids
    BY <1>2, Assumed
  <2> QED BY <1>2, <2>1 DEF IInv, PromptsOK
<1>3. \A k \in Kids : thread'[k] # "idle" => \E c \in Calls : PromptOf[c] = k
  BY DEF IInv, PromptsOK
<1>4. \A c \in Calls : HostOf[c] \in Kids /\ call'[c] # "none" => thread'[HostOf[c]] # "idle"
  BY DEF IInv, PromptsOK
<1>5. \A k \in Kids : thread'[k] = "idle" => children'[k] = {}
  BY DEF IInv, PromptsOK
<1> QED BY <1>1, <1>2, <1>3, <1>4, <1>5 DEF PromptsOK


\* The prompt of c goes on, its agent's thread being where the new stage has it.
LEMMA PromptsStay ==
  ASSUME IInv, NEW c \in Calls, NEW at \in Brokers,
         prompt' = [prompt EXCEPT ![c] = at],
         call[c] # "none", PromptOf[c] # NoHandle,
         at \in {"idle", "received", "entered", "counted"} => thread[PromptOf[c]] = "idle",
         at \in {"sent", "gone"} => thread[PromptOf[c]] \in {"idle", "done"},
         UNCHANGED <<call, thread, children>>
  PROVE  PromptsOK'
<1>1. \A d \in Calls : prompt'[d] = IF d = c THEN at ELSE prompt[d]
  BY DEF IInv, TypeOK
<1> QED BY <1>1 DEF IInv, PromptsOK

\* Neither a prompt's sending nor what a call knows of it changes.
LEMMA OriginsStay ==
  ASSUME IInv, NEW c \in Calls, NEW at \in Brokers \ {"sending"},
         prompt' = [prompt EXCEPT ![c] = at], prompt[c] # "sending",
         barred' \subseteq barred, UNCHANGED <<call, closed, linked>>
  PROVE  OriginsOK'
<1>1. \A d \in Calls : prompt'[d] = "sending" <=> prompt[d] = "sending"
  BY DEF IInv, TypeOK
<1> QED BY <1>1 DEF IInv, TypeOK, OriginsOK

\* What a budget has paid for is finite.
LEMMA LaunchedFinite ==
  ASSUME NEW b
  PROVE  /\ Launched(b) \subseteq Calls
         /\ IsFiniteSet(Launched(b))
         /\ Cardinality(Launched(b)) \in Nat
BY ConversationsAssumption, FS_Subset, FS_CardinalityType DEF Launched

LEMMA CountedFinite == IsFiniteSet(Counted) /\ Cardinality(Counted) \in Nat
<1>1. Counted \subseteq Calls
  BY DEF Counted
<1> QED BY <1>1, ConversationsAssumption, FS_Subset, FS_CardinalityType

-----------------------------------------------------------------------------
(* Each part of the invariant by the variables it is about.                *)

LEMMA ThreadsOKStutters ==
  ASSUME ThreadsOK, UNCHANGED <<token, thread, round>>
  PROVE  ThreadsOK'
BY DEF ThreadsOK

LEMMA PromptsOKStutters ==
  ASSUME PromptsOK, UNCHANGED <<prompt, call, thread, children>>
  PROVE  PromptsOK'
BY DEF PromptsOK

LEMMA SessionsSerialStutters ==
  ASSUME SessionsSerial, UNCHANGED <<busy, thread>>
  PROVE  SessionsSerial'
BY DEF SessionsSerial, InProgress

LEMMA LatchFreshStutters ==
  ASSUME LatchFresh, UNCHANGED <<latch, token>>
  PROVE  LatchFresh'
BY DEF LatchFresh

LEMMA ForcedHasNoWorkerStutters ==
  ASSUME ForcedHasNoWorker, UNCHANGED <<token, call, worker>>
  PROVE  ForcedHasNoWorker'
BY DEF ForcedHasNoWorker

LEMMA SlotsOKStutters ==
  ASSUME SlotsOK, UNCHANGED <<active, prompt>>
  PROVE  SlotsOK'
BY DEF SlotsOK, Counted

LEMMA BudgetsOKStutters ==
  ASSUME BudgetsOK, UNCHANGED <<thread, budget, round, call, charged>>
  PROVE  BudgetsOK'
BY DEF BudgetsOK, Pays

LEMMA AccountsOKStutters ==
  ASSUME AccountsOK, UNCHANGED <<charged, prompt, thread, launches>>
  PROVE  AccountsOK'
BY DEF AccountsOK, Launched

LEMMA OriginsOKStutters ==
  ASSUME OriginsOK, UNCHANGED <<linked, prompt, call, barred, closed>>
  PROVE  OriginsOK'
BY DEF OriginsOK

LEMMA ClosedBelowStutters ==
  ASSUME ClosedBelow, UNCHANGED <<closed, token, children>>
  PROVE  ClosedBelow'
BY DEF ClosedBelow

-----------------------------------------------------------------------------
(* Rollouts.                                                               *)

\* Its parent's call pays for a prompted rollout, a tab's rollout for itself.
LEMMA ReservedPays ==
  ASSUME IInv, NEW h \in Handles, Reserve(h), thread'[h] = "model"
  PROVE  Pays(budget[h], h)'
<1>1. budget'[h] = BudgetFor(h) /\ round' = [t \in Tabs |-> IF t = h THEN round[t] + 1 ELSE round[t]]
  BY DEF IInv, TypeOK, Reserve
<1>2. CASE h \in Tabs
  <2>1. budget'[h] = <<h, round[h] + 1>> /\ round'[h] = round[h] + 1
    BY <1>1, <1>2 DEF BudgetFor
  <2>2. round[h] \in 0 .. MaxRounds /\ round[h] < MaxRounds
    BY <1>2 DEF IInv, TypeOK, ThreadsOK, Reserve
  <2>3. <<h, round[h] + 1>> \in Budgets
    BY <2>2, ConversationsAssumption DEF Budgets, Rounds
  <2>4. h \in RootOf(h)
    BY <1>2 DEF RootOf
  <2> QED BY <2>1, <2>2, <2>3, <2>4 DEF Pays, RootOf
<1>3. CASE h \notin Tabs
  <2> DEFINE c == CHOOSE d \in Calls : PromptOf[d] = h
  <2>1. h \in Kids /\ thread[h] = "entered"
    BY <1>3, Assumed DEF Reserve
  <2>2. c \in Calls /\ PromptOf[c] = h
    BY <2>1 DEF IInv, PromptsOK
  <2>3. budget'[h] = charged[c]
    BY <1>1, <1>3 DEF BudgetFor
  <2> HIDE DEF c
  <2>4. prompt[c] = "sending"
    BY <2>1, <2>2, Assumed DEF IInv, TypeOK, PromptsOK, Brokers
  <2>5. Pays(charged[c], HostOf[c])
    BY <2>2, <2>4 DEF IInv, PromptsOK, BudgetsOK
  <2>6. RootOf(HostOf[c]) \subseteq RootOf(h)
    BY <2>2 DEF RootOf
  <2>7. UNCHANGED round
    BY <1>1, <1>3 DEF IInv, TypeOK
  <2> QED BY <2>3, <2>5, <2>6, <2>7 DEF Pays, RootOf
<1> QED BY <1>2, <1>3

LEMMA EnterKeeps ==
  ASSUME IInv, NEW h \in Handles, Enter(h)
  PROVE  IInv'
<1> USE DEF IInv
<1>1. TypeOK'
  BY Assumed DEF TypeOK, Enter, Tokens, Threads, Stages, Brokers, rollouts, agents,
      workers
<1>2. UNCHANGED <<closed, token, children, barred, active, latch, call, worker, prompt,
    linked>>
  BY DEF Enter, rollouts, agents, workers
<1>3. /\ LatchFresh' /\ ForcedHasNoWorker' /\ SlotsOK' /\ OriginsOK'
      /\ ClosedBelow'
  BY <1>2, LatchFreshStutters, ForcedHasNoWorkerStutters, SlotsOKStutters,
      OriginsOKStutters, ClosedBelowStutters
<1>4. ThreadsOK'
  BY Assumed DEF TypeOK, Enter, MayBegin, ThreadsOK
<1>5. PromptsOK'
  <2>1. h \in Kids => \E c \in Calls : PromptOf[c] = h /\ prompt[c] = "sending"
    BY Assumed DEF Enter, MayBegin, PromptedBy
  <2>2. thread[h] = "idle" /\ thread'[h] \in {"entered", "done"}
    BY DEF Enter, MayBegin, TypeOK
  <2>3. \A x \in Handles : x # h => thread'[x] = thread[x]
    BY DEF Enter, TypeOK
  <2>4. UNCHANGED <<prompt, children, call>>
    BY DEF Enter, workers
  <2> QED BY <2>1, <2>2, <2>3, <2>4, Assumed DEF PromptsOK
<1>6. SessionsSerial'
  BY Assumed DEF TypeOK, Enter, MayBegin, SessionsSerial, InProgress
<1>7. BudgetsOK'
  <2>1. \A x \in Handles : thread'[x] \in {"model", "tools"} => thread[x] \in {"model", "tools"}
    BY DEF Enter, TypeOK
  <2>2. UNCHANGED <<budget, round, call, charged>>
    BY DEF Enter, workers
  <2> QED BY <2>1, <2>2 DEF BudgetsOK, Pays
<1>8. AccountsOK'
  <2>1. h \in Kids => \E c \in Calls : PromptOf[c] = h /\ prompt[c] = "sending"
    BY Assumed DEF Enter, MayBegin, PromptedBy
  <2>2. \A x \in Handles : x # h => thread'[x] = thread[x]
    BY DEF Enter, TypeOK
  <2>3. UNCHANGED <<prompt, charged, launches>>
    BY DEF Enter, workers
  <2>4. \A b \in Budgets : Launched(b)' = Launched(b)
    <3> SUFFICES ASSUME NEW b \in Budgets, NEW c \in Calls
                 PROVE  c \in Launched(b)' <=> c \in Launched(b)
      BY DEF Launched
    <3>1. PromptOf[c] # h => (c \in Launched(b)' <=> c \in Launched(b))
      BY <2>2, <2>3, Assumed DEF Launched
    <3>2. PromptOf[c] = h /\ h \in Kids => prompt[c] = "sending"
      BY <2>1, Assumed
    <3> QED BY <3>1, <3>2, <2>3, Assumed DEF Launched
  <2> QED BY <2>3, <2>4 DEF AccountsOK
<1> QED BY <1>1, <1>3, <1>4, <1>5, <1>6, <1>7, <1>8

LEMMA ReserveKeeps ==
  ASSUME IInv, NEW h \in Handles, Reserve(h)
  PROVE  IInv'
<1> USE DEF IInv
<1>1. TypeOK'
  <2>1. thread'[h] = "model" => budget'[h] \in Budgets
    BY ReservedPays DEF Pays
  <2>2. \/ UNCHANGED budget
        \/ \E b : budget' = [budget EXCEPT ![h] = b] /\ thread'[h] = "model"
    BY DEF Reserve, TypeOK
  <2>3. budget' \in [Handles -> Budgets \cup {NoBudget}]
    BY <2>1, <2>2 DEF TypeOK
  <2>4. round' \in [Tabs -> 0 .. MaxRounds]
    BY Assumed, ConversationsAssumption DEF TypeOK, Reserve, ThreadsOK
  <2>5. token' \in [Handles -> Tokens] /\ thread' \in [Handles -> Threads]
    BY DEF TypeOK, Reserve, Tokens, Threads
  <2> QED BY <2>3, <2>4, <2>5 DEF TypeOK, Reserve, agents, workers
<1>2. UNCHANGED <<closed, barred, active, call, prompt, linked>>
  BY DEF Reserve, rollouts, agents, workers
<1>3. /\ SlotsOK' /\ OriginsOK'
  BY <1>2, SlotsOKStutters, OriginsOKStutters
<1>4. ThreadsOK'
  <2>1. \A x \in Handles : x # h => token'[x] = token[x] /\ thread'[x] = thread[x]
    BY DEF Reserve, TypeOK
  <2>2. \A u \in Tabs : u # h => round'[u] = round[u]
    BY DEF Reserve, TypeOK
  <2>3. \/ token'[h] = "run" /\ thread'[h] = "model"
        \/ token'[h] = token[h] /\ thread[h] = "entered" /\ thread'[h] = "leaving"
    BY DEF Reserve, TypeOK
  <2> QED BY <2>1, <2>2, <2>3, Assumed DEF ThreadsOK
<1>5. PromptsOK'
  <2>1. /\ \A k \in Kids : thread'[k] = "idle" <=> thread[k] = "idle"
        /\ \A k \in Kids : thread[k] = "done" => thread'[k] = "done"
    BY Assumed DEF Reserve, TypeOK
  <2>2. UNCHANGED <<prompt, children, call>>
    BY DEF Reserve, workers
  <2> QED BY <2>1, <2>2, KidsStay
<1>6. SessionsSerial'
  <2>1. \A x \in Handles : InProgress(x)' <=> InProgress(x)
    BY DEF Reserve, TypeOK, InProgress
  <2>2. UNCHANGED busy
    BY DEF Reserve, agents
  <2> QED BY <2>1, <2>2 DEF SessionsSerial
<1>7. LatchFresh'
  <2>1. \A x \in Handles : token'[x] = "force" <=> token[x] = "force"
    BY DEF Reserve, TypeOK
  <2>2. UNCHANGED latch
    BY DEF Reserve, workers
  <2> QED BY <2>1, <2>2, ForceStays
<1>8. ForcedHasNoWorker'
  <2>1. \A x \in Handles : token'[x] = "force" => token[x] = "force"
    BY DEF Reserve, TypeOK
  <2>2. UNCHANGED <<call, worker>>
    BY DEF Reserve, workers
  <2> QED BY <2>1, <2>2, Assumed DEF ForcedHasNoWorker, Foreground
<1>9. BudgetsOK'
  <2>1. \A u \in Tabs : round'[u] \in Nat /\ round[u] \in Nat /\ round[u] <= round'[u]
    BY DEF Reserve, TypeOK
  <2>2. \A x \in Handles, b \in Budgets : Pays(b, x) => Pays(b, x)'
    BY <2>1 DEF Pays, RootOf, Budgets, Rounds
  <2>3. \A x \in Handles : x # h => budget'[x] = budget[x] /\ thread'[x] = thread[x]
    BY DEF Reserve, TypeOK
  <2>4. UNCHANGED <<call, charged>>
    BY DEF Reserve, workers
  <2>5. thread'[h] = "model" => Pays(budget[h], h)'
    BY ReservedPays
  <2>6. thread'[h] \in {"model", "leaving"}
    BY DEF Reserve, TypeOK
  <2> QED BY <2>2, <2>3, <2>4, <2>5, <2>6, Assumed DEF BudgetsOK, Pays
<1>10. AccountsOK'
  <2>1. \A k \in Kids : thread'[k] # "idle" <=> thread[k] # "idle"
    BY Assumed DEF Reserve, TypeOK
  <2>2. UNCHANGED <<prompt, charged, launches>>
    BY DEF Reserve, agents, workers
  <2>3. \A b \in Budgets : Launched(b)' = Launched(b)
    BY <2>1, <2>2, Assumed DEF Launched
  <2> QED BY <2>2, <2>3 DEF AccountsOK
<1>11. ClosedBelow'
  BY DEF TypeOK, Reserve, ClosedBelow
<1> QED BY <1>1, <1>3, <1>4, <1>5, <1>6, <1>7, <1>8, <1>9, <1>10, <1>11

LEMMA ObserveKeeps ==
  ASSUME IInv, NEW h \in Handles, Observe(h)
  PROVE  IInv'
<1> USE DEF IInv
<1>1. TypeOK'
  BY Assumed DEF TypeOK, Observe, Tokens, Threads, Stages, Brokers, rollouts, agents,
      workers
<1>2. UNCHANGED <<closed, token, children, barred, active, latch, call, worker, prompt,
    linked>>
  BY DEF Observe, rollouts, agents, workers
<1>3. /\ LatchFresh' /\ ForcedHasNoWorker' /\ SlotsOK' /\ OriginsOK'
      /\ ClosedBelow'
  BY <1>2, LatchFreshStutters, ForcedHasNoWorkerStutters, SlotsOKStutters,
      OriginsOKStutters, ClosedBelowStutters
<1>4. ThreadsOK'
  BY DEF TypeOK, Observe, ThreadsOK
<1>5. PromptsOK'
  <2>1. /\ \A k \in Kids : thread'[k] = "idle" <=> thread[k] = "idle"
        /\ \A k \in Kids : thread[k] = "done" => thread'[k] = "done"
    BY Assumed DEF Observe, TypeOK
  <2>2. UNCHANGED <<prompt, children, call>>
    BY DEF Observe, workers
  <2> QED BY <2>1, <2>2, KidsStay
<1>6. SessionsSerial'
  <2>1. \A x \in Handles : InProgress(x)' <=> InProgress(x)
    BY DEF Observe, TypeOK, InProgress
  <2>2. UNCHANGED busy
    BY DEF Observe, agents
  <2> QED BY <2>1, <2>2 DEF SessionsSerial
<1>7. BudgetsOK'
  <2>1. \A x \in Handles : thread'[x] \in {"model", "tools"} => thread[x] \in {"model", "tools"}
    BY DEF Observe, TypeOK
  <2>2. UNCHANGED <<budget, round, call, charged>>
    BY DEF Observe, workers
  <2> QED BY <2>1, <2>2 DEF BudgetsOK, Pays
<1>8. AccountsOK'
  <2>1. \A k \in Kids : thread'[k] # "idle" <=> thread[k] # "idle"
    BY Assumed DEF Observe, TypeOK
  <2>2. UNCHANGED <<prompt, charged, launches>>
    BY DEF Observe, agents, workers
  <2>3. \A b \in Budgets : Launched(b)' = Launched(b)
    BY <2>1, <2>2, Assumed DEF Launched
  <2> QED BY <2>2, <2>3 DEF AccountsOK
<1> QED BY <1>1, <1>3, <1>4, <1>5, <1>6, <1>7, <1>8

LEMMA BatchKeeps ==
  ASSUME IInv, NEW h \in Handles, NEW B \in SUBSET Foreground, Batch(h, B)
  PROVE  IInv'
<1> USE DEF IInv
<1>1. TypeOK'
  BY Assumed DEF TypeOK, Batch, Tokens, Threads, Stages, Brokers, Foreground, rollouts,
      agents, workers
<1>2. UNCHANGED <<closed, token, children, active, latch, prompt>>
  BY DEF Batch, rollouts, agents, workers
<1>3. /\ LatchFresh' /\ SlotsOK' /\ ClosedBelow'
  BY <1>2, LatchFreshStutters, SlotsOKStutters, ClosedBelowStutters
<1>4. ThreadsOK'
  BY DEF TypeOK, Batch, ThreadsOK
<1>5. PromptsOK'
  <2>1. /\ \A k \in Kids : thread'[k] = "idle" <=> thread[k] = "idle"
        /\ \A k \in Kids : thread[k] = "done" => thread'[k] = "done"
    BY Assumed DEF Batch, TypeOK
  <2>2. /\ \A c \in Calls : call[c] # "none" => call'[c] # "none"
        /\ \A c \in Calls : call'[c] # "none" => call[c] # "none" \/ HostOf[c] = h
    BY DEF Batch, TypeOK
  <2>3. thread[h] # "idle"
    BY DEF Batch
  <2>4. UNCHANGED <<prompt, children>>
    BY DEF Batch
  <2> QED BY <2>1, <2>2, <2>3, <2>4, KidsStay
<1>6. SessionsSerial'
  <2>1. \A x \in Handles : InProgress(x)' <=> InProgress(x)
    BY DEF Batch, TypeOK, InProgress
  <2>2. UNCHANGED busy
    BY DEF Batch, agents
  <2> QED BY <2>1, <2>2 DEF SessionsSerial
<1>7. ForcedHasNoWorker'
  <2>1. \A c \in Calls : call'[c] \in Registered => call[c] \in Registered
    BY DEF Batch, TypeOK, Registered
  <2>2. UNCHANGED <<token, worker>>
    BY DEF Batch
  <2> QED BY <2>1, <2>2 DEF ForcedHasNoWorker, Foreground
<1>8. BudgetsOK'
  <2>1. Pays(budget[h], h)
    BY DEF Batch, BudgetsOK
  <2>2. \A c \in Calls : call'[c] # "none" => Pays(charged'[c], HostOf[c])
    BY <2>1 DEF Batch, BudgetsOK, Foreground, TypeOK
  <2>3. \A x \in Handles : thread'[x] \in {"model", "tools"} => thread[x] \in {"model", "tools"}
    BY DEF Batch, TypeOK
  <2>4. UNCHANGED <<budget, round>>
    BY DEF Batch
  <2> QED BY <2>2, <2>3, <2>4 DEF BudgetsOK, Pays
<1>9. AccountsOK'
  <2>1. \A k \in Kids : thread'[k] # "idle" <=> thread[k] # "idle"
    BY Assumed DEF Batch, TypeOK
  <2>2. UNCHANGED <<prompt, launches>>
    BY DEF Batch, agents
  <2>3. \A c \in Calls : call[c] # "none" => charged'[c] = charged[c]
    BY DEF Batch, TypeOK, Foreground
  <2>4. \A c \in Calls, b \in Budgets : c \in Launched(b) \/ c \in Launched(b)' => call[c] # "none"
    BY <2>1, <2>2, Assumed DEF Launched, PromptsOK
  <2>5. \A b \in Budgets : Launched(b)' = Launched(b)
    BY <2>1, <2>2, <2>3, <2>4, Assumed DEF Launched
  <2> QED BY <2>2, <2>5 DEF AccountsOK
<1>10. OriginsOK'
  <2>1. \A c \in Calls : call'[c] # call[c] => call[c] = "none" /\ call'[c] = "queued"
    BY DEF Batch, TypeOK
  <2>2. UNCHANGED <<prompt, closed, barred, linked>>
    BY DEF Batch
  <2> QED BY <2>1, <2>2 DEF OriginsOK, TypeOK
<1> QED BY <1>1, <1>3, <1>4, <1>5, <1>6, <1>7, <1>8, <1>9, <1>10

LEMMA EndKeeps ==
  ASSUME IInv, NEW h \in Handles, End(h)
  PROVE  IInv'
<1> USE DEF IInv
<1>1. TypeOK'
  BY Assumed DEF TypeOK, End, Tokens, Threads, Stages, Brokers, rollouts, agents,
      workers
<1>2. UNCHANGED <<closed, barred, active, call, prompt, linked>>
  BY DEF End, rollouts, agents, workers
<1>3. /\ SlotsOK' /\ OriginsOK'
  BY <1>2, SlotsOKStutters, OriginsOKStutters
<1>4. ThreadsOK'
  BY Assumed DEF TypeOK, End, MayEnd, ThreadsOK
<1>5. PromptsOK'
  <2>1. /\ \A k \in Kids : thread'[k] = "idle" <=> thread[k] = "idle"
        /\ \A k \in Kids : thread[k] = "done" => thread'[k] = "done"
    BY Assumed DEF End, TypeOK, MayEnd
  <2>2. UNCHANGED <<prompt, children, call>>
    BY DEF End, workers
  <2> QED BY <2>1, <2>2, KidsStay
<1>6. SessionsSerial'
  <2>1. \A x \in Handles : InProgress(x)' <=> InProgress(x)
    BY DEF End, TypeOK, InProgress, MayEnd
  <2>2. UNCHANGED busy
    BY DEF End, agents
  <2> QED BY <2>1, <2>2 DEF SessionsSerial
<1>7. LatchFresh'
  <2>1. \A x \in Handles : token'[x] = IF x = h THEN "none" ELSE token[x]
    BY DEF End, TypeOK
  <2>2. InProgress(h) /\ latch' = latch \ {SessionOf[h]}
    BY DEF End, MayEnd, InProgress
  <2>3. \A x \in Handles : token[x] = "force" /\ SessionOf[x] = SessionOf[h] => x = h
    BY <2>2 DEF ThreadsOK, SessionsSerial, InProgress
  <2> QED BY <2>1, <2>2, <2>3 DEF LatchFresh
<1>8. ForcedHasNoWorker'
  <2>1. \A x \in Handles : token'[x] = "force" => token[x] = "force"
    BY DEF End, TypeOK
  <2>2. UNCHANGED <<call, worker>>
    BY DEF End
  <2> QED BY <2>1, <2>2, Assumed DEF ForcedHasNoWorker, Foreground
<1>9. BudgetsOK'
  <2>1. \A x \in Handles : thread'[x] \in {"model", "tools"}
                            => thread[x] \in {"model", "tools"} /\ x # h
    BY DEF End, TypeOK
  <2>2. \A x \in Handles : x # h => budget'[x] = budget[x]
    BY DEF End, TypeOK
  <2>3. UNCHANGED <<round, call, charged>>
    BY DEF End
  <2> QED BY <2>1, <2>2, <2>3 DEF BudgetsOK, Pays
<1>10. AccountsOK'
  <2>1. \A k \in Kids : thread'[k] # "idle" <=> thread[k] # "idle"
    BY Assumed DEF End, TypeOK, MayEnd
  <2>2. UNCHANGED <<prompt, charged, launches>>
    BY DEF End, agents, workers
  <2>3. \A b \in Budgets : Launched(b)' = Launched(b)
    BY <2>1, <2>2, Assumed DEF Launched
  <2> QED BY <2>2, <2>3 DEF AccountsOK
<1>11. ClosedBelow'
  <2>1. \A x \in Handles : token'[x] = "force" => token[x] = "force"
    BY DEF End, TypeOK
  <2>2. UNCHANGED <<closed, children>>
    BY DEF End
  <2> QED BY <2>1, <2>2 DEF ClosedBelow
<1> QED BY <1>1, <1>3, <1>4, <1>5, <1>6, <1>7, <1>8, <1>9, <1>10, <1>11

LEMMA ExitKeeps ==
  ASSUME IInv, NEW h \in Handles, Exit(h)
  PROVE  IInv'
<1> USE DEF IInv
<1>1. TypeOK'
  BY Assumed DEF TypeOK, Exit, Tokens, Threads, Stages, Brokers, rollouts, agents,
      workers
<1>2. UNCHANGED <<closed, token, children, barred, active, latch, call, worker, prompt,
    linked>>
  BY DEF Exit, rollouts, agents, workers
<1>3. /\ LatchFresh' /\ ForcedHasNoWorker' /\ SlotsOK' /\ OriginsOK'
      /\ ClosedBelow'
  BY <1>2, LatchFreshStutters, ForcedHasNoWorkerStutters, SlotsOKStutters,
      OriginsOKStutters, ClosedBelowStutters
<1>4. ThreadsOK'
  BY Assumed DEF TypeOK, Exit, ThreadsOK
<1>5. PromptsOK'
  <2>1. /\ \A k \in Kids : thread'[k] = "idle" <=> thread[k] = "idle"
        /\ \A k \in Kids : thread[k] = "done" => thread'[k] = "done"
    BY Assumed DEF Exit, TypeOK
  <2>2. UNCHANGED <<prompt, children, call>>
    BY DEF Exit, workers
  <2> QED BY <2>1, <2>2, KidsStay
<1>6. SessionsSerial'
  BY DEF TypeOK, Exit, SessionsSerial, InProgress
<1>7. BudgetsOK'
  <2>1. \A x \in Handles : thread'[x] \in {"model", "tools"} => thread[x] \in {"model", "tools"}
    BY DEF Exit, TypeOK
  <2>2. UNCHANGED <<budget, round, call, charged>>
    BY DEF Exit, workers
  <2> QED BY <2>1, <2>2 DEF BudgetsOK, Pays
<1>8. AccountsOK'
  <2>1. \A k \in Kids : thread'[k] # "idle" <=> thread[k] # "idle"
    BY Assumed DEF Exit, TypeOK
  <2>2. UNCHANGED <<prompt, charged, launches>>
    BY DEF Exit, agents, workers
  <2>3. \A b \in Budgets : Launched(b)' = Launched(b)
    BY <2>1, <2>2, Assumed DEF Launched
  <2> QED BY <2>2, <2>3 DEF AccountsOK
<1> QED BY <1>1, <1>3, <1>4, <1>5, <1>6, <1>7, <1>8

\* A graceful stop cancels nothing.
LEMMA GracefulStopKeeps ==
  ASSUME IInv, NEW t \in Tabs, GracefulStop(t)
  PROVE  IInv'
<1> USE DEF IInv
<1>1. TypeOK'
  BY Assumed DEF TypeOK, GracefulStop, Tokens, Threads, Stages, Brokers, rollouts,
      agents, workers
<1>2. UNCHANGED <<closed, thread, round, budget, children, barred, busy, active,
    launches, call, charged, prompt, linked>>
  BY DEF GracefulStop, rollouts, agents, workers
<1>3. /\ PromptsOK' /\ SessionsSerial' /\ SlotsOK' /\ BudgetsOK'
      /\ AccountsOK' /\ OriginsOK'
  BY <1>2, PromptsOKStutters, SessionsSerialStutters, SlotsOKStutters,
      BudgetsOKStutters, AccountsOKStutters, OriginsOKStutters
<1>4. ThreadsOK'
  BY Assumed DEF TypeOK, GracefulStop, ThreadsOK
<1>5. LatchFresh'
  <2>1. \A x \in Handles : token'[x] = "force" <=> token[x] = "force"
    BY Assumed DEF GracefulStop, TypeOK
  <2>2. UNCHANGED latch
    BY DEF GracefulStop, workers
  <2> QED BY <2>1, <2>2, ForceStays
<1>6. ForcedHasNoWorker'
  <2>1. \A x \in Handles : token'[x] = "force" => token[x] = "force"
    BY DEF GracefulStop, TypeOK
  <2>2. UNCHANGED <<call, worker>>
    BY DEF GracefulStop, workers
  <2> QED BY <2>1, <2>2, Assumed DEF ForcedHasNoWorker, Foreground
<1>7. ClosedBelow'
  <2>1. \A x \in Handles : token'[x] = "force" => token[x] = "force"
    BY DEF GracefulStop, TypeOK
  <2>2. UNCHANGED <<closed, children>>
    BY DEF GracefulStop
  <2> QED BY <2>1, <2>2 DEF ClosedBelow
<1> QED BY <1>1, <1>3, <1>4, <1>5, <1>6, <1>7

LEMMA ShutKeeps ==
  ASSUME IInv, Shut
  PROVE  IInv'
<1> USE DEF IInv
<1>1. TypeOK'
  BY Assumed DEF TypeOK, Shut, Tokens, Threads, Stages, Brokers, rollouts, agents,
      workers
<1>2. UNCHANGED <<closed, token, thread, round, budget, children, barred, busy, active,
    launches, latch, call, worker, charged, prompt, linked>>
  BY DEF Shut, rollouts, agents, workers
<1>3. /\ ThreadsOK' /\ PromptsOK' /\ SessionsSerial' /\ LatchFresh'
      /\ ForcedHasNoWorker' /\ SlotsOK' /\ BudgetsOK' /\ AccountsOK'
      /\ OriginsOK' /\ ClosedBelow'
  BY <1>2, ThreadsOKStutters, PromptsOKStutters, SessionsSerialStutters,
      LatchFreshStutters, ForcedHasNoWorkerStutters, SlotsOKStutters,
      BudgetsOKStutters, AccountsOKStutters, OriginsOKStutters, ClosedBelowStutters
<1> QED BY <1>1, <1>3

LEMMA StopRunKeeps ==
  ASSUME IInv, NEW c \in Calls, StopRun(c)
  PROVE  IInv'
<1> USE DEF IInv
<1>1. TypeOK'
  BY Assumed DEF TypeOK, StopRun, Tokens, Threads, Stages, Brokers, rollouts, agents,
      workers
<1>2. UNCHANGED <<closed, token, thread, round, budget, children, barred, busy, active,
    launches, latch, call, worker, charged, prompt, linked>>
  BY DEF StopRun, rollouts, agents, workers
<1>3. /\ ThreadsOK' /\ PromptsOK' /\ SessionsSerial' /\ LatchFresh'
      /\ ForcedHasNoWorker' /\ SlotsOK' /\ BudgetsOK' /\ AccountsOK'
      /\ OriginsOK' /\ ClosedBelow'
  BY <1>2, ThreadsOKStutters, PromptsOKStutters, SessionsSerialStutters,
      LatchFreshStutters, ForcedHasNoWorkerStutters, SlotsOKStutters,
      BudgetsOKStutters, AccountsOKStutters, OriginsOKStutters, ClosedBelowStutters
<1> QED BY <1>1, <1>3

-----------------------------------------------------------------------------
(* Tool calls.                                                             *)

\* A detached call is charged to the budget of the call that detached it.
LEMMA DetachKeeps ==
  ASSUME IInv, NEW c \in Calls, Detach(c)
  PROVE  IInv'
<1> USE DEF IInv
<1>1. TypeOK'
  <2>1. PICK d \in Foreground : charged' = [charged EXCEPT ![c] = charged[d]]
    BY DEF Detach
  <2>2. charged' \in [Calls -> Budgets \cup {NoBudget}]
    BY <2>1 DEF TypeOK, Foreground
  <2>3. call' \in [Calls -> Stages]
    BY DEF TypeOK, Detach, Stages
  <2> QED BY <2>2, <2>3 DEF TypeOK, Detach, rollouts, agents
<1>2. UNCHANGED <<closed, token, thread, round, children, busy, active, latch, prompt>>
  BY DEF Detach, rollouts, agents, workers
<1>3. /\ ThreadsOK' /\ SessionsSerial' /\ LatchFresh' /\ SlotsOK'
      /\ ClosedBelow'
  BY <1>2, ThreadsOKStutters, SessionsSerialStutters, LatchFreshStutters,
      SlotsOKStutters, ClosedBelowStutters
<1>4. PromptsOK'
  <2>1. PICK d \in Foreground : HostOf[d] = HostOf[c] /\ call[d] = "running"
    BY DEF Detach
  <2>2. HostOf[c] \in Kids => thread[HostOf[c]] # "idle"
    BY <2>1 DEF PromptsOK, Foreground
  <2>3. \A x \in Calls : call'[x] # "none" <=> call[x] # "none" \/ x = c
    BY DEF Detach, TypeOK
  <2>4. UNCHANGED <<prompt, thread, children>>
    BY DEF Detach, rollouts
  <2> QED BY <2>2, <2>3, <2>4, KidsStay
<1>5. ForcedHasNoWorker'
  <2>1. \A d \in Calls : call'[d] \in Registered => call[d] \in Registered
    BY DEF Detach, TypeOK, Registered
  <2>2. UNCHANGED <<token, worker>>
    BY DEF Detach, rollouts
  <2> QED BY <2>1, <2>2 DEF ForcedHasNoWorker, Foreground
<1>6. BudgetsOK'
  <2>1. PICK d \in Foreground :
          /\ HostOf[d] = HostOf[c] /\ call[d] = "running"
          /\ charged' = [charged EXCEPT ![c] = charged[d]]
    BY DEF Detach
  <2>2. Pays(charged[d], HostOf[c])
    BY <2>1 DEF BudgetsOK, Foreground
  <2>3. /\ \A x \in Calls : x # c => charged'[x] = charged[x] /\ call'[x] = call[x]
        /\ charged'[c] = charged[d]
    BY <2>1 DEF Detach, TypeOK
  <2>4. UNCHANGED <<budget, round, thread>>
    BY DEF Detach, rollouts
  <2> QED BY <2>2, <2>3, <2>4 DEF BudgetsOK, Pays
<1>7. AccountsOK'
  <2>1. UNCHANGED <<prompt, thread, launches>> /\ call[c] = "none"
    BY DEF Detach, rollouts, agents
  <2>2. \A x \in Calls : x # c => charged'[x] = charged[x]
    BY DEF Detach, TypeOK
  <2>3. prompt[c] = "idle" /\ (PromptOf[c] # NoHandle => thread[PromptOf[c]] = "idle")
    BY <2>1 DEF PromptsOK
  <2>4. \A b \in Budgets : Launched(b)' = Launched(b)
    BY <2>1, <2>2, <2>3 DEF Launched
  <2> QED BY <2>1, <2>4 DEF AccountsOK
<1>8. OriginsOK'
  <2>1. \A x \in Calls : call'[x] # call[x] => call[x] = "none" /\ call'[x] = "queued"
    BY DEF Detach, TypeOK
  <2>2. UNCHANGED <<prompt, closed, barred, linked>>
    BY DEF Detach, rollouts
  <2> QED BY <2>1, <2>2 DEF OriginsOK, TypeOK
<1> QED BY <1>1, <1>3, <1>4, <1>5, <1>6, <1>7, <1>8

LEMMA SpawnKeeps ==
  ASSUME IInv, NEW c \in Calls, Spawn(c)
  PROVE  IInv'
<1> USE DEF IInv
<1>1. TypeOK'
  BY Assumed DEF TypeOK, Spawn, Tokens, Threads, Stages, Brokers, rollouts, agents,
      workers
<1>2. UNCHANGED <<closed, token, thread, round, children, busy, active, launches,
    latch, charged, prompt>>
  BY DEF Spawn, rollouts, agents, workers
<1>3. /\ ThreadsOK' /\ SessionsSerial' /\ LatchFresh' /\ SlotsOK'
      /\ AccountsOK' /\ ClosedBelow'
  BY <1>2, ThreadsOKStutters, SessionsSerialStutters, LatchFreshStutters,
      SlotsOKStutters, AccountsOKStutters, ClosedBelowStutters
<1>4. PromptsOK' /\ BudgetsOK'
  <2>1. PICK stage \in Stages \ {"none"} : call' = [call EXCEPT ![c] = stage]
    BY DEF Spawn, Stages
  <2>2. UNCHANGED <<prompt, thread, children, budget, round, charged>> /\ call[c] # "none"
    BY DEF Spawn, rollouts
  <2> QED BY <2>1, <2>2, CallGoesOn
<1>5. ForcedHasNoWorker'
  <2>1. \A d \in Calls : d # c => call'[d] = call[d] /\ worker'[d] = worker[d]
    BY DEF Spawn, TypeOK
  <2>2. call'[c] \in Registered /\ worker'[c] = "alive" => call[c] \in Registered /\ worker[c] = "alive"
    BY DEF Spawn, TypeOK, Registered
  <2>3. UNCHANGED token
    BY DEF Spawn, rollouts
  <2> QED BY <2>1, <2>2, <2>3 DEF ForcedHasNoWorker, Foreground
<1>6. OriginsOK'
  <2>1. \A d \in Calls : d # c => call'[d] = call[d]
    BY DEF Spawn, TypeOK
  <2>2. UNCHANGED <<prompt, closed, barred, linked>>
    BY DEF Spawn, rollouts
  <2>3. /\ call'[c] = "asked" => PromptOf[c] # NoHandle
        /\ call'[c] # "barred"
        /\ call[c] \in {"barred", "killing", "over"} => call[c] = "killing" /\ call'[c] = "over"
    BY DEF Spawn, TypeOK, PromptsOK, Entered
  <2>4. c \in barred => call[c] = "killing" /\ call'[c] = "over"
    BY <2>3 DEF OriginsOK
  <2> QED BY <2>1, <2>2, <2>3, <2>4 DEF OriginsOK, TypeOK
<1> QED BY <1>1, <1>3, <1>4, <1>5, <1>6

\* The latch kills the worker that comes late.
LEMMA EnrollKeeps ==
  ASSUME IInv, NEW c \in Calls, Enroll(c)
  PROVE  IInv'
<1> USE DEF IInv
<1>1. TypeOK'
  BY Assumed DEF TypeOK, Enroll, Tokens, Threads, Stages, Brokers, rollouts, agents,
      workers
<1>2. UNCHANGED <<closed, token, thread, round, children, busy, active, launches,
    latch, charged, prompt>>
  BY DEF Enroll, rollouts, agents, workers
<1>3. /\ ThreadsOK' /\ SessionsSerial' /\ LatchFresh' /\ SlotsOK'
      /\ AccountsOK' /\ ClosedBelow'
  BY <1>2, ThreadsOKStutters, SessionsSerialStutters, LatchFreshStutters,
      SlotsOKStutters, AccountsOKStutters, ClosedBelowStutters
<1>4. PromptsOK' /\ BudgetsOK'
  <2>1. PICK stage \in Stages \ {"none"} : call' = [call EXCEPT ![c] = stage]
    BY DEF Enroll, Stages
  <2>2. UNCHANGED <<prompt, thread, children, budget, round, charged>> /\ call[c] # "none"
    BY DEF Enroll, rollouts
  <2> QED BY <2>1, <2>2, CallGoesOn
<1>5. ForcedHasNoWorker'
  <2>1. \A d \in Calls : d # c => call'[d] = call[d] /\ worker'[d] = worker[d]
    BY DEF Enroll, TypeOK
  <2>2. c \in Foreground /\ SessionOf[HostOf[c]] \in latch => worker'[c] = "dead"
    BY DEF Enroll, TypeOK
  <2>3. token[HostOf[c]] = "force" => SessionOf[HostOf[c]] \in latch
    BY Assumed DEF LatchFresh
  <2>4. UNCHANGED token
    BY DEF Enroll, rollouts
  <2> QED BY <2>1, <2>2, <2>3, <2>4 DEF ForcedHasNoWorker, Foreground
<1>6. OriginsOK'
  <2>1. \A d \in Calls : d # c => call'[d] = call[d]
    BY DEF Enroll, TypeOK
  <2>2. UNCHANGED <<prompt, closed, barred, linked>>
    BY DEF Enroll, rollouts
  <2>3. /\ call'[c] = "asked" => PromptOf[c] # NoHandle
        /\ call'[c] # "barred"
        /\ call[c] \in {"barred", "killing", "over"} => call[c] = "killing" /\ call'[c] = "over"
    BY DEF Enroll, TypeOK, PromptsOK, Entered
  <2>4. c \in barred => call[c] = "killing" /\ call'[c] = "over"
    BY <2>3 DEF OriginsOK
  <2> QED BY <2>1, <2>2, <2>3, <2>4 DEF OriginsOK, TypeOK
<1> QED BY <1>1, <1>3, <1>4, <1>5, <1>6

LEMMA WorkerEndsKeeps ==
  ASSUME IInv, NEW c \in Calls, WorkerEnds(c)
  PROVE  IInv'
<1> USE DEF IInv
<1>1. TypeOK'
  BY Assumed DEF TypeOK, WorkerEnds, Tokens, Threads, Stages, Brokers, rollouts,
      agents, workers
<1>2. UNCHANGED <<closed, token, thread, round, budget, children, barred, busy, active,
    launches, latch, call, charged, prompt, linked>>
  BY DEF WorkerEnds, rollouts, agents, workers
<1>3. /\ ThreadsOK' /\ PromptsOK' /\ SessionsSerial' /\ LatchFresh'
      /\ SlotsOK' /\ BudgetsOK' /\ AccountsOK' /\ OriginsOK'
      /\ ClosedBelow'
  BY <1>2, ThreadsOKStutters, PromptsOKStutters, SessionsSerialStutters,
      LatchFreshStutters, SlotsOKStutters, BudgetsOKStutters, AccountsOKStutters,
      OriginsOKStutters, ClosedBelowStutters
<1>4. ForcedHasNoWorker'
  <2>1. \A d \in Calls : worker'[d] = "alive" => worker[d] = "alive"
    BY DEF WorkerEnds, TypeOK
  <2>2. UNCHANGED <<token, call>>
    BY DEF WorkerEnds, rollouts
  <2> QED BY <2>1, <2>2 DEF ForcedHasNoWorker, Foreground
<1> QED BY <1>1, <1>3, <1>4

LEMMA LeaveKeeps ==
  ASSUME IInv, NEW c \in Calls, Leave(c)
  PROVE  IInv'
<1> USE DEF IInv
<1>1. TypeOK'
  BY Assumed DEF TypeOK, Leave, Tokens, Threads, Stages, Brokers, rollouts, agents,
      workers
<1>2. UNCHANGED <<closed, token, thread, round, children, busy, active, launches,
    latch, charged, prompt>>
  BY DEF Leave, rollouts, agents, workers
<1>3. /\ ThreadsOK' /\ SessionsSerial' /\ LatchFresh' /\ SlotsOK'
      /\ AccountsOK' /\ ClosedBelow'
  BY <1>2, ThreadsOKStutters, SessionsSerialStutters, LatchFreshStutters,
      SlotsOKStutters, AccountsOKStutters, ClosedBelowStutters
<1>4. PromptsOK' /\ BudgetsOK'
  <2>1. PICK stage \in Stages \ {"none"} : call' = [call EXCEPT ![c] = stage]
    BY DEF Leave, Stages
  <2>2. UNCHANGED <<prompt, thread, children, budget, round, charged>> /\ call[c] # "none"
    BY DEF Leave, rollouts
  <2> QED BY <2>1, <2>2, CallGoesOn
<1>5. ForcedHasNoWorker'
  <2>1. \A d \in Calls : call'[d] \in Registered => call[d] \in Registered
    BY DEF Leave, TypeOK, Registered
  <2>2. UNCHANGED <<token, worker>>
    BY DEF Leave, rollouts
  <2> QED BY <2>1, <2>2 DEF ForcedHasNoWorker, Foreground
<1>6. OriginsOK'
  <2>1. \A d \in Calls : d # c => call'[d] = call[d]
    BY DEF Leave, TypeOK
  <2>2. UNCHANGED <<prompt, closed, barred, linked>>
    BY DEF Leave, rollouts
  <2>3. /\ call'[c] = "asked" => PromptOf[c] # NoHandle
        /\ call'[c] # "barred"
        /\ call[c] \in {"barred", "killing", "over"} => call[c] = "killing" /\ call'[c] = "over"
    BY DEF Leave, TypeOK, PromptsOK, Entered
  <2>4. c \in barred => call[c] = "killing" /\ call'[c] = "over"
    BY <2>3 DEF OriginsOK
  <2> QED BY <2>1, <2>2, <2>3, <2>4 DEF OriginsOK, TypeOK
<1> QED BY <1>1, <1>3, <1>4, <1>5, <1>6

\* From now on the origin is refused, unless its child is linked and closed next.
LEMMA BarKeeps ==
  ASSUME IInv, NEW c \in Calls, Bar(c)
  PROVE  IInv'
<1> USE DEF IInv
<1>1. TypeOK'
  BY Assumed DEF TypeOK, Bar, Tokens, Threads, Stages, Brokers, rollouts, agents,
      workers
<1>2. UNCHANGED <<closed, token, thread, round, children, busy, active, launches,
    latch, charged, prompt>>
  BY DEF Bar, rollouts, agents, workers
<1>3. /\ ThreadsOK' /\ SessionsSerial' /\ LatchFresh' /\ SlotsOK'
      /\ AccountsOK' /\ ClosedBelow'
  BY <1>2, ThreadsOKStutters, SessionsSerialStutters, LatchFreshStutters,
      SlotsOKStutters, AccountsOKStutters, ClosedBelowStutters
<1>4. PromptsOK' /\ BudgetsOK'
  <2>1. PICK stage \in Stages \ {"none"} : call' = [call EXCEPT ![c] = stage]
    BY DEF Bar, Stages
  <2>2. UNCHANGED <<prompt, thread, children, budget, round, charged>> /\ call[c] # "none"
    BY DEF Bar, rollouts
  <2> QED BY <2>1, <2>2, CallGoesOn
<1>5. ForcedHasNoWorker'
  <2>1. \A d \in Calls : call'[d] \in Registered => call[d] \in Registered
    BY DEF Bar, TypeOK, Registered
  <2>2. UNCHANGED <<token, worker>>
    BY DEF Bar
  <2> QED BY <2>1, <2>2 DEF ForcedHasNoWorker, Foreground
<1>6. OriginsOK'
  BY DEF TypeOK, Bar, OriginsOK
<1> QED BY <1>1, <1>3, <1>4, <1>5, <1>6

LEMMA KillKeeps ==
  ASSUME IInv, NEW c \in Calls, Kill(c)
  PROVE  IInv'
<1> USE DEF IInv
<1>1. TypeOK'
  BY Assumed DEF TypeOK, Kill, Tokens, Threads, Stages, Brokers, rollouts, agents,
      workers
<1>2. UNCHANGED <<closed, token, thread, round, children, busy, active, launches,
    latch, charged, prompt>>
  BY DEF Kill, rollouts, agents, workers
<1>3. /\ ThreadsOK' /\ SessionsSerial' /\ LatchFresh' /\ SlotsOK'
      /\ AccountsOK' /\ ClosedBelow'
  BY <1>2, ThreadsOKStutters, SessionsSerialStutters, LatchFreshStutters,
      SlotsOKStutters, AccountsOKStutters, ClosedBelowStutters
<1>4. PromptsOK' /\ BudgetsOK'
  <2>1. PICK stage \in Stages \ {"none"} : call' = [call EXCEPT ![c] = stage]
    BY DEF Kill, Stages
  <2>2. UNCHANGED <<prompt, thread, children, budget, round, charged>> /\ call[c] # "none"
    BY DEF Kill, rollouts
  <2> QED BY <2>1, <2>2, CallGoesOn
<1>5. ForcedHasNoWorker'
  <2>1. \A d \in Calls : d # c => call'[d] = call[d] /\ worker'[d] = worker[d]
    BY DEF Kill, TypeOK
  <2>2. call'[c] \in Registered /\ worker'[c] = "alive" => call[c] \in Registered /\ worker[c] = "alive"
    BY DEF Kill, TypeOK, Registered
  <2>3. UNCHANGED token
    BY DEF Kill, rollouts
  <2> QED BY <2>1, <2>2, <2>3 DEF ForcedHasNoWorker, Foreground
<1>6. OriginsOK'
  <2>1. \A d \in Calls : d # c => call'[d] = call[d]
    BY DEF Kill, TypeOK
  <2>2. UNCHANGED <<prompt, closed, barred, linked>>
    BY DEF Kill, rollouts
  <2>3. /\ call'[c] = "asked" => PromptOf[c] # NoHandle
        /\ call'[c] # "barred"
        /\ call[c] \in {"barred", "killing", "over"} => call[c] = "killing" /\ call'[c] = "over"
    BY DEF Kill, TypeOK, PromptsOK, Entered
  <2>4. c \in barred => call[c] = "killing" /\ call'[c] = "over"
    BY <2>3 DEF OriginsOK
  <2> QED BY <2>1, <2>2, <2>3, <2>4 DEF OriginsOK, TypeOK
<1> QED BY <1>1, <1>3, <1>4, <1>5, <1>6

-----------------------------------------------------------------------------
(* Prompts.                                                                *)

LEMMA ReceiveKeeps ==
  ASSUME IInv, NEW c \in Calls, Receive(c)
  PROVE  IInv'
<1> USE DEF IInv
<1>1. TypeOK'
  BY Assumed DEF TypeOK, Receive, Tokens, Threads, Stages, Brokers, rollouts, agents,
      workers
<1>2. UNCHANGED <<closed, token, thread, round, budget, children, busy, latch, call,
    worker, charged>>
  BY DEF Receive, rollouts, agents, workers
<1>3. /\ ThreadsOK' /\ SessionsSerial' /\ LatchFresh' /\ ForcedHasNoWorker'
      /\ BudgetsOK' /\ ClosedBelow'
  BY <1>2, ThreadsOKStutters, SessionsSerialStutters, LatchFreshStutters,
      ForcedHasNoWorkerStutters, BudgetsOKStutters, ClosedBelowStutters
<1>4. PromptsOK'
  <2>1. prompt' = [prompt EXCEPT ![c] = "received"] /\ "received" \in Brokers
    BY DEF Receive, Brokers
  <2>2. call[c] # "none" /\ PromptOf[c] # NoHandle /\ thread[PromptOf[c]] = "idle"
    BY DEF Receive, PromptsOK, Registered
  <2>3. UNCHANGED <<call, thread, children>>
    BY DEF Receive, rollouts, workers
  <2> QED BY <2>1, <2>2, <2>3, PromptsStay
<1>5. SlotsOK' /\ AccountsOK'
  <2>1. prompt' = [prompt EXCEPT ![c] = "received"] /\ "received" \in Brokers
    BY DEF Receive, Brokers
  <2>2. UNCHANGED <<thread, charged, active, launches>>
    BY DEF Receive, rollouts, workers, agents
  <2>3. \A d \in Calls : prompt'[d] \in {"counted", "sending"} => prompt[d] \in {"counted", "sending"}
    BY DEF Receive, TypeOK
  <2>4. \A d \in Calls : d \in Launched(charged[d])' => d \in Launched(charged[d])
    BY <2>2, <2>3 DEF Launched
  <2>5. prompt[c] \in {"counted", "sending", "sent"} <=> "received" \in {"counted", "sending", "sent"}
    BY DEF Receive
  <2> QED BY <2>1, <2>2, <2>4, <2>5, PromptGoesOn
<1>6. OriginsOK'
  <2>1. prompt' = [prompt EXCEPT ![c] = "received"] /\ prompt[c] # "sending"
    BY DEF Receive
  <2>2. "received" \in Brokers \ {"sending"}
    BY DEF Brokers
  <2>3. barred' \subseteq barred /\ UNCHANGED <<call, closed, linked>>
    BY DEF Receive, rollouts, workers
  <2> QED BY <2>1, <2>2, <2>3, OriginsStay
<1> QED BY <1>1, <1>3, <1>4, <1>5, <1>6

LEMMA OpenKeeps ==
  ASSUME IInv, NEW c \in Calls, Open(c)
  PROVE  IInv'
<1> USE DEF IInv
<1>1. TypeOK'
  BY Assumed DEF TypeOK, Open, Tokens, Threads, Stages, Brokers, rollouts, agents,
      workers
<1>2. UNCHANGED <<closed, token, thread, round, budget, children, busy, latch, call,
    worker, charged>>
  BY DEF Open, rollouts, agents, workers
<1>3. /\ ThreadsOK' /\ SessionsSerial' /\ LatchFresh' /\ ForcedHasNoWorker'
      /\ BudgetsOK' /\ ClosedBelow'
  BY <1>2, ThreadsOKStutters, SessionsSerialStutters, LatchFreshStutters,
      ForcedHasNoWorkerStutters, BudgetsOKStutters, ClosedBelowStutters
<1>4. PromptsOK'
  <2>1. prompt' = [prompt EXCEPT ![c] = "entered"] /\ "entered" \in Brokers
    BY DEF Open, Brokers
  <2>2. call[c] # "none" /\ PromptOf[c] # NoHandle /\ thread[PromptOf[c]] = "idle"
    BY DEF Open, PromptsOK, Registered
  <2>3. UNCHANGED <<call, thread, children>>
    BY DEF Open, rollouts, workers
  <2> QED BY <2>1, <2>2, <2>3, PromptsStay
<1>5. SlotsOK' /\ AccountsOK'
  <2>1. prompt' = [prompt EXCEPT ![c] = "entered"] /\ "entered" \in Brokers
    BY DEF Open, Brokers
  <2>2. UNCHANGED <<thread, charged, active, launches>>
    BY DEF Open, rollouts, workers, agents
  <2>3. \A d \in Calls : prompt'[d] \in {"counted", "sending"} => prompt[d] \in {"counted", "sending"}
    BY DEF Open, TypeOK
  <2>4. \A d \in Calls : d \in Launched(charged[d])' => d \in Launched(charged[d])
    BY <2>2, <2>3 DEF Launched
  <2>5. prompt[c] \in {"counted", "sending", "sent"} <=> "entered" \in {"counted", "sending", "sent"}
    BY DEF Open
  <2> QED BY <2>1, <2>2, <2>4, <2>5, PromptGoesOn
<1>6. OriginsOK'
  <2>1. prompt' = [prompt EXCEPT ![c] = "entered"] /\ prompt[c] # "sending"
    BY DEF Open
  <2>2. "entered" \in Brokers \ {"sending"}
    BY DEF Brokers
  <2>3. barred' \subseteq barred /\ UNCHANGED <<call, closed, linked>>
    BY DEF Open, rollouts, workers
  <2> QED BY <2>1, <2>2, <2>3, OriginsStay
<1> QED BY <1>1, <1>3, <1>4, <1>5, <1>6

LEMMA CreateFailsKeeps ==
  ASSUME IInv, NEW c \in Calls, CreateFails(c)
  PROVE  IInv'
<1> USE DEF IInv
<1>1. TypeOK'
  BY Assumed DEF TypeOK, CreateFails, Tokens, Threads, Stages, Brokers, rollouts,
      agents, workers
<1>2. UNCHANGED <<closed, token, thread, round, budget, children, busy, latch, call,
    worker, charged>>
  BY DEF CreateFails, rollouts, agents, workers
<1>3. /\ ThreadsOK' /\ SessionsSerial' /\ LatchFresh' /\ ForcedHasNoWorker'
      /\ BudgetsOK' /\ ClosedBelow'
  BY <1>2, ThreadsOKStutters, SessionsSerialStutters, LatchFreshStutters,
      ForcedHasNoWorkerStutters, BudgetsOKStutters, ClosedBelowStutters
<1>4. PromptsOK'
  <2>1. prompt' = [prompt EXCEPT ![c] = "sent"] /\ "sent" \in Brokers
    BY DEF CreateFails, Brokers
  <2>2. call[c] # "none" /\ PromptOf[c] # NoHandle /\ thread[PromptOf[c]] = "idle"
    BY DEF CreateFails, PromptsOK, Registered
  <2>3. UNCHANGED <<call, thread, children>>
    BY DEF CreateFails, rollouts, workers
  <2> QED BY <2>1, <2>2, <2>3, PromptsStay
<1>5. SlotsOK' /\ AccountsOK'
  <2>1. prompt' = [prompt EXCEPT ![c] = "sent"] /\ "sent" \in Brokers
    BY DEF CreateFails, Brokers
  <2>2. UNCHANGED <<thread, charged, active, launches>>
    BY DEF CreateFails, rollouts, workers, agents
  <2>3. \A d \in Calls : prompt'[d] \in {"counted", "sending"} => prompt[d] \in {"counted", "sending"}
    BY DEF CreateFails, TypeOK
  <2>4. \A d \in Calls : d \in Launched(charged[d])' => d \in Launched(charged[d])
    BY <2>2, <2>3 DEF Launched
  <2>5. prompt[c] \in {"counted", "sending", "sent"} <=> "sent" \in {"counted", "sending", "sent"}
    BY DEF CreateFails
  <2> QED BY <2>1, <2>2, <2>4, <2>5, PromptGoesOn
<1>6. OriginsOK'
  <2>1. prompt' = [prompt EXCEPT ![c] = "sent"] /\ prompt[c] # "sending"
    BY DEF CreateFails
  <2>2. "sent" \in Brokers \ {"sending"}
    BY DEF Brokers
  <2>3. barred' \subseteq barred /\ UNCHANGED <<call, closed, linked>>
    BY DEF CreateFails, rollouts, workers
  <2> QED BY <2>1, <2>2, <2>3, OriginsStay
<1> QED BY <1>1, <1>3, <1>4, <1>5, <1>6

\* The slot and the launch are taken in one section.
LEMMA CountKeeps ==
  ASSUME IInv, NEW c \in Calls, Count(c)
  PROVE  IInv'
<1> USE DEF IInv
<1>1. TypeOK'
  <2>1. charged[c] \in Budgets
    BY DEF Count, PromptsOK, BudgetsOK, Pays
  <2>2. prompt' \in [Calls -> Brokers]
    BY DEF Count, TypeOK, Brokers
  <2>3. barred' \subseteq barred
    BY DEF Count, rollouts
  <2>4. active' \in 0 .. MaxForeground
    BY ConversationsAssumption DEF Count, TypeOK, MayLaunch, agents
  <2>5. launches' \in [Budgets -> 0 .. MaxLaunches]
    BY <2>1, ConversationsAssumption DEF Count, TypeOK, MayLaunch, agents
  <2> QED BY <2>2, <2>3, <2>4, <2>5 DEF Count, TypeOK, rollouts, agents, workers
<1>2. UNCHANGED <<closed, token, thread, round, budget, children, busy, latch, call,
    worker, charged>>
  BY DEF Count, rollouts, agents, workers
<1>3. /\ ThreadsOK' /\ SessionsSerial' /\ LatchFresh' /\ ForcedHasNoWorker'
      /\ BudgetsOK' /\ ClosedBelow'
  BY <1>2, ThreadsOKStutters, SessionsSerialStutters, LatchFreshStutters,
      ForcedHasNoWorkerStutters, BudgetsOKStutters, ClosedBelowStutters
<1>4. PromptsOK'
  <2>1. PICK at \in {"counted", "gone"} : prompt' = [prompt EXCEPT ![c] = at]
    BY DEF Count
  <2>2. at \in Brokers
    BY DEF Brokers
  <2>3. call[c] # "none" /\ PromptOf[c] # NoHandle /\ thread[PromptOf[c]] = "idle"
    BY DEF Count, PromptsOK
  <2>4. UNCHANGED <<call, thread, children>>
    BY DEF Count, rollouts, workers
  <2> QED BY <2>1, <2>2, <2>3, <2>4, PromptsStay
<1>5. SlotsOK'
  <2>1. CASE MayLaunch(c)
    <3>1. active' = active + 1 /\ prompt' = [prompt EXCEPT ![c] = "counted"]
      BY <2>1 DEF Count
    <3>2. Counted' = Counted \cup {c} /\ c \notin Counted
      BY <3>1 DEF Count, Counted, TypeOK
    <3>3. Cardinality(Counted') = Cardinality(Counted) + 1
      BY <3>2, CountedFinite, FS_AddElement
    <3>4. active \in Nat /\ active < MaxForeground
      BY <2>1 DEF MayLaunch, TypeOK
    <3> QED BY <3>1, <3>3, <3>4, ConversationsAssumption DEF SlotsOK
  <2>2. CASE ~ MayLaunch(c)
    <3>1. active' = active /\ prompt' = [prompt EXCEPT ![c] = "gone"]
      BY <2>2 DEF Count, agents
    <3>2. Counted' = Counted
      BY <3>1 DEF Count, Counted, TypeOK
    <3> QED BY <3>1, <3>2 DEF SlotsOK
  <2> QED BY <2>1, <2>2
<1>6. AccountsOK'
  <2>0. prompt[c] = "entered" /\ UNCHANGED <<thread, charged>>
    BY DEF Count, rollouts, workers
  <2>1. CASE MayLaunch(c)
    <3>1. /\ launches' = [launches EXCEPT ![charged[c]] = @ + 1]
          /\ prompt' = [prompt EXCEPT ![c] = "counted"]
      BY <2>1 DEF Count
    <3> SUFFICES ASSUME NEW b \in Budgets PROVE Cardinality(Launched(b)') <= launches'[b]
      BY DEF AccountsOK
    <3>2. Cardinality(Launched(b)) <= launches[b] /\ launches[b] \in Nat
      BY DEF AccountsOK, TypeOK
    <3>3. CASE b = charged[c]
      <4>1. launches'[b] = launches[b] + 1
        BY <3>1, <3>3 DEF TypeOK
      <4>2. PromptOf[c] # NoHandle
        BY <2>0 DEF PromptsOK
      <4>3. Launched(b)' = Launched(b) \cup {c}
        BY <2>0, <3>1, <3>3, <4>2 DEF Launched, TypeOK
      <4>4. Cardinality(Launched(b)') <= Cardinality(Launched(b)) + 1
        BY <4>3, LaunchedFinite, FS_AddElement
      <4>5. Cardinality(Launched(b)) \in Nat /\ Cardinality(Launched(b)') \in Nat
        BY <4>3, LaunchedFinite, FS_AddElement, FS_CardinalityType
      <4> QED BY <3>2, <4>1, <4>4, <4>5
    <3>4. CASE b # charged[c]
      <4>1. launches'[b] = launches[b]
        BY <3>1, <3>4 DEF TypeOK
      <4>2. Launched(b)' = Launched(b)
        BY <2>0, <3>1, <3>4 DEF Launched, TypeOK
      <4> QED BY <3>2, <4>1, <4>2
    <3> QED BY <3>3, <3>4
  <2>2. CASE ~ MayLaunch(c)
    <3>1. launches' = launches /\ prompt' = [prompt EXCEPT ![c] = "gone"]
      BY <2>2 DEF Count, agents
    <3>2. \A b \in Budgets : Launched(b)' = Launched(b)
      BY <2>0, <3>1 DEF Launched, TypeOK
    <3> QED BY <3>1, <3>2 DEF AccountsOK
  <2> QED BY <2>1, <2>2
<1>7. OriginsOK'
  <2>1. PICK at \in {"counted", "gone"} : prompt' = [prompt EXCEPT ![c] = at]
    BY DEF Count
  <2>2. at \in Brokers \ {"sending"} /\ prompt[c] # "sending"
    BY DEF Brokers, Count
  <2>3. barred' \subseteq barred /\ UNCHANGED <<call, closed, linked>>
    BY DEF Count, rollouts, workers
  <2> QED BY <2>1, <2>2, <2>3, OriginsStay
<1> QED BY <1>1, <1>3, <1>4, <1>5, <1>6, <1>7

LEMMA AnswerKeeps ==
  ASSUME IInv, NEW c \in Calls, Answer(c)
  PROVE  IInv'
<1> USE DEF IInv
<1>1. TypeOK'
  <2>1. c \in Counted
    BY DEF Answer, Answered, Counted
  <2>2. Cardinality(Counted) # 0
    BY <2>1, CountedFinite, FS_EmptySet
  <2>3. active' \in 0 .. MaxForeground
    BY <2>2, ConversationsAssumption DEF Answer, TypeOK, SlotsOK
  <2>4. prompt' \in [Calls -> Brokers]
    BY DEF Answer, TypeOK, Brokers
  <2> QED BY <2>3, <2>4 DEF Answer, TypeOK, workers
<1>2. UNCHANGED <<closed, token, thread, round, budget, children, busy, latch, call,
    worker, charged>>
  BY DEF Answer, rollouts, agents, workers
<1>3. /\ ThreadsOK' /\ SessionsSerial' /\ LatchFresh' /\ ForcedHasNoWorker'
      /\ BudgetsOK' /\ ClosedBelow'
  BY <1>2, ThreadsOKStutters, SessionsSerialStutters, LatchFreshStutters,
      ForcedHasNoWorkerStutters, BudgetsOKStutters, ClosedBelowStutters
<1>4. PromptsOK'
  <2>1. prompt' = [prompt EXCEPT ![c] = "gone"] /\ "gone" \in Brokers
    BY DEF Answer, Brokers
  <2>2. call[c] # "none" /\ PromptOf[c] # NoHandle /\ thread[PromptOf[c]] \in {"idle", "done"}
    BY DEF Answer, Answered, PromptsOK
  <2>3. UNCHANGED <<call, thread, children>>
    BY DEF Answer, workers
  <2> QED BY <2>1, <2>2, <2>3, PromptsStay
<1>5. SlotsOK'
  <2>1. active' = active - 1 /\ prompt' = [prompt EXCEPT ![c] = "gone"] /\ prompt[c] = "sent"
    BY DEF Answer, Answered
  <2>2. Counted' = Counted \ {c} /\ c \in Counted
    BY <2>1 DEF Counted, TypeOK
  <2>3. Cardinality(Counted') = Cardinality(Counted) - 1
    BY <2>2, CountedFinite, FS_RemoveElement
  <2> QED BY <2>1, <2>3, ConversationsAssumption DEF SlotsOK, TypeOK
<1>6. AccountsOK'
  <2>1. /\ prompt' = [prompt EXCEPT ![c] = "gone"] /\ prompt[c] = "sent"
        /\ UNCHANGED <<thread, charged, launches>>
    BY DEF Answer, Answered, workers
  <2>2. \A b \in Budgets : Launched(b)' = Launched(b)
    BY <2>1 DEF Launched, TypeOK
  <2> QED BY <2>1, <2>2 DEF AccountsOK
<1>7. OriginsOK'
  <2>1. prompt' = [prompt EXCEPT ![c] = "gone"] /\ prompt[c] # "sending"
    BY DEF Answer, Answered
  <2>2. "gone" \in Brokers \ {"sending"}
    BY DEF Brokers
  <2>3. barred' \subseteq barred /\ UNCHANGED <<call, closed, linked>>
    BY DEF Answer, rollouts, workers
  <2> QED BY <2>1, <2>2, <2>3, OriginsStay
<1> QED BY <1>1, <1>3, <1>4, <1>5, <1>6, <1>7

-----------------------------------------------------------------------------
(* Cancelling a tree.                                                      *)

LEMMA BelowIsTree ==
  ASSUME TypeOK, NEW h \in Handles
  PROVE  /\ Below(h) \in SUBSET Handles
         /\ h \in Below(h)
         /\ \A x \in Below(h) : children[x] \subseteq Below(h)
<1>1. Below(h) \in SUBSET Handles /\ h \in Below(h)
  BY DEF Below
<1>2. ASSUME NEW x \in Below(h), NEW y \in children[x] PROVE y \in Below(h)
  <2>1. y \in Handles
    BY <1>1, <1>2, Assumed DEF TypeOK
  <2>2. ASSUME NEW S \in SUBSET Handles, h \in S, \A z \in S : children[z] \subseteq S
        PROVE  y \in S
    BY <1>2, <2>2 DEF Below
  <2> QED BY <2>1, <2>2 DEF Below
<1> QED BY <1>1, <1>2

\* A tree is cut: whoever cuts it, the latch is set where a rollout is cancelled, the
\* registered workers of it are dead, and no child of what is closed stays open.
LEMMA CutKeeps ==
  ASSUME IInv, NEW S \in SUBSET Handles, NEW shutting \in SUBSET S, Cut(S, shutting),
         \A x \in S : children[x] \subseteq S, S \ shutting \subseteq Tabs,
         UNCHANGED <<thread, round>>,
         \A h \in Handles : children'[h] \subseteq children[h],
         \A c \in Calls : call'[c] \in Registered => call[c] \in Registered
  PROVE  /\ closed' \subseteq Handles /\ closed \cup shutting = closed'
         /\ token' \in [Handles -> Tokens]
         /\ latch' \subseteq Sessions
         /\ worker' \in [Calls -> {"none", "alive", "dead"}]
         /\ ThreadsOK' /\ LatchFresh' /\ ForcedHasNoWorker' /\ ClosedBelow'
<1> DEFINE hit == {h \in S : token[h] # "none"}
           killed == {SessionOf[h] : h \in hit}
<1>1. \A h \in Handles : token'[h] = IF h \in hit THEN "force" ELSE token[h]
  BY DEF Cut
<1>2. closed' = closed \cup shutting /\ latch' = latch \cup killed
  BY DEF Cut
<1>3. closed' \subseteq Handles
  BY <1>2 DEF IInv, TypeOK
<1>4. token' \in [Handles -> Tokens]
  BY DEF IInv, TypeOK, Cut, Tokens
<1>5. latch' \subseteq Sessions
  BY <1>2, Assumed DEF IInv, TypeOK
<1>6. worker' \in [Calls -> {"none", "alive", "dead"}]
  BY DEF IInv, TypeOK, Cut
<1>7. ThreadsOK'
  BY <1>1, Assumed DEF IInv, ThreadsOK
<1>8. LatchFresh'
  <2>1. hit \subseteq Handles
    OBVIOUS
  <2> QED BY <1>1, <1>2, <2>1 DEF IInv, LatchFresh
<1>9. ForcedHasNoWorker'
  <2> SUFFICES ASSUME NEW c \in Foreground, token'[HostOf[c]] = "force", call'[c] \in Registered
               PROVE  worker'[c] # "alive"
    BY DEF ForcedHasNoWorker
  <2>1. c \in Calls /\ HostOf[c] \in Handles /\ call[c] \in Registered
    BY Assumed DEF Foreground
  <2>2. worker'[c] = IF SessionOf[HostOf[c]] \in killed /\ worker[c] = "alive"
                     THEN "dead" ELSE worker[c]
    BY <2>1 DEF Cut
  <2>3. CASE HostOf[c] \in hit
    <3>1. SessionOf[HostOf[c]] \in killed
      BY <2>3
    <3> QED BY <2>2, <3>1
  <2>4. CASE HostOf[c] \notin hit
    <3>1. token[HostOf[c]] = "force"
      BY <1>1, <2>1, <2>4
    <3>2. worker[c] # "alive"
      BY <2>1, <3>1 DEF IInv, ForcedHasNoWorker
    <3> QED BY <2>2, <3>2
  <2> QED BY <2>3, <2>4
<1>10. ClosedBelow'
  <2> SUFFICES ASSUME NEW h \in Handles, h \in closed' \/ token'[h] = "force"
               PROVE  children[h] \subseteq closed'
    BY DEF ClosedBelow
  <2>1. CASE h \in S
    <3>1. children[h] \subseteq S /\ children[h] \subseteq Kids
      BY <2>1 DEF IInv, TypeOK
    <3>2. children[h] \subseteq shutting
      BY <3>1, Assumed
    <3> QED BY <1>2, <3>2
  <2>2. CASE h \notin S
    <3>1. h \in closed \/ token[h] = "force"
      BY <1>1, <1>2, <2>2
    <3> QED BY <1>2, <3>1 DEF IInv, ClosedBelow
  <2> QED BY <2>1, <2>2
<1> QED BY <1>2, <1>3, <1>4, <1>5, <1>6, <1>7, <1>8, <1>9, <1>10

\* A closing that no call and no prompt takes part in.
LEMMA TabCutKeeps ==
  ASSUME IInv, NEW t \in Tabs, NEW shutting \in SUBSET Below(t),
         Below(t) \ shutting \subseteq {t}, Cut(Below(t), shutting),
         UNCHANGED <<thread, round, budget, children, barred, agents, call, charged,
                     stopped, prompt, linked>>
  PROVE  IInv'
<1>1. /\ Below(t) \in SUBSET Handles
      /\ \A x \in Below(t) : children[x] \subseteq Below(t)
  BY BelowIsTree, Assumed DEF IInv
<1>2. Below(t) \ shutting \subseteq Tabs
  OBVIOUS
<1>3. /\ closed' \subseteq Handles /\ closed \cup shutting = closed'
      /\ token' \in [Handles -> Tokens]
      /\ latch' \subseteq Sessions
      /\ worker' \in [Calls -> {"none", "alive", "dead"}]
      /\ ThreadsOK' /\ LatchFresh' /\ ForcedHasNoWorker' /\ ClosedBelow'
  BY <1>1, <1>2, CutKeeps
<1>4. TypeOK'
  BY <1>3 DEF IInv, TypeOK, agents
<1>5. OriginsOK'
  BY <1>3 DEF IInv, OriginsOK
<1>6. /\ PromptsOK' /\ SessionsSerial' /\ SlotsOK' /\ BudgetsOK' /\ AccountsOK'
  BY PromptsOKStutters, SessionsSerialStutters, SlotsOKStutters, BudgetsOKStutters,
     AccountsOKStutters DEF IInv, agents
<1> QED BY <1>3, <1>4, <1>5, <1>6 DEF IInv

LEMMA CancelKeeps ==
  ASSUME IInv, NEW t \in Tabs, Cancel(t)
  PROVE  IInv'
<1> DEFINE shutting == Below(t) \ {t}
<1>1. shutting \in SUBSET Below(t) /\ Below(t) \ shutting \subseteq {t}
  OBVIOUS
<1>2. Cut(Below(t), shutting)
  BY DEF Cancel
<1> QED BY <1>1, <1>2, TabCutKeeps DEF Cancel

LEMMA CloseKeeps ==
  ASSUME IInv, NEW t \in Tabs, Close(t)
  PROVE  IInv'
BY TabCutKeeps DEF Close

\* What a prompt's conversation has below it is closed with it.
LEMMA KidCut ==
  ASSUME IInv, NEW k \in Kids, Cut(Below(k), Below(k)),
         UNCHANGED <<thread, round>>,
         \A h \in Handles : children'[h] \subseteq children[h],
         \A c \in Calls : call'[c] \in Registered => call[c] \in Registered
  PROVE  /\ closed' \subseteq Handles /\ closed \subseteq closed' /\ k \in closed'
         /\ token' \in [Handles -> Tokens]
         /\ latch' \subseteq Sessions
         /\ worker' \in [Calls -> {"none", "alive", "dead"}]
         /\ ThreadsOK' /\ LatchFresh' /\ ForcedHasNoWorker' /\ ClosedBelow'
<1>1. /\ Below(k) \in SUBSET Handles /\ k \in Below(k)
      /\ \A x \in Below(k) : children[x] \subseteq Below(k)
  BY BelowIsTree, Assumed DEF IInv
<1>2. Below(k) \ Below(k) \subseteq Tabs /\ Below(k) \in SUBSET Below(k)
  OBVIOUS
<1> HIDE DEF IInv
<1>3. closed' \subseteq Handles /\ closed \cup Below(k) = closed'
  BY <1>1, <1>2, CutKeeps
<1> QED BY <1>1, <1>2, <1>3, CutKeeps

LEMMA CloseOriginKeeps ==
  ASSUME IInv, NEW c \in Calls, CloseOrigin(c)
  PROVE  IInv'
<1> DEFINE k == PromptOf[c]
<1>1. k \in Kids
  BY Assumed DEF IInv, OriginsOK, CloseOrigin
<1>2. /\ call[c] = "barred" /\ call' = [call EXCEPT ![c] = "killing"]
      /\ UNCHANGED <<thread, round, budget, children, barred, agents, charged,
                     stopped, prompt, linked>>
      /\ UNCHANGED <<busy, active, launches, shut>>
  BY DEF CloseOrigin, agents
<1>3. \A d \in Calls : call'[d] = IF d = c THEN "killing" ELSE call[d]
  BY <1>2 DEF IInv, TypeOK
<1>4. \A d \in Calls : call'[d] \in Registered => call[d] \in Registered
  BY <1>2, <1>3 DEF Registered
<1>5. Cut(Below(k), Below(k))
  BY DEF CloseOrigin
<1> HIDE DEF k
<1>6. /\ closed' \subseteq Handles /\ closed \subseteq closed' /\ k \in closed'
      /\ token' \in [Handles -> Tokens]
      /\ latch' \subseteq Sessions
      /\ worker' \in [Calls -> {"none", "alive", "dead"}]
      /\ ThreadsOK' /\ LatchFresh' /\ ForcedHasNoWorker' /\ ClosedBelow'
  BY <1>1, <1>2, <1>4, <1>5, KidCut
<1>7. "killing" \in Stages \ {"none"}
  BY DEF Stages
<1>8. call' \in [Calls -> Stages] /\ PromptsOK' /\ BudgetsOK'
  BY <1>2, <1>7, CallGoesOn
<1>9. TypeOK'
  BY <1>2, <1>6, <1>8 DEF IInv, TypeOK
<1>10. OriginsOK'
  BY <1>2, <1>3, <1>6 DEF IInv, OriginsOK, TypeOK, k
<1>11. SessionsSerial' /\ SlotsOK' /\ AccountsOK'
  BY <1>2, SessionsSerialStutters, SlotsOKStutters, AccountsOKStutters DEF IInv
<1> QED BY <1>6, <1>8, <1>9, <1>10, <1>11 DEF IInv

LEMMA UnregisterKeeps ==
  ASSUME IInv, NEW c \in Calls, Unregister(c)
  PROVE  IInv'
<1> DEFINE k == PromptOf[c]
<1>1. /\ prompt[c] = "sending" /\ thread[k] = "done"
      /\ prompt' = [prompt EXCEPT ![c] = "sent"]
      /\ linked' = linked \ {c}
      /\ children' = [children EXCEPT ![HostOf[c]] = @ \ {k}]
      /\ Cut(Below(k), Below(k))
      /\ UNCHANGED <<thread, round, budget, barred, busy, active, launches, shut, call,
                     charged, stopped>>
  BY DEF Unregister, agents
<1>2. k \in Kids /\ call[c] # "none" /\ PromptOf[c] # NoHandle
  BY <1>1, Assumed DEF IInv, PromptsOK
<1> HIDE DEF k
<1>3. /\ children' \in [Handles -> SUBSET Kids]
      /\ \A h \in Handles : children'[h] \subseteq children[h]
  BY <1>1 DEF IInv, TypeOK
<1>4. \A d \in Calls : call'[d] \in Registered => call[d] \in Registered
  BY <1>1
<1>5. /\ closed' \subseteq Handles /\ closed \subseteq closed' /\ k \in closed'
      /\ token' \in [Handles -> Tokens]
      /\ latch' \subseteq Sessions
      /\ worker' \in [Calls -> {"none", "alive", "dead"}]
      /\ ThreadsOK' /\ LatchFresh' /\ ForcedHasNoWorker' /\ ClosedBelow'
  BY <1>1, <1>2, <1>3, <1>4, KidCut
<1>6. \A d \in Calls : prompt'[d] = IF d = c THEN "sent" ELSE prompt[d]
  BY <1>1 DEF IInv, TypeOK
<1>7. /\ prompt' \in [Calls -> Brokers] /\ SlotsOK' /\ AccountsOK'
  <2>1. \A d \in Calls : d \in Launched(charged[d])' => d \in Launched(charged[d])
    BY <1>1, <1>6 DEF Launched
  <2>2. "sent" \in Brokers
    BY DEF Brokers
  <2> QED BY <1>1, <2>1, <2>2, PromptGoesOn
<1>8. TypeOK'
  BY <1>1, <1>3, <1>5, <1>7 DEF IInv, TypeOK
<1>9. PromptsOK'
  BY <1>1, <1>2, <1>3, <1>6, Assumed DEF IInv, TypeOK, PromptsOK, k
<1>10. OriginsOK'
  BY <1>1, <1>5, <1>6 DEF IInv, OriginsOK, TypeOK
<1>11. SessionsSerial' /\ BudgetsOK'
  BY <1>1, SessionsSerialStutters, BudgetsOKStutters DEF IInv
<1> QED BY <1>5, <1>7, <1>8, <1>9, <1>10, <1>11 DEF IInv

-----------------------------------------------------------------------------
(* Registering a prompted conversation with its parent.                    *)

\* Before its prompt is sent, a kid has neither rollout nor children.
LEMMA Unborn ==
  ASSUME IInv, NEW c \in Calls, prompt[c] = "counted"
  PROVE  /\ PromptOf[c] \in Kids /\ PromptOf[c] # NoHandle
         /\ thread[PromptOf[c]] = "idle"
         /\ children[PromptOf[c]] = {}
         /\ call[c] # "none"
         /\ HostOf[c] \in Kids => thread[HostOf[c]] # "idle"
         /\ \A d \in Calls : PromptOf[d] = PromptOf[c] => d = c
BY Assumed DEF IInv, PromptsOK

LEMMA AcceptKeeps ==
  ASSUME IInv, NEW c \in Calls, prompt[c] = "counted", ~ Refused(c),
         children' = IF c \in Foreground
                     THEN [children EXCEPT ![HostOf[c]] = @ \cup {PromptOf[c]}] ELSE children,
         linked' = linked \cup {c},
         prompt' = [prompt EXCEPT ![c] = "sending"],
         UNCHANGED <<closed, thread, token, round, budget, barred, agents, workers>>
  PROVE  IInv'
<1>1. HostOf[c] \in Handles /\ PromptOf[c] \in Kids
  BY Assumed, Unborn
<1>2. \A d \in Calls : prompt'[d] = IF d = c THEN "sending" ELSE prompt[d]
  BY DEF IInv, TypeOK
<1>3. children' \in [Handles -> SUBSET Kids]
  BY <1>1 DEF IInv, TypeOK
<1>4. /\ \A h \in Handles : h # HostOf[c] => children'[h] = children[h]
      /\ children'[HostOf[c]] \subseteq children[HostOf[c]] \cup {PromptOf[c]}
      /\ c \notin Foreground => children' = children
  BY <1>1 DEF IInv, TypeOK
<1>5. UNCHANGED <<busy, active, launches, shut, latch, call, worker, charged, stopped>>
  BY DEF agents, workers
<1>6. prompt' \in [Calls -> Brokers] /\ SlotsOK' /\ AccountsOK'
  <2>1. \A d \in Calls : d \in Launched(charged[d])' => d \in Launched(charged[d])
    BY <1>2, <1>5 DEF Launched
  <2>2. "sending" \in Brokers
    BY DEF Brokers
  <2> QED BY <1>5, <2>1, <2>2, PromptGoesOn
<1>7. TypeOK'
  BY <1>3, <1>5, <1>6 DEF IInv, TypeOK
<1>8. PromptsOK'
  <2>1. \A d \in Calls : prompt'[d] # "idle" => call'[d] # "none" /\ PromptOf[d] # NoHandle
    BY <1>2, <1>5, Unborn DEF IInv, PromptsOK
  <2>2. \A k \in Kids : thread'[k] = "idle" => children'[k] = {}
    BY <1>4, Unborn, Assumed DEF IInv, PromptsOK
  <2> QED BY <1>2, <1>5, <2>1, <2>2 DEF IInv, PromptsOK
<1>9. OriginsOK'
  BY <1>2, <1>5 DEF IInv, OriginsOK, Refused, TypeOK
<1>10. ClosedBelow'
  BY <1>4 DEF IInv, ClosedBelow, Refused
<1>11. /\ ThreadsOK' /\ SessionsSerial' /\ LatchFresh' /\ ForcedHasNoWorker' /\ BudgetsOK'
  BY <1>5, ThreadsOKStutters, SessionsSerialStutters, LatchFreshStutters,
     ForcedHasNoWorkerStutters, BudgetsOKStutters DEF IInv
<1> QED BY <1>6, <1>7, <1>8, <1>9, <1>10, <1>11 DEF IInv

LEMMA RefuseKeeps ==
  ASSUME IInv, NEW c \in Calls, prompt[c] = "counted",
         closed' = closed \cup {PromptOf[c]},
         thread' = [thread EXCEPT ![PromptOf[c]] = "done"],
         prompt' = [prompt EXCEPT ![c] = "sent"],
         UNCHANGED <<children, linked, token, round, budget, barred, agents, workers>>
  PROVE  IInv'
<1> DEFINE k == PromptOf[c]
<1>1. /\ k \in Kids /\ k \in Handles /\ k \notin Tabs /\ PromptOf[c] # NoHandle
      /\ thread[k] = "idle" /\ children[k] = {} /\ call[c] # "none"
      /\ \A d \in Calls : PromptOf[d] = k => d = c
  BY Unborn, Assumed
<1>2. closed' = closed \cup {k} /\ thread' = [thread EXCEPT ![k] = "done"]
  OBVIOUS
<1>3. PromptOf[c] = k
  OBVIOUS
<1> HIDE DEF k
<1>4. \A d \in Calls : prompt'[d] = IF d = c THEN "sent" ELSE prompt[d]
  BY DEF IInv, TypeOK
<1>5. \A h \in Handles : thread'[h] = IF h = k THEN "done" ELSE thread[h]
  BY <1>1, <1>2 DEF IInv, TypeOK
<1>6. UNCHANGED <<busy, active, launches, shut, latch, call, worker, charged, stopped>>
  BY DEF agents, workers
<1>7. prompt' \in [Calls -> Brokers] /\ SlotsOK' /\ AccountsOK'
  <2>1. \A d \in Calls : d \in Launched(charged[d])' => d \in Launched(charged[d])
    BY <1>1, <1>3, <1>4, <1>5, <1>6, Assumed DEF Launched
  <2>2. "sent" \in Brokers
    BY DEF Brokers
  <2> QED BY <1>6, <2>1, <2>2, PromptGoesOn
<1>8. TypeOK'
  BY <1>1, <1>2, <1>6, <1>7 DEF IInv, TypeOK, Threads
<1>9. ThreadsOK'
  BY <1>1, <1>5, Assumed DEF IInv, ThreadsOK
<1>10. PromptsOK'
  <2>1. \A x \in Kids : thread'[x] = IF x = k THEN "done" ELSE thread[x]
    BY <1>5, Assumed
  <2>2. \A d \in Calls : prompt'[d] # "idle" => call'[d] # "none" /\ PromptOf[d] # NoHandle
    BY <1>1, <1>4, <1>6 DEF IInv, PromptsOK
  <2>3. ASSUME NEW d \in Calls, PromptOf[d] # NoHandle
        PROVE  /\ prompt'[d] \in {"idle", "received", "entered", "counted"}
                    => thread'[PromptOf[d]] = "idle"
               /\ prompt'[d] \in {"sent", "gone"} => thread'[PromptOf[d]] \in {"idle", "done"}
    <3>1. CASE d = c
      BY <1>1, <1>3, <1>4, <2>1, <3>1
    <3>2. CASE d # c
      <4>1. PromptOf[d] # k /\ PromptOf[d] \in Kids /\ prompt'[d] = prompt[d]
        BY <1>1, <1>4, <2>3, <3>2, Assumed
      <4> QED BY <2>1, <2>3, <4>1 DEF IInv, PromptsOK
    <3> QED BY <3>1, <3>2
  <2>4. /\ \A x \in Kids : thread'[x] # "idle" => \E d \in Calls : PromptOf[d] = x
        /\ \A d \in Calls : HostOf[d] \in Kids /\ call'[d] # "none" => thread'[HostOf[d]] # "idle"
        /\ \A x \in Kids : thread'[x] = "idle" => children'[x] = {}
    BY <1>3, <1>6, <2>1 DEF IInv, PromptsOK
  <2> QED BY <2>2, <2>3, <2>4 DEF PromptsOK
<1>11. SessionsSerial'
  <2>1. \A h \in Handles : InProgress(h)' <=> InProgress(h)
    BY <1>1, <1>5 DEF InProgress
  <2> QED BY <1>6, <2>1 DEF IInv, SessionsSerial
<1>12. BudgetsOK'
  BY <1>5, <1>6 DEF IInv, BudgetsOK, Pays
<1>13. OriginsOK'
  BY <1>2, <1>4, <1>6 DEF IInv, OriginsOK, TypeOK
<1>14. ClosedBelow'
  BY <1>1, <1>2 DEF IInv, ClosedBelow
<1>15. LatchFresh' /\ ForcedHasNoWorker'
  BY <1>6, LatchFreshStutters, ForcedHasNoWorkerStutters DEF IInv
<1> QED BY <1>7, <1>8, <1>9, <1>10, <1>11, <1>12, <1>13, <1>14, <1>15 DEF IInv

LEMMA RegisterKeeps ==
  ASSUME IInv, NEW c \in Calls, Register(c)
  PROVE  IInv'
<1>1. CASE Refused(c)
  BY <1>1, RefuseKeeps DEF Register
<1>2. CASE ~ Refused(c)
  BY <1>2, AcceptKeeps DEF Register
<1> QED BY <1>1, <1>2

-----------------------------------------------------------------------------
(* The invariant.                                                          *)

LEMMA InitEstablishes == Init => IInv
<1> SUFFICES ASSUME Init PROVE IInv
  OBVIOUS
<1>1. TypeOK
  <2>1. 0 \in 0 .. MaxForeground /\ 0 \in 0 .. MaxLaunches /\ 0 \in 0 .. MaxRounds
    BY ConversationsAssumption
  <2> QED BY <2>1 DEF Init, TypeOK, Tokens, Threads, Stages, Brokers
<1>2. ThreadsOK /\ PromptsOK /\ SessionsSerial /\ LatchFresh
  BY Assumed DEF Init, ThreadsOK, PromptsOK, SessionsSerial, InProgress, LatchFresh
<1>3. ForcedHasNoWorker /\ BudgetsOK /\ OriginsOK /\ ClosedBelow
  BY Assumed DEF Init, ForcedHasNoWorker, Foreground, BudgetsOK, OriginsOK, ClosedBelow
<1>4. SlotsOK
  <2>1. Counted = {}
    BY DEF Init, Counted
  <2> QED BY <2>1, FS_EmptySet, ConversationsAssumption DEF Init, SlotsOK
<1>5. AccountsOK
  <2>1. \A b \in Budgets : Launched(b) = {}
    BY Assumed DEF Init, Launched
  <2>2. \A b \in Budgets : launches[b] = 0
    BY DEF Init
  <2> QED BY <2>1, <2>2, FS_EmptySet DEF AccountsOK
<1> QED BY <1>1, <1>2, <1>3, <1>4, <1>5 DEF IInv

LEMMA VarsStutter == ASSUME IInv, UNCHANGED vars PROVE IInv'
<1>1. /\ UNCHANGED <<closed, token, thread, round, budget, children, barred, busy, active,
                     launches, shut, latch, call, worker, charged, stopped, prompt, linked>>
  BY DEF vars, rollouts, agents, workers
<1>2. TypeOK'
  BY <1>1 DEF IInv, TypeOK
<1> QED
  BY <1>1, <1>2, ThreadsOKStutters, PromptsOKStutters, SessionsSerialStutters,
     LatchFreshStutters, ForcedHasNoWorkerStutters, SlotsOKStutters, BudgetsOKStutters,
     AccountsOKStutters, OriginsOKStutters, ClosedBelowStutters DEF IInv

LEMMA NextKeeps == IInv /\ [Next]_vars => IInv'
<1> SUFFICES ASSUME IInv, [Next]_vars PROVE IInv'
  OBVIOUS
<1>1. ASSUME NEW h \in Handles, RolloutStep(h) PROVE IInv'
  BY <1>1, EnterKeeps, ReserveKeeps, ObserveKeeps, EndKeeps, ExitKeeps, BatchKeeps
  DEF RolloutStep
<1>2. ASSUME NEW t \in Tabs, GracefulStop(t) \/ Cancel(t) \/ Close(t) PROVE IInv'
  BY <1>2, GracefulStopKeeps, CancelKeeps, CloseKeeps
<1>3. ASSUME NEW c \in Calls, CallStep(c) PROVE IInv'
  BY <1>3, DetachKeeps, SpawnKeeps, EnrollKeeps, WorkerEndsKeeps, LeaveKeeps, BarKeeps,
     CloseOriginKeeps, KillKeeps, StopRunKeeps
  DEF CallStep
<1>4. ASSUME NEW c \in Calls, PromptStep(c) PROVE IInv'
  BY <1>4, ReceiveKeeps, OpenKeeps, CountKeeps, RegisterKeeps, CreateFailsKeeps,
     UnregisterKeeps, AnswerKeeps
  DEF PromptStep
<1>5. ASSUME Shut PROVE IInv'
  BY <1>5, ShutKeeps
<1> QED BY <1>1, <1>2, <1>3, <1>4, <1>5, VarsStutter DEF Next

LEMMA Invariance == Spec => []IInv
BY InitEstablishes, NextKeeps, PTL DEF Spec

-----------------------------------------------------------------------------
(* Counting agents.                                                        *)

\* A set of at most n elements can be numbered from 1 to n.
LEMMA Numbering ==
  ASSUME NEW S, IsFiniteSet(S), NEW n \in Nat, Cardinality(S) <= n
  PROVE  \E f : f \in Injection(S, 1 .. n)
<1>1. PICK m \in Nat : ExistsBijection(1 .. m, S)
  BY FS_NatBijection
<1>2. m <= n
  BY <1>1, FS_CountingElements
<1>3. PICK g : g \in Bijection(1 .. m, S)
  BY <1>1 DEF ExistsBijection
<1>4. /\ g \in [1 .. m -> S]
      /\ \A x \in S : \E i \in 1 .. m : g[i] = x
  BY <1>3 DEF Bijection, Surjection
<1> DEFINE f == [x \in S |-> CHOOSE i \in 1 .. m : g[i] = x]
<1>5. \A x \in S : f[x] \in 1 .. m /\ g[f[x]] = x
  BY <1>4
<1>6. f \in [S -> 1 .. n]
  BY <1>2, <1>5
<1>7. \A x, y \in S : f[x] = f[y] => x = y
  BY <1>5
<1> HIDE DEF f
<1>8. f \in Injection(S, 1 .. n)
  BY <1>6, <1>7 DEF Injection, IsInjective
<1> QED BY <1>8

\* An agent in a rollout is counted, its prompt being in its sending.
LEMMA AgentsHoldSlots ==
  ASSUME IInv
  PROVE  Cardinality({k \in Kids : InProgress(k)}) <= active
<1> DEFINE K == {k \in Kids : InProgress(k)}
           S == {c \in Counted : PromptOf[c] \in K}
           f == [c \in S |-> PromptOf[c]]
<1>1. ASSUME NEW k \in K PROVE \E c \in S : f[c] = k
  <2>1. PICK c \in Calls : PromptOf[c] = k
    BY DEF IInv, PromptsOK, InProgress
  <2>2. PromptOf[c] # NoHandle /\ thread[k] \notin {"idle", "done"}
    BY <2>1, Assumed DEF InProgress
  <2>3. prompt[c] = "sending"
    BY <2>1, <2>2 DEF IInv, PromptsOK, TypeOK, Brokers
  <2> QED BY <2>1, <2>3 DEF Counted
<1>2. f \in Surjection(S, K)
  BY <1>1 DEF Surjection
<1>3. S \subseteq Counted
  OBVIOUS
<1>4. IsFiniteSet(S) /\ Cardinality(S) <= Cardinality(Counted) /\ Cardinality(S) \in Nat
  BY <1>3, CountedFinite, FS_Subset, FS_CardinalityType
<1>5. Cardinality(K) <= Cardinality(S) /\ Cardinality(K) \in Nat
  BY <1>2, <1>4, FS_Surjection, FS_CardinalityType
<1> QED BY <1>4, <1>5, CountedFinite DEF IInv, SlotsOK

\* The budgets of a tab's rollouts so far paid for all the agents below it.
LEMMA TreesAreBounded ==
  ASSUME IInv, NEW t \in Tabs
  PROVE  Cardinality({k \in Kids : RootOf(k) = {t} /\ thread[k] # "idle"})
           <= MaxLaunches * round[t]
<1> DEFINE K == {k \in Kids : RootOf(k) = {t} /\ thread[k] # "idle"}
           R == 1 .. round[t]
           N == 1 .. MaxLaunches
           of == [k \in K |-> CHOOSE c \in Calls : PromptOf[c] = k]
           numbers == [r \in R |-> CHOOSE f : f \in Injection(Launched(<<t, r>>), N)]
           at == [k \in K |-> <<charged[of[k]][2], numbers[charged[of[k]][2]][of[k]]>>]
<1>1. round[t] \in Nat /\ round[t] <= MaxRounds /\ MaxLaunches \in Nat /\ MaxRounds \in Nat
  BY ConversationsAssumption DEF IInv, TypeOK
<1>2. ASSUME NEW k \in K
      PROVE  of[k] \in Calls /\ PromptOf[of[k]] = k
  BY DEF IInv, PromptsOK
<1>3. ASSUME NEW k \in K
      PROVE  charged[of[k]] = <<t, charged[of[k]][2]>> /\ charged[of[k]][2] \in R
  <2> DEFINE c == of[k]
  <2>1. c \in Calls /\ PromptOf[c] = k /\ k # NoHandle
    BY <1>2, Assumed
  <2> HIDE DEF of
  <2>2. call[c] # "none"
    BY <2>1, Assumed DEF IInv, PromptsOK
  <2>3. Pays(charged[c], HostOf[c])
    BY <2>1, <2>2 DEF IInv, BudgetsOK
  <2>4. RootOf(HostOf[c]) \subseteq RootOf(k)
    BY <2>1 DEF RootOf
  <2>5. charged[c] \in Budgets /\ charged[c][1] = t /\ charged[c][2] <= round[t]
    BY <2>3, <2>4 DEF Pays
  <2> QED BY <2>5, <1>1 DEF Budgets, Rounds
<1>4. ASSUME NEW k \in K
      PROVE  of[k] \in Launched(<<t, charged[of[k]][2]>>)
  <2>1. of[k] \in Calls /\ PromptOf[of[k]] = k /\ k # NoHandle /\ thread[k] # "idle"
    BY <1>2, Assumed
  <2> HIDE DEF of
  <2> QED BY <1>3, <2>1 DEF Launched
<1>5. ASSUME NEW r \in R
      PROVE  numbers[r] \in Injection(Launched(<<t, r>>), N)
  <2>1. <<t, r>> \in Budgets
    BY <1>1, Assumed DEF Budgets, Rounds
  <2>2. Cardinality(Launched(<<t, r>>)) <= MaxLaunches
    BY <1>1, <2>1, LaunchedFinite DEF IInv, AccountsOK, TypeOK
  <2>3. \E f : f \in Injection(Launched(<<t, r>>), N)
    BY <1>1, <2>2, LaunchedFinite, Numbering
  <2> QED BY <2>3
<1> HIDE DEF of, numbers
<1>6. ASSUME NEW k \in K PROVE at[k] \in R \X N
  <2>1. numbers[charged[of[k]][2]][of[k]] \in N
    BY <1>3, <1>4, <1>5 DEF Injection, IsInjective
  <2> QED BY <1>3, <2>1
<1>7. ASSUME NEW j \in K, NEW k \in K, at[j] = at[k] PROVE j = k
  <2>1. /\ charged[of[j]][2] = charged[of[k]][2]
        /\ numbers[charged[of[k]][2]][of[j]] = numbers[charged[of[k]][2]][of[k]]
    BY <1>7
  <2> DEFINE r == charged[of[k]][2]
  <2>2. r \in R /\ of[j] \in Launched(<<t, r>>) /\ of[k] \in Launched(<<t, r>>)
    BY <1>3, <1>4, <2>1
  <2>3. DOMAIN numbers[r] = Launched(<<t, r>>) /\ IsInjective(numbers[r])
    BY <1>5, <2>2 DEF Injection
  <2>4. of[j] = of[k]
    BY <2>1, <2>2, <2>3 DEF IsInjective
  <2> QED BY <1>2, <2>4
<1>8. at \in Injection(K, R \X N)
  BY <1>6, <1>7 DEF Injection, IsInjective
<1>9. /\ IsFiniteSet(R \X N)
      /\ Cardinality(R \X N) = round[t] * MaxLaunches
  <2>1. \A n \in Nat : IsFiniteSet(1 .. n) /\ Cardinality(1 .. n) = n
    <3> TAKE n \in Nat
    <3>1. IsFiniteSet(1 .. n) /\ Cardinality(1 .. n) = IF 1 > n THEN 0 ELSE n - 1 + 1
      BY FS_Interval
    <3> QED BY <3>1
  <2>2. /\ IsFiniteSet(R) /\ Cardinality(R) = round[t]
        /\ IsFiniteSet(N) /\ Cardinality(N) = MaxLaunches
    BY <1>1, <2>1
  <2> HIDE DEF R, N
  <2> QED BY <2>2, FS_Product
<1>10. Cardinality(K) <= round[t] * MaxLaunches
  BY <1>8, <1>9, FS_Injection
<1> QED BY <1>1, <1>10

-----------------------------------------------------------------------------
(* The theorems.                                                          *)

\* Every table and counter of the coordinator keeps its type and its limit
\* (harness.py, _AgentCoordinator).
THEOREM TypeCorrect == Spec => []TypeOK
<1>1. IInv => TypeOK
  BY DEF IInv
<1> QED BY <1>1, Invariance, PTL

\* At most one handle of a durable session is in a rollout, and the busy sessions
\* are those (enter_rollout, exit_rollout).
THEOREM RolloutsAreSerial == Spec => []SessionsSerial
<1>1. IInv => SessionsSerial
  BY DEF IInv
<1> QED BY <1>1, Invariance, PTL

\* The latch of the foreground workers is set for sessions of cancelled rollouts
\* alone (cancel_foreground at _cancel_locked, the end of send).
THEOREM LatchMeansForced == Spec => []LatchFresh
<1>1. IInv => LatchFresh
  BY DEF IInv
<1> QED BY <1>1, Invariance, PTL

\* A cancelled rollout has no registered worker that is alive
\* (_register_foreground).
THEOREM NoWorkerSurvives == Spec => []ForcedHasNoWorker
<1>1. IInv => ForcedHasNoWorker
  BY DEF IInv
<1> QED BY <1>1, Invariance, PTL

\* Agents in a rollout never exceed the slots, nor those of a tab's tree the
\* allowances of its rollouts (run_foreground).
THEOREM AgentsAreBounded == Spec => []AgentsBounded
<1>1. IInv => AgentsBounded
  BY AgentsHoldSlots, TreesAreBounded DEF IInv, SlotsOK, AgentsBounded
<1> QED BY <1>1, Invariance, PTL

\* The children of what is closed or cancelled are closed, and so is the child of a
\* call that ended while its prompt was known (_register_foreground_child).
THEOREM TreesAreClosed == Spec => []StoppedTreeClosed
<1>1. IInv => StoppedTreeClosed
  BY DEF IInv, TypeOK, ClosedBelow, OriginsOK, StoppedTreeClosed
<1> QED BY <1>1, Invariance, PTL
=============================================================================
