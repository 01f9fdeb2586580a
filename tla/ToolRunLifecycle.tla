--------------------------- MODULE ToolRunLifecycle ---------------------------
(***************************************************************************)
(* What the runner promises of detached tool runs, without threads, locks  *)
(* or notifications: at most MaxActive at once, a run moves one way only,  *)
(* and one that was asked to stop ends as what it was asked, whatever its  *)
(* worker answered meanwhile.                                              *)
(***************************************************************************)
EXTENDS Naturals, FiniteSets

CONSTANTS Runs, MaxActive

VARIABLES
  state,   \* where each run is
  why      \* who asked it to stop: "nobody", "cancel" or "shutdown"

lifecycle == <<state, why>>

Active == {"running", "cancelling"}
Ends   == {"succeeded", "failed", "cancelled"}

Init ==
  /\ state = [r \in Runs |-> "none"]
  /\ why = [r \in Runs |-> "nobody"]

Begin(r) ==
  /\ state[r] = "none"
  /\ Cardinality({q \in Runs : state[q] \in Active}) < MaxActive
  /\ state' = [state EXCEPT ![r] = "running"]
  /\ UNCHANGED why

\* One run is cancelled, or shutdown asks every running one at once.
Ask(S, reason) ==
  /\ S # {} /\ \A r \in S : state[r] = "running"
  /\ state' = [r \in Runs |-> IF r \in S THEN "cancelling" ELSE state[r]]
  /\ why' = [r \in Runs |-> IF r \in S THEN reason ELSE why[r]]

End(r, outcome) ==
  /\ \/ state[r] = "running" /\ outcome \in {"succeeded", "failed"}
     \/ state[r] = "cancelling"
        /\ outcome = IF why[r] = "cancel" THEN "cancelled" ELSE "failed"
  /\ state' = [state EXCEPT ![r] = outcome]
  /\ UNCHANGED why

Next ==
  \/ \E r \in Runs : Begin(r)
  \/ \E r \in Runs : Ask({r}, "cancel")
  \/ \E S \in SUBSET Runs : Ask(S, "shutdown")
  \/ \E r \in Runs, outcome \in Ends : End(r, outcome)

\* A run that was asked to stop does stop; one that was not may run for ever.
Fairness ==
  \A r \in Runs : WF_lifecycle(state[r] = "cancelling" /\ \E o \in Ends : End(r, o))

Spec == Init /\ [][Next]_lifecycle /\ Fairness
=============================================================================
