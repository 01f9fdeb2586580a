-------------------------- MODULE ToolRunRowsProofs --------------------------
(***************************************************************************)
(* Proofs about ToolRunRows, for every finite set of runs, every set of    *)
(* callers, every limit and any number of conversations of the tab: a run  *)
(* gets one row, and one that was hidden stays hidden.  They rest on what  *)
(* ToolRunsProofs shows of the runner, each of whose steps is one of the   *)
(* composition.                                                            *)
(***************************************************************************)
EXTENDS ToolRunRows, ToolRunsProofs

-----------------------------------------------------------------------------
(* The inductive invariant.                                                *)

\* A notification is not ahead of its run, and one of an outcome is the last.
Sound(n) ==
  /\ n.gen <= gen[n.run]
  /\ n.status \in Terminal => status[n.run] = n.status /\ n.gen = gen[n.run]

\* Outcomes are told by the run's own thread; a caller tells of its own stop.
NotesSound ==
  \A n \in notes :
    /\ Sound(n)
    /\ n.status \in Terminal => n.by = "run"
    /\ n.by \in Callers => stop[n.run] = "cancel"

\* A run that somebody has cancelled ends as cancelled.
VerdictsOK == \A r \in Runs : status[r] \in {"succeeded", "failed"} => stop[r] # "cancel"

\* At most one notification is staged for a run, and when it is of an outcome
\* the run's thread has left the sink.
StagedSound ==
  \A r \in Runs : \A n \in staged[r] :
    /\ n.run = r /\ Sound(n)
    /\ n.status \in Terminal => thread[r] \in {"retiring", "gone"}
    /\ \A m \in staged[r] : m = n

\* The run has ended, and nothing is under way that the tab has not seen.
Silent(r) ==
  /\ status[r] \in Terminal
  /\ \A n \in staged[r] : n.gen < seen[r]
  /\ \A n \in notes : n.run = r => n.gen < seen[r]

Muted(r) == r \in ignored \/ Silent(r)

\* A row is opened by what the tab hears of a run first: from then on the run is
\* live, ignored or silent, and a hidden one is not live.
HeardOK ==
  \A r \in Runs :
    /\ rows[r] <= 1
    /\ rows[r] > 0 => seen[r] > 0
    /\ seen[r] > 0 => r \in live \/ Muted(r)
    /\ r \in hidden => Muted(r)

RowsInv ==
  /\ IInv
  /\ NotesSound
  /\ VerdictsOK
  /\ RowsTypeOK
  /\ StagedSound
  /\ HeardOK

-----------------------------------------------------------------------------
(* What the steps of the runner keep.                                      *)

\* A run that has ended reports nothing new, and its thread does not come back.
Onward(r) ==
  /\ gen[r] <= gen'[r]
  /\ status[r] \in Terminal =>
       /\ status'[r] = status[r] /\ gen'[r] = gen[r]
       /\ \A n \in notes' : n.run = r => n \in notes
  /\ thread[r] \in {"retiring", "gone"} => thread'[r] \in {"retiring", "gone"}

RunnerKeeps == NotesSound' /\ VerdictsOK' /\ \A r \in Runs : Onward(r)

LEMMA NoteFields ==
  ASSUME NEW n \in Note
  PROVE  /\ n.run \in Runs /\ n.gen \in Nat /\ n.status \in Statuses
         /\ n.by \in {"run", "output"} \cup Callers
BY RunsAssumption DEF Note

LEMMA GenIsNat ==
  ASSUME IInv, NEW r \in Runs
  PROVE  gen[r] \in Nat
BY Numbers DEF IInv

\* Nothing is told, and no status, reason or generation changes.
LEMMA QuietRunner ==
  ASSUME IInv, NotesSound, VerdictsOK, notes' \subseteq notes,
         \A r \in Runs : \/ status'[r] = status[r]
                         \/ status[r] \notin Terminal /\ status'[r] \notin Terminal,
         stop' = stop, gen' = gen,
         \A r \in Runs : thread[r] \in {"retiring", "gone"} => thread'[r] \in {"retiring", "gone"}
  PROVE  RunnerKeeps
<1>1. \A n \in notes : n.run \in Runs
  BY NoteFields DEF IInv, TypeOK
<1>2. NotesSound'
  <2> SUFFICES ASSUME NEW n \in notes'
               PROVE  /\ Sound(n)'
                      /\ n.status \in Terminal => n.by = "run"
                      /\ n.by \in Callers => stop'[n.run] = "cancel"
    BY DEF NotesSound
  <2>1. /\ n \in notes /\ n.run \in Runs /\ Sound(n)
        /\ n.status \in Terminal => n.by = "run"
        /\ n.by \in Callers => stop[n.run] = "cancel"
    BY <1>1 DEF NotesSound
  <2> QED BY <2>1 DEF Sound
<1>3. VerdictsOK'
  BY DEF VerdictsOK, Terminal
<1>4. ASSUME NEW r \in Runs PROVE Onward(r)
  BY GenIsNat DEF Onward
<1> QED BY <1>2, <1>3, <1>4 DEF RunnerKeeps

\* Run r tells something about itself, having perhaps moved on.
LEMMA Tells ==
  ASSUME IInv, NotesSound, VerdictsOK, NEW r \in Runs, NEW x \in {"run", "output"} \cup Callers,
         status[r] \notin Terminal, thread[r] \notin {"retiring", "gone"},
         status' \in [Runs -> Statuses], gen'[r] \in Nat, gen[r] <= gen'[r],
         \A q \in Runs : q # r => /\ status'[q] = status[q] /\ gen'[q] = gen[q]
                                  /\ stop'[q] = stop[q] /\ thread'[q] = thread[q],
         notes' = notes \cup {Snapshot(r, x)},
         status'[r] \in Terminal => x = "run",
         x \in Callers => stop'[r] = "cancel",
         stop'[r] = stop[r] \/ stop'[r] = "cancel",
         status'[r] \in {"succeeded", "failed"} => stop'[r] # "cancel"
  PROVE  RunnerKeeps
<1>1. PICK note : note = Snapshot(r, x)
  OBVIOUS
<1>2. note.run = r /\ note.gen = gen'[r] /\ note.status = status'[r] /\ note.by = x
  BY <1>1 DEF Snapshot
<1>3. \A n \in notes : n.run \in Runs /\ n.gen \in Nat
  BY NoteFields DEF IInv, TypeOK
<1>4. NotesSound'
  <2> SUFFICES ASSUME NEW n \in notes'
               PROVE  /\ Sound(n)'
                      /\ n.status \in Terminal => n.by = "run"
                      /\ n.by \in Callers => stop'[n.run] = "cancel"
    BY DEF NotesSound
  <2>1. CASE n = note
    BY <2>1, <1>2 DEF Sound
  <2>2. CASE n \in notes
    <3>1. /\ n.run \in Runs /\ n.gen \in Nat /\ Sound(n)
          /\ n.status \in Terminal => n.by = "run"
          /\ n.by \in Callers => stop[n.run] = "cancel"
      BY <2>2, <1>3 DEF NotesSound
    <3>2. CASE n.run # r
      BY <3>1, <3>2 DEF Sound
    <3>3. CASE n.run = r
      <4>1. n.status \notin Terminal
        BY <3>1, <3>3 DEF Sound
      <4>2. n.gen <= gen'[r]
        BY <3>1, <3>3, GenIsNat DEF Sound
      <4> QED BY <3>1, <3>3, <4>1, <4>2 DEF Sound
    <3> QED BY <3>2, <3>3
  <2> QED BY <2>1, <2>2, <1>1
<1>5. VerdictsOK'
  BY DEF VerdictsOK
<1>6. ASSUME NEW q \in Runs PROVE Onward(q)
  <2>1. CASE q = r
    BY <2>1 DEF Onward
  <2>2. CASE q # r
    BY <2>2, <1>1, <1>2, GenIsNat DEF Onward
  <2> QED BY <2>1, <2>2
<1> QED BY <1>4, <1>5, <1>6 DEF RunnerKeeps

LEMMA RunnerStepKeeps ==
  ASSUME IInv, NotesSound, VerdictsOK, [Next]_runvars
  PROVE  RunnerKeeps
<1>1. /\ status \in [Runs -> Statuses] /\ gen \in [Runs -> Nat] /\ stop \in [Runs -> Stops]
      /\ thread \in [Runs -> Threads]
  <2>1. gen \in [Runs -> Nat]
    BY GenIsNat DEF IInv, TypeOK
  <2> QED BY <2>1 DEF IInv, TypeOK
<1>2. CASE UNCHANGED runvars
  BY <1>2, QuietRunner DEF runvars
<1>3. ASSUME NEW r \in Runs, Start(r) \/ StartRaises(r) PROVE RunnerKeeps
  <2>1. PICK outcome \in {"fresh", "unstarted"} : Register(r, outcome)
    BY <1>3 DEF Start, StartRaises
  <2>2. status[r] \notin Terminal
    BY <2>1 DEF Register, IInv, RunsOK, RunOK, Terminal
  <2>3. \A q \in Runs :
          \/ status'[q] = status[q]
          \/ status[q] \notin Terminal /\ status'[q] \notin Terminal
    BY <2>1, <2>2, <1>1 DEF Register, Terminal
  <2>4. \A q \in Runs : thread[q] \in {"retiring", "gone"} => thread'[q] \in {"retiring", "gone"}
    BY <2>1, <1>1 DEF Register
  <2>5. notes' = notes /\ stop' = stop /\ gen' = gen
    BY <2>1 DEF Register
  <2> QED BY <2>3, <2>4, <2>5, QuietRunner
<1>4. ASSUME NEW r \in Runs, Abort(r) \/ Retire(r) PROVE RunnerKeeps
  <2>1. notes' = notes /\ stop' = stop /\ gen' = gen /\ status' = status
    BY <1>4 DEF Abort, Retire
  <2>2. \A q \in Runs : thread[q] \in {"retiring", "gone"} => thread'[q] \in {"retiring", "gone"}
    BY <1>4, <1>1 DEF Abort, Retire
  <2> QED BY <2>1, <2>2, QuietRunner
<1>5. ASSUME NEW r \in Runs, Announce(r) PROVE RunnerKeeps
  <2>1. thread[r] = "fresh" /\ status[r] \notin Terminal
    BY <1>5 DEF Announce, IInv, RunsOK, RunOK, Ended
  <2>2. \A q \in Runs : q # r => thread'[q] = thread[q]
    BY <1>5, <1>1 DEF Announce
  <2>3. /\ status' = status /\ gen' = gen /\ stop' = stop
        /\ notes' = notes \cup {Snapshot(r, "run")}
    BY <1>5 DEF Announce
  <2>4. status'[r] \in {"succeeded", "failed"} => stop'[r] # "cancel"
    BY <2>3 DEF VerdictsOK
  <2>5. gen'[r] \in Nat /\ gen[r] <= gen'[r] /\ "run" \notin Callers
    BY <2>3, GenIsNat, RunsAssumption
  <2> QED BY <1>1, <2>1, <2>2, <2>3, <2>4, <2>5, Tells
<1>6. ASSUME NEW r \in Runs, Output(r) PROVE RunnerKeeps
  <2>1. thread[r] = "working" /\ status[r] \notin Terminal
    BY <1>6 DEF Output, IInv, RunsOK, RunOK, Ended
  <2>2. /\ gen'[r] = gen[r] + 1
        /\ \A q \in Runs : q # r => gen'[q] = gen[q]
    BY <1>6, <1>1 DEF Output
  <2> QED BY <1>6, <1>1, <2>1, <2>2, GenIsNat, RunsAssumption, Tells DEF Output, VerdictsOK
<1>7. ASSUME NEW r \in Runs, NEW outcome \in {"succeeded", "failed"}, Finish(r, outcome)
      PROVE  RunnerKeeps
  <2>1. thread[r] = "working" /\ status[r] \notin Terminal
    BY <1>7 DEF Finish, IInv, RunsOK, RunOK, Ended
  <2>2. /\ gen'[r] = gen[r] + 1 /\ status'[r] = Verdict(r, outcome)
        /\ \A q \in Runs : q # r => /\ gen'[q] = gen[q] /\ status'[q] = status[q]
                                    /\ thread'[q] = thread[q]
    BY <1>7, <1>1 DEF Finish
  <2>3. /\ Verdict(r, outcome) \in Statuses
        /\ Verdict(r, outcome) \in {"succeeded", "failed"} => stop[r] # "cancel"
    BY DEF Verdict, Statuses, Terminal
  <2>4. status' \in [Runs -> Statuses]
    BY <1>7, <1>1, <2>3 DEF Finish
  <2> QED BY <1>7, <1>1, <2>1, <2>2, <2>3, <2>4, GenIsNat, RunsAssumption, Tells DEF Finish
<1>8. ASSUME NEW n \in notes, Deliver(n) PROVE RunnerKeeps
  <2>1. n.run \in Runs /\ (n.by = "run" => thread[n.run] \in {"announcing", "finishing"})
    BY NoteFields DEF IInv, TypeOK, NotesOK
  <2>2. \A q \in Runs : thread[q] \in {"retiring", "gone"} => thread'[q] \in {"retiring", "gone"}
    BY <1>8, <1>1, <2>1 DEF Deliver
  <2> QED BY <1>8, <2>2, QuietRunner DEF Deliver
<1>9. ASSUME NEW c \in Callers, NEW r \in Runs, Cancel(c, r) PROVE RunnerKeeps
  <2>1. /\ status[r] = "running" /\ status[r] \notin Terminal
        /\ thread[r] \notin {"retiring", "gone"}
    BY <1>9 DEF Cancel, IInv, RunsOK, RunOK, Ended, Terminal
  <2>2. /\ gen'[r] = gen[r] + 1 /\ status'[r] = "cancelling" /\ stop'[r] = "cancel"
        /\ \A q \in Runs : q # r => /\ gen'[q] = gen[q] /\ status'[q] = status[q]
                                    /\ stop'[q] = stop[q] /\ thread'[q] = thread[q]
    BY <1>9, <1>1 DEF Cancel
  <2>3. status' \in [Runs -> Statuses] /\ "cancelling" \notin Terminal
    BY <1>9, <1>1 DEF Cancel, Statuses, Active, Terminal
  <2>4. gen'[r] \in Nat /\ gen[r] <= gen'[r]
    BY <2>2, GenIsNat
  <2>5. notes' = notes \cup {Snapshot(r, c)} /\ c # "run"
    BY <1>9, RunsAssumption DEF Cancel
  <2>6. status'[r] \notin Terminal /\ status'[r] \notin {"succeeded", "failed"}
    BY <2>2, <2>3
  <2> QED BY <2>1, <2>2, <2>3, <2>4, <2>5, <2>6, Tells
<1>10. ASSUME NEW c \in Callers, TimeOut(c) \/ \E r \in Runs : Wait(c, r) \/ Answer(c, r)
       PROVE  RunnerKeeps
  <2>1. /\ notes' = notes /\ stop' = stop /\ gen' = gen /\ status' = status
        /\ thread' = thread
    BY <1>10 DEF TimeOut, Wait, Answer
  <2> QED BY <2>1, QuietRunner
<1>11. CASE Close
  <2>1. \A r \in Runs :
          \/ status'[r] = status[r] /\ gen'[r] = gen[r] /\ stop'[r] = stop[r]
          \/ /\ status[r] = "running" /\ status'[r] = "cancelling"
             /\ gen'[r] = gen[r] + 1 /\ stop'[r] = "shutdown" /\ stop[r] = "nobody"
    BY <1>11, <1>1 DEF Close, Stopped, IInv, RunsOK, RunOK
  <2>2. notes' = notes /\ thread' = thread
    BY <1>11 DEF Close
  <2>3. ASSUME NEW n \in notes
        PROVE  /\ Sound(n)'
               /\ n.status \in Terminal => n.by = "run"
               /\ n.by \in Callers => stop'[n.run] = "cancel"
    <3>1. /\ n.run \in Runs /\ n.gen \in Nat /\ Sound(n)
          /\ n.status \in Terminal => n.by = "run"
          /\ n.by \in Callers => stop[n.run] = "cancel"
      BY NoteFields DEF IInv, TypeOK, NotesSound
    <3>2. n.gen <= gen'[n.run]
      BY <3>1, <2>1, GenIsNat DEF Sound
    <3>3. "running" \notin Terminal
      BY DEF Terminal
    <3> QED BY <3>1, <3>2, <3>3, <2>1 DEF Sound
  <2>4. NotesSound'
    BY <2>2, <2>3 DEF NotesSound
  <2>5. VerdictsOK'
    BY <2>1 DEF VerdictsOK
  <2>6. \A r \in Runs : Onward(r)
    BY <2>1, <2>2, GenIsNat DEF Onward, Terminal
  <2> QED BY <2>4, <2>5, <2>6 DEF RunnerKeeps
<1>12. CASE Joined
  BY <1>12, QuietRunner DEF Joined
<1>13. CASE Next
  BY <1>13, <1>3, <1>4, <1>5, <1>6, <1>7, <1>8, <1>9, <1>10, <1>11, <1>12 DEF Next
<1> QED BY <1>2, <1>13

-----------------------------------------------------------------------------
(* The tab.                                                                *)

\* The types of what the tab keeps, at this state and the next.
LEMMA TabTypes ==
  ASSUME RowsInv, NEW r \in Runs
  PROVE  /\ staged[r] \subseteq Note /\ seen[r] \in Nat /\ rows[r] \in Nat
         /\ \A n \in staged[r] : n.gen \in Nat /\ n.run = r
<1>1. staged[r] \subseteq Note /\ seen[r] \in 0 .. MaxGen + 1 /\ rows[r] \in Nat
  BY DEF RowsInv, RowsTypeOK
<1>2. \A n \in staged[r] : n.gen \in Nat /\ n.run = r
  BY <1>1, NoteFields DEF RowsInv, StagedSound
<1>3. MaxGen \in Nat
  BY RunsAssumption DEF MaxGen
<1> QED BY <1>1, <1>2, <1>3

LEMMA SoundStays ==
  ASSUME RowsInv, RunnerKeeps, IInv', NEW n \in Note, Sound(n)
  PROVE  Sound(n)'
<1>1. n.run \in Runs /\ n.gen \in Nat
  BY NoteFields
<1>2. Onward(n.run) /\ gen[n.run] \in Nat
  BY <1>1, GenIsNat DEF RunnerKeeps, RowsInv
<1>3. gen'[n.run] \in Nat
  <2>1. gen' \in [Runs -> 0 .. MaxGen] /\ MaxGen \in Nat
    BY RunsAssumption DEF IInv, TypeOK, MaxGen
  <2> QED BY <2>1, <1>1
<1> QED BY <1>1, <1>2, <1>3 DEF Onward, Sound

\* A silent run stays so, whatever is staged of what was under way.
LEMMA SilentStays ==
  ASSUME RowsInv, RunnerKeeps, NEW r \in Runs, Silent(r),
         seen'[r] \in Nat, seen[r] <= seen'[r],
         \A n \in staged'[r] : n \in staged[r] \/ (n \in notes /\ n.run = r)
  PROVE  Silent(r)'
<1>1. Onward(r) /\ seen[r] \in Nat
  BY TabTypes DEF RunnerKeeps
<1>2. status'[r] \in Terminal /\ \A n \in notes' : n.run = r => n \in notes
  BY <1>1 DEF Onward, Silent
<1>3. \A n \in notes : n.gen \in Nat
  BY NoteFields DEF RowsInv, IInv, TypeOK
<1>4. \A n \in staged[r] : n.gen \in Nat
  BY TabTypes
<1>5. ASSUME NEW n, n \in staged[r] \/ (n \in notes /\ n.run = r)
      PROVE  n.gen < seen'[r]
  BY <1>1, <1>3, <1>4, <1>5 DEF Silent
<1> QED BY <1>2, <1>5 DEF Silent

\* A run whose last row is settled by note n hears of nothing newer.
LEMMA OutcomeIsLast ==
  ASSUME RowsInv, RunnerKeeps, NEW r \in Runs, NEW n \in staged[r], n.status \in Terminal,
         staged'[r] = {}, seen'[r] \in Nat, n.gen < seen'[r]
  PROVE  Silent(r)'
<1>1. Sound(n) /\ n.run = r /\ n.gen \in Nat
  BY TabTypes DEF RowsInv, StagedSound
<1>2. status[r] \in Terminal /\ n.gen = gen[r] /\ Onward(r)
  BY <1>1 DEF Sound, RunnerKeeps
<1>3. \A m \in notes : m.gen \in Nat /\ (m.run = r => m.gen <= gen[r])
  BY NoteFields DEF RowsInv, IInv, TypeOK, NotesSound, Sound
<1> QED BY <1>1, <1>2, <1>3 DEF Onward, Silent

\* When an outcome other than a cancellation is staged, no notification of the
\* run is under way: its thread has left the sink, its output thread is joined,
\* and nobody has cancelled it.
LEMMA OutcomeIsAlone ==
  ASSUME RowsInv, NEW r \in Runs, NEW n \in staged[r], n.status \in {"succeeded", "failed"},
         RunnerKeeps, staged'[r] = {}
  PROVE  Silent(r)'
<1>1. /\ Sound(n) /\ n.run = r /\ n.status \in Terminal /\ thread[r] \in {"retiring", "gone"}
  BY TabTypes DEF RowsInv, StagedSound, Terminal
<1>2. status[r] = n.status /\ stop[r] # "cancel"
  BY <1>1 DEF Sound, RowsInv, VerdictsOK
<1>3. \A m \in notes : m.run # r
  <2> SUFFICES ASSUME NEW m \in notes, m.run = r PROVE FALSE
    OBVIOUS
  <2>1. m.by \in {"run", "output"} \cup Callers
    BY NoteFields DEF RowsInv, IInv, TypeOK
  <2>2. m.by # "run" /\ m.by # "output"
    BY <1>1 DEF RowsInv, IInv, NotesOK
  <2>3. m.by \notin Callers
    BY <1>2 DEF RowsInv, NotesSound
  <2> QED BY <2>1, <2>2, <2>3
<1> QED BY <1>1, <1>2, <1>3 DEF RunnerKeeps, Onward, Silent

-----------------------------------------------------------------------------
(* The steps.                                                              *)

LEMMA InitRowsInv == ASSUME InitRows PROVE RowsInv
<1>1. IInv
  BY InitEstablishes DEF InitRows
<1>2. RowsTypeOK
  <2>1. MaxGen + 1 \in Nat
    BY RunsAssumption DEF MaxGen
  <2> QED BY <2>1, ResetsAssumption DEF InitRows, RowsTypeOK
<1> QED BY <1>1, <1>2
        DEF InitRows, Init, RowsInv, NotesSound, VerdictsOK, StagedSound, HeardOK

\* Only the runner moves, or a run is born.
LEMMA RunnerAlone ==
  ASSUME RowsInv, [Next]_runvars,
         UNCHANGED <<accept, staged, seen, ignored, live, rows, shown, epoch, hidden>>,
         born' \in [Runs -> 0 .. MaxResets]
  PROVE  RowsInv'
<1>1. RunnerKeeps /\ IInv'
  BY RunnerStepKeeps, NextKeeps DEF RowsInv
<1>2. RowsTypeOK'
  BY DEF RowsInv, RowsTypeOK
<1>3. StagedSound'
  <2> SUFFICES ASSUME NEW r \in Runs, NEW n \in staged[r]
               PROVE  /\ n.run = r /\ Sound(n)'
                      /\ n.status \in Terminal => thread'[r] \in {"retiring", "gone"}
                      /\ \A m \in staged[r] : m = n
    BY DEF StagedSound
  <2>1. n \in Note
    BY TabTypes
  <2>2. /\ n.run = r /\ Sound(n)
        /\ n.status \in Terminal => thread[r] \in {"retiring", "gone"}
        /\ \A m \in staged[r] : m = n
    BY DEF RowsInv, StagedSound
  <2>3. Sound(n)'
    BY <1>1, <2>1, <2>2, SoundStays
  <2> QED BY <1>1, <2>2, <2>3 DEF RunnerKeeps, Onward
<1>4. \A r \in Runs : Muted(r) => Muted(r)'
  BY <1>1, SilentStays, TabTypes DEF Muted
<1>5. HeardOK'
  BY <1>4 DEF RowsInv, HeardOK
<1> QED BY <1>1, <1>2, <1>3, <1>5 DEF RowsInv, RunnerKeeps

LEMMA DeliverToTabKeeps ==
  ASSUME RowsInv, NEW n \in notes, DeliverToTab(n)
  PROVE  RowsInv'
<1>1. /\ Deliver(n) /\ [Next]_runvars /\ n \in Note /\ n.run \in Runs /\ n.gen \in Nat
      /\ Sound(n) /\ (n.status \in Terminal => n.by = "run")
  <2>1. n \in Note
    BY DEF RowsInv, IInv, TypeOK
  <2> QED BY <2>1, NoteFields DEF DeliverToTab, Next, RowsInv, NotesSound
<1>2. RunnerKeeps /\ IInv'
  BY <1>1, RunnerStepKeeps, NextKeeps DEF RowsInv
<1>3. /\ UNCHANGED <<accept, seen, ignored, live, rows, shown, epoch, born, hidden>>
      /\ staged \in [Runs -> SUBSET Note]
      /\ \/ staged' = staged
         \/ staged' = [staged EXCEPT ![n.run] = {n}]
  BY DEF DeliverToTab, Stage, RowsInv, RowsTypeOK
<1>4. /\ staged' \in [Runs -> SUBSET Note]
      /\ \A r \in Runs : staged'[r] = staged[r] \/ (r = n.run /\ staged'[r] = {n})
  BY <1>1, <1>3
<1>5. RowsTypeOK'
  BY <1>3, <1>4 DEF RowsInv, RowsTypeOK
<1>6. n.status \in Terminal => thread'[n.run] \in {"retiring", "gone"}
  <2> SUFFICES ASSUME n.status \in Terminal PROVE thread'[n.run] \in {"retiring", "gone"}
    OBVIOUS
  <2>1. thread[n.run] \in {"announcing", "finishing"} /\ status[n.run] \in Terminal
    BY <1>1 DEF RowsInv, IInv, NotesOK, Sound
  <2>2. thread[n.run] = "finishing"
    BY <1>1, <2>1 DEF RowsInv, IInv, RunsOK, RunOK, Ended
  <2>3. thread \in [Runs -> Threads]
    BY DEF RowsInv, IInv, TypeOK
  <2> QED BY <1>1, <2>2, <2>3 DEF Deliver
<1>7. StagedSound'
  <2> SUFFICES ASSUME NEW r \in Runs, NEW k \in staged'[r]
               PROVE  /\ k.run = r /\ Sound(k)'
                      /\ k.status \in Terminal => thread'[r] \in {"retiring", "gone"}
                      /\ \A m \in staged'[r] : m = k
    BY DEF StagedSound
  <2>1. CASE r = n.run /\ staged'[r] = {n}
    BY <2>1, <1>1, <1>2, <1>6, SoundStays
  <2>2. CASE staged'[r] = staged[r]
    <3>1. k \in Note
      BY <2>2, TabTypes
    <3>2. /\ k.run = r /\ Sound(k)
          /\ k.status \in Terminal => thread[r] \in {"retiring", "gone"}
          /\ \A m \in staged[r] : m = k
      BY <2>2 DEF RowsInv, StagedSound
    <3>3. Sound(k)'
      BY <1>2, <3>1, <3>2, SoundStays
    <3> QED BY <1>2, <2>2, <3>2, <3>3 DEF RunnerKeeps, Onward
  <2> QED BY <2>1, <2>2, <1>4
<1>8. \A r \in Runs : Muted(r) => Muted(r)'
  <2> SUFFICES ASSUME NEW r \in Runs, Silent(r) PROVE Silent(r)'
    BY <1>3 DEF Muted
  <2>1. \A k \in staged'[r] : k \in staged[r] \/ (k \in notes /\ k.run = r)
    BY <1>4
  <2>2. seen'[r] = seen[r] /\ seen[r] \in Nat
    BY <1>3, TabTypes
  <2> QED BY <1>2, <2>1, <2>2, SilentStays
<1>9. HeardOK'
  BY <1>3, <1>8 DEF RowsInv, HeardOK
<1> QED BY <1>2, <1>5, <1>7, <1>9 DEF RowsInv, RunnerKeeps

\* The timer displays what is staged.
LEMMA FlushKeeps == ASSUME RowsInv, Flush PROVE RowsInv'
<1>1. [Next]_runvars
  BY DEF Flush
<1>2. RunnerKeeps /\ IInv'
  BY <1>1, RunnerStepKeeps, NextKeeps DEF RowsInv
<1>3. PICK drawn : drawn = Fresh \ ignored
  OBVIOUS
<1>4. /\ staged' = [r \in Runs |-> {}]
      /\ ignored' = ignored \ (Fresh \cap Ending)
      /\ live' = (live \cup drawn) \ (drawn \cap Ending)
      /\ rows' = [r \in Runs |-> IF r \in drawn \ live THEN rows[r] + 1 ELSE rows[r]]
      /\ UNCHANGED <<accept, epoch, born, hidden>>
  BY <1>3 DEF Flush
<1>5. Fresh \subseteq Runs /\ Ending \subseteq Runs /\ drawn \subseteq Runs
  BY <1>3 DEF Fresh, Ending
<1>6. ASSUME NEW r \in Fresh
      PROVE  \E n \in staged[r] : /\ n.gen >= seen[r] /\ seen'[r] = n.gen + 1
                                  /\ n = CHOOSE m \in staged[r] : TRUE
                                  /\ r \in Ending => n.status \in Terminal
  <2>1. r \in Runs
    BY <1>5
  <2>2. PICK n \in staged[r] : n.gen >= seen[r]
    BY DEF Fresh
  <2>3. PICK k : k = CHOOSE m \in staged[r] : TRUE
    OBVIOUS
  <2>4. k \in staged[r]
    BY <2>2, <2>3
  <2>5. k = n /\ \A m \in staged[r] : m = n
    BY <2>1, <2>2, <2>4 DEF RowsInv, StagedSound
  <2>6. seen'[r] = 1 + k.gen
    BY <2>1, <2>3 DEF Flush
  <2>7. r \in Ending => n.status \in Terminal
    BY <2>5 DEF Ending
  <2>8. seen'[r] = n.gen + 1
    BY <2>1, <2>2, <2>5, <2>6, TabTypes
  <2> QED BY <2>2, <2>3, <2>5, <2>7, <2>8
<1>7. \A r \in Runs \ Fresh : seen'[r] = seen[r]
  BY DEF Flush
<1>8. ASSUME NEW r \in Runs
      PROVE  /\ seen'[r] \in 0 .. MaxGen + 1 /\ seen[r] <= seen'[r]
             /\ r \in Fresh => seen'[r] > 0
  <2>1. CASE r \in Fresh
    <3>1. PICK n \in staged[r] : n.gen >= seen[r] /\ seen'[r] = n.gen + 1
      BY <2>1, <1>6
    <3>2. n.gen \in 0 .. MaxGen /\ MaxGen \in Nat /\ seen[r] \in Nat
      <4>1. n \in Note
        BY TabTypes
      <4> QED BY <4>1, TabTypes, RunsAssumption DEF Note, MaxGen
    <3> QED BY <3>1, <3>2
  <2>2. CASE r \notin Fresh
    <3>1. seen[r] \in 0 .. MaxGen + 1
      BY DEF RowsInv, RowsTypeOK
    <3> QED BY <2>2, <3>1, <1>7, TabTypes
  <2> QED BY <2>1, <2>2
<1>9. ASSUME NEW r \in Fresh \cap Ending PROVE Silent(r)'
  <2>1. r \in Runs
    BY <1>5
  <2>2. PICK n \in staged[r] : /\ n.status \in Terminal /\ seen'[r] = n.gen + 1
    BY <1>6
  <2>3. n.gen \in Nat
    BY <2>1, TabTypes
  <2>4. n.gen < seen'[r] /\ seen'[r] \in Nat
    BY <2>2, <2>3
  <2> QED BY <2>1, <2>2, <2>4, <1>2, <1>4, OutcomeIsLast
<1>10. ASSUME NEW r \in Runs, Silent(r) PROVE Silent(r)' /\ r \notin Fresh
  <2>1. seen'[r] \in Nat /\ seen[r] <= seen'[r]
    <3>1. MaxGen \in Nat
      BY RunsAssumption DEF MaxGen
    <3> QED BY <3>1, <1>8
  <2>2. staged'[r] = {}
    BY <1>4
  <2>3. Silent(r)'
    BY <1>10, <1>2, <2>1, <2>2, SilentStays
  <2>4. r \notin Fresh
    BY <1>10, TabTypes DEF Silent, Fresh
  <2> QED BY <2>3, <2>4
<1>11. \A r \in Runs : Muted(r) => Muted(r)' /\ r \notin drawn
  BY <1>3, <1>4, <1>9, <1>10 DEF Muted
<1>12. HeardOK'
  <2> SUFFICES ASSUME NEW r \in Runs
               PROVE  /\ rows'[r] <= 1
                      /\ rows'[r] > 0 => seen'[r] > 0
                      /\ seen'[r] > 0 => r \in live' \/ Muted(r)'
                      /\ r \in hidden' => Muted(r)'
    BY DEF HeardOK
  <2>1. /\ rows[r] <= 1 /\ rows[r] \in Nat /\ seen[r] \in Nat /\ seen'[r] \in Nat
        /\ seen[r] <= seen'[r]
        /\ rows[r] > 0 => seen[r] > 0
        /\ seen[r] > 0 => r \in live \/ Muted(r)
        /\ r \in hidden => Muted(r)
    <3>1. MaxGen \in Nat
      BY RunsAssumption DEF MaxGen
    <3> QED BY <3>1, <1>8, TabTypes DEF RowsInv, HeardOK
  <2>2. CASE r \in drawn
    <3>1. r \in Fresh /\ ~ Muted(r)
      BY <2>2, <1>3, <1>11
    <3>2. r \in live' \/ Muted(r)'
      BY <2>2, <3>1, <1>4, <1>9 DEF Muted
    <3>3. r \notin live => rows[r] = 0
      BY <2>1, <3>1
    <3>4. rows'[r] <= 1
      BY <2>1, <2>2, <3>3, <1>4
    <3> QED BY <2>1, <3>1, <3>2, <3>4, <1>4, <1>8
  <2>3. CASE r \notin drawn
    <3>1. rows'[r] = rows[r] /\ (r \in live => r \in live')
      BY <2>3, <1>4
    <3>2. r \in Fresh => Muted(r)
      BY <2>3, <1>3 DEF Muted
    <3>3. seen'[r] > 0 => r \in live' \/ Muted(r)'
      BY <2>1, <3>1, <3>2, <1>7, <1>11
    <3> QED BY <2>1, <3>1, <3>3, <1>4, <1>11
  <2> QED BY <2>2, <2>3
<1>13. RowsTypeOK'
  <2>1. seen' \in [Runs -> 0 .. MaxGen + 1]
    <3>1. seen' = [r \in Runs |-> seen'[r]]
      BY DEF Flush
    <3> QED BY <3>1, <1>8
  <2>2. rows' \in [Runs -> Nat]
    BY <1>4, TabTypes
  <2>3. shown' \in [Runs -> Terminal \cup {"none", "handoff"}]
    <3>1. ASSUME NEW r \in drawn \cap Ending
          PROVE  (CHOOSE n \in staged[r] : TRUE).status \in Terminal
      <4>1. r \in Fresh
        BY <1>3
      <4> QED BY <4>1, <1>6
    <3>2. shown' = [r \in Runs |->
                      IF r \in drawn \cap Ending THEN (CHOOSE n \in staged[r] : TRUE).status
                      ELSE shown[r]]
      BY <1>3 DEF Flush
    <3> QED BY <3>1, <3>2 DEF RowsInv, RowsTypeOK
  <2> QED BY <2>1, <2>2, <2>3, <1>4, <1>5 DEF RowsInv, RowsTypeOK
<1>14. StagedSound'
  BY <1>4 DEF StagedSound
<1> QED BY <1>2, <1>12, <1>13, <1>14 DEF RowsInv, RunnerKeeps

\* /clear and /compact: what is shown or staged of the old conversation is hidden.
LEMMA ResetKeeps ==
  ASSUME RowsInv, Reset,
         \A r \in Runs : rows'[r] = rows[r] \/ rows'[r] = 0,
         rows' \in [Runs -> Nat], shown' \in [Runs -> Terminal \cup {"none", "handoff"}]
  PROVE  RowsInv'
<1>1. [Next]_runvars
  BY DEF Reset
<1>2. RunnerKeeps /\ IInv'
  BY <1>1, RunnerStepKeeps, NextKeeps DEF RowsInv
<1>3. PICK over : over = {r \in Runs : \E n \in staged[r] : n.status \in {"succeeded", "failed"}}
  OBVIOUS
<1>4. /\ staged' = [r \in Runs |-> {}]
      /\ ignored' = ((ignored \cup live) \ over) \cup ({r \in Runs : staged[r] # {}} \ over)
      /\ live' = {} /\ seen' = seen /\ accept' = accept /\ born' = born
      /\ hidden' = hidden \cup {r \in Runs : seen[r] > 0 \/ staged[r] # {}}
      /\ epoch < MaxResets /\ epoch' = epoch + 1
  BY <1>3 DEF Reset, IgnoredAfterReset
<1>5. ASSUME NEW r \in over PROVE Silent(r)'
  <2>1. r \in Runs
    BY <1>3
  <2>2. PICK n \in staged[r] : n.status \in {"succeeded", "failed"}
    BY <1>3
  <2>3. staged'[r] = {}
    BY <2>1, <1>4
  <2> QED BY <2>1, <2>2, <2>3, <1>2, OutcomeIsAlone
<1>6. ASSUME NEW r \in Runs, r \in live \/ Muted(r) \/ staged[r] # {} PROVE Muted(r)'
  <2>1. CASE r \in over
    BY <2>1, <1>5 DEF Muted
  <2>2. CASE r \notin over /\ Silent(r)
    <3>1. staged'[r] = {} /\ seen'[r] = seen[r] /\ seen[r] \in Nat
      BY <1>4, TabTypes
    <3>2. Silent(r)'
      BY <2>2, <3>1, <1>2, SilentStays
    <3> QED BY <3>2 DEF Muted
  <2>3. CASE r \notin over /\ ~ Silent(r)
    <3>1. r \in ignored'
      BY <2>3, <1>4, <1>6 DEF Muted
    <3> QED BY <3>1 DEF Muted
  <2> QED BY <2>1, <2>2, <2>3
<1>7. HeardOK'
  <2> SUFFICES ASSUME NEW r \in Runs
               PROVE  /\ rows'[r] <= 1
                      /\ rows'[r] > 0 => seen'[r] > 0
                      /\ seen'[r] > 0 => r \in live' \/ Muted(r)'
                      /\ r \in hidden' => Muted(r)'
    BY DEF HeardOK
  <2>1. /\ rows[r] <= 1
        /\ rows[r] > 0 => seen[r] > 0
        /\ seen[r] > 0 => r \in live \/ Muted(r)
        /\ r \in hidden => Muted(r)
    BY DEF RowsInv, HeardOK
  <2> QED BY <2>1, <1>4, <1>6
<1>8. RowsTypeOK'
  <2>1. epoch' \in 0 .. MaxResets
    BY <1>4, ResetsAssumption DEF RowsInv, RowsTypeOK
  <2>2. ignored' \subseteq Runs /\ hidden' \subseteq Runs
    BY <1>4 DEF RowsInv, RowsTypeOK
  <2> QED BY <2>1, <2>2, <1>4 DEF RowsInv, RowsTypeOK
<1>9. StagedSound'
  BY <1>4 DEF StagedSound
<1> QED BY <1>2, <1>7, <1>8, <1>9 DEF RowsInv, RunnerKeeps

LEMMA UnmountKeeps == ASSUME RowsInv, Unmount PROVE RowsInv'
<1>1. [Next]_runvars
  BY DEF Unmount
<1>2. RunnerKeeps /\ IInv'
  BY <1>1, RunnerStepKeeps, NextKeeps DEF RowsInv
<1>3. /\ staged' = [r \in Runs |-> {}]
      /\ UNCHANGED <<seen, ignored, live, rows, shown, epoch, born, hidden>>
      /\ accept' = FALSE
  BY DEF Unmount
<1>4. \A r \in Runs : Muted(r) => Muted(r)'
  <2> SUFFICES ASSUME NEW r \in Runs, Silent(r) PROVE Silent(r)'
    BY <1>3 DEF Muted
  <2>1. staged'[r] = {} /\ seen'[r] = seen[r] /\ seen[r] \in Nat
    BY <1>3, TabTypes
  <2> QED BY <2>1, <1>2, SilentStays
<1>5. HeardOK'
  BY <1>3, <1>4 DEF RowsInv, HeardOK
<1>6. RowsTypeOK' /\ StagedSound'
  BY <1>3 DEF RowsInv, RowsTypeOK, StagedSound
<1> QED BY <1>2, <1>5, <1>6 DEF RowsInv, RunnerKeeps

LEMMA NextRowsKeeps ==
  ASSUME RowsInv, [NextRows]_allvars
  PROVE  RowsInv'
<1>1. born \in [Runs -> 0 .. MaxResets] /\ epoch \in 0 .. MaxResets
  BY DEF RowsInv, RowsTypeOK
<1>2. ASSUME NEW r \in Runs, StartFromTab(r) \/ \E q \in Runs : StartFromRun(q, r)
      PROVE  RowsInv'
  <2>1. [Next]_runvars
    BY <1>2 DEF StartFromTab, StartFromRun, Next
  <2>2. UNCHANGED <<accept, staged, seen, ignored, live, rows, shown, epoch, hidden>>
    BY <1>2 DEF StartFromTab, StartFromRun
  <2>3. born' \in [Runs -> 0 .. MaxResets]
    BY <1>1, <1>2 DEF StartFromTab, StartFromRun
  <2> QED BY <2>1, <2>2, <2>3, RunnerAlone
<1>3. ASSUME NEW n \in notes, DeliverToTab(n) PROVE RowsInv'
  BY <1>3, DeliverToTabKeeps
<1>4. CASE Flush
  BY <1>4, FlushKeeps
<1>5. CASE Clear
  <2>1. /\ \A r \in Runs : rows'[r] = 0
        /\ rows' \in [Runs -> Nat]
        /\ shown' \in [Runs -> Terminal \cup {"none", "handoff"}]
    BY <1>5 DEF Clear
  <2> QED BY <2>1, <1>5, ResetKeeps DEF Clear
<1>6. CASE Compact
  <2>1. /\ rows' = rows /\ rows' \in [Runs -> Nat]
        /\ shown' \in [Runs -> Terminal \cup {"none", "handoff"}]
    BY <1>6 DEF Compact, RowsInv, RowsTypeOK
  <2> QED BY <2>1, <1>6, ResetKeeps DEF Compact
<1>7. CASE Unmount
  BY <1>7, UnmountKeeps
<1>8. CASE CloseRunner \/ (RunnerStep /\ UNCHANGED ui)
  <2>1. [Next]_runvars
    BY <1>8 DEF CloseRunner, RunnerStep, Next
  <2> QED BY <2>1, <1>1, <1>8, RunnerAlone DEF CloseRunner, ui
<1>9. CASE UNCHANGED allvars
  <2>1. [Next]_runvars
    BY <1>9 DEF allvars, runvars
  <2> QED BY <2>1, <1>1, <1>9, RunnerAlone DEF allvars
<1> QED BY <1>2, <1>3, <1>4, <1>5, <1>6, <1>7, <1>8, <1>9 DEF NextRows

LEMMA RowsInvariance == SpecRows => []RowsInv
<1>1. InitRows => RowsInv
  BY InitRowsInv
<1>2. RowsInv /\ [NextRows]_allvars => RowsInv'
  BY NextRowsKeeps
<1> QED BY <1>1, <1>2, PTL DEF SpecRows

-----------------------------------------------------------------------------
(* The properties.                                                         *)

\* What the tab keeps of the runs stays of its types.
THEOREM RowsTypeCorrect == SpecRows => []RowsTypeOK
<1>1. RowsInv => RowsTypeOK
  BY DEF RowsInv
<1> QED BY <1>1, RowsInvariance, PTL

\* A run gets one row, in whatever order the threads that report on it deliver,
\* and however often the tab is cleared or compacted meanwhile (tui.py,
\* _stage_detached_event and _display_detached_event).
THEOREM RunsHaveOneRow == SpecRows => []OneRowPerRun
<1>1. RowsInv => OneRowPerRun
  BY DEF RowsInv, HeardOK, OneRowPerRun
<1> QED BY <1>1, RowsInvariance, PTL

\* The step of a hidden run: its rows do not grow and settle on no outcome.
HiddenStep ==
  \A r \in hidden :
    /\ rows'[r] <= rows[r]
    /\ shown'[r] # shown[r] => shown'[r] \in {"none", "handoff"}

LEMMA HiddenSteps ==
  ASSUME RowsInv, [NextRows]_allvars
  PROVE  HiddenStep \/ UNCHANGED allvars
<1> SUFFICES ASSUME NextRows, NEW r \in hidden
             PROVE  /\ rows'[r] <= rows[r]
                    /\ shown'[r] # shown[r] => shown'[r] \in {"none", "handoff"}
  BY DEF HiddenStep
<1>1. r \in Runs /\ Muted(r) /\ rows[r] \in Nat
  <2>1. r \in Runs
    BY DEF RowsInv, RowsTypeOK
  <2> QED BY <2>1, TabTypes DEF RowsInv, HeardOK
<1>2. CASE Flush
  <2>1. r \notin Fresh \ ignored
    <3> SUFFICES ASSUME Silent(r) PROVE r \notin Fresh
      BY <1>1 DEF Muted
    <3> QED BY <1>1, TabTypes DEF Silent, Fresh
  <2>2. rows'[r] = rows[r] /\ shown'[r] = shown[r]
    BY <1>1, <1>2, <2>1 DEF Flush
  <2> QED BY <1>1, <2>2
<1>3. CASE Clear
  BY <1>1, <1>3 DEF Clear
<1>4. CASE Compact
  BY <1>1, <1>4 DEF Compact
<1>5. CASE rows' = rows /\ shown' = shown
  BY <1>1, <1>5
<1>6. (rows' = rows /\ shown' = shown) \/ Flush \/ Clear \/ Compact
  BY DEF NextRows, StartFromTab, StartFromRun, DeliverToTab, Unmount, CloseRunner, ui
<1> QED BY <1>2, <1>3, <1>4, <1>5, <1>6

\* A run that the tab had heard of when it was cleared or compacted gets no row
\* any more, and moves none, whatever is still reported of it.
THEOREM HiddenRunsStayHidden == SpecRows => HiddenStaysHidden
<1>1. RowsInv /\ [NextRows]_allvars => [HiddenStep]_allvars
  BY HiddenSteps
<1>2. HiddenStaysHidden <=> [][HiddenStep]_allvars
  BY DEF HiddenStaysHidden, HiddenStep
<1> QED BY <1>1, <1>2, RowsInvariance, PTL DEF SpecRows
=============================================================================
