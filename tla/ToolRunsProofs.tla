--------------------------- MODULE ToolRunsProofs ---------------------------
(***************************************************************************)
(* Proofs about ToolRuns, for every finite set of runs, every set of       *)
(* callers and every limit: the limit bounds subprocesses, no handle leaks *)
(* or is lost, close() leaves no thread behind, and every step is one of   *)
(* the lifecycle that the runner promises.                                 *)
(***************************************************************************)
EXTENDS ToolRuns, FiniteSetTheorems, SequenceTheorems, TLAPS

-----------------------------------------------------------------------------
(* The inductive invariant.                                                *)

Ended   == {"finishing", "retiring", "gone"}
Working == {"fresh", "announcing", "working"}

\* A run's status follows its thread, its stop reason follows its status, and
\* each chunk of output, the stop and the end have bumped its generation.
RunOK(r) ==
  /\ thread[r] = "none" <=> status[r] = "none"
  /\ thread[r] \in Ended <=> status[r] \in Terminal
  /\ status[r] \in {"none", "running"} => stop[r] = "nobody"
  /\ status[r] = "cancelling" => stop[r] # "nobody"
  /\ outputs[r] <= MaxOutputs[r]
  /\ gen[r] <= outputs[r] + (IF stop[r] = "nobody" THEN 0 ELSE 1)
                          + (IF status[r] \in Terminal THEN 1 ELSE 0)

RunsOK == \A r \in Runs : RunOK(r)

\* A run's own thread is in at most one sink, and where it is says whether.
NotesOK ==
  /\ \A n \in notes :
       /\ n.by = "run" => thread[n.run] \in {"announcing", "finishing"}
       /\ n.by = "output" => thread[n.run] = "working"
  /\ \A m, n \in notes : m.by = "run" /\ n.by = "run" /\ m.run = n.run => m = n

\* The retained runs are gone, and retained once.
RetainedOK ==
  /\ \A i \in 1 .. Len(completed) : thread[completed[i]] = "gone"
  /\ \A i, j \in 1 .. Len(completed) : completed[i] = completed[j] => i = j

LimitOK == Cardinality(ActiveHandles) <= MaxActive

ClosedOK == closer # "idle" => closed

IInv ==
  /\ TypeOK
  /\ RunsOK
  /\ NotesOK
  /\ RetainedOK
  /\ HandlesAccounted
  /\ LimitOK
  /\ ClosedOK
  /\ CloseJoinsAll

-----------------------------------------------------------------------------
\* The bounds on outputs and generations are numbers.
LEMMA Numbers ==
  ASSUME TypeOK, NEW r \in Runs
  PROVE  /\ MaxOutputs[r] \in Nat /\ MostOutputs \in Nat
         /\ MaxOutputs[r] <= MostOutputs
         /\ outputs[r] \in Nat /\ gen[r] \in Nat
         /\ MaxGen = MostOutputs + 2
BY RunsAssumption DEF TypeOK, MaxGen

\* A run that has not ended may have its generation bumped once more.
LEMMA GenFits ==
  ASSUME TypeOK, NEW r \in Runs, RunOK(r), status[r] \notin Terminal
  PROVE  gen[r] + 1 \in 0 .. MaxGen
BY Numbers DEF RunOK

LEMMA LimitShrinks ==
  ASSUME TypeOK, LimitOK, ActiveHandles' \subseteq ActiveHandles
  PROVE  LimitOK'
<1>1. IsFiniteSet(ActiveHandles)
  <2>1. ActiveHandles \in SUBSET Runs
    BY DEF TypeOK, ActiveHandles
  <2> QED BY <2>1, RunsAssumption, FS_Subset
<1>2. Cardinality(ActiveHandles') <= Cardinality(ActiveHandles)
  BY <1>1, FS_Subset
<1>3. Cardinality(ActiveHandles) \in Nat /\ Cardinality(ActiveHandles') \in Nat
  BY <1>1, FS_Subset, FS_CardinalityType
<1> QED BY <1>2, <1>3, RunsAssumption DEF LimitOK

LEMMA InitEstablishes == Init => IInv
<1> SUFFICES ASSUME Init PROVE IInv
  OBVIOUS
<1>1. TypeOK
  <2>1. 0 \in 0 .. MaxGen /\ 0 \in 0 .. MostOutputs
    BY RunsAssumption DEF MaxGen
  <2>2. caller \in [Callers -> Caller]
    BY DEF Init, Caller, Statuses
  <2>3. notes \subseteq Note /\ completed \in Seq(Runs)
    BY DEF Init
  <2> QED BY <2>1, <2>2, <2>3 DEF Init, TypeOK, Statuses, Stops, Threads
<1>2. RunsOK
  BY RunsAssumption DEF Init, RunsOK, RunOK, Ended, Terminal
<1>3. NotesOK /\ RetainedOK /\ ClosedOK /\ CloseJoinsAll
  BY DEF Init, NotesOK, RetainedOK, ClosedOK, CloseJoinsAll
<1>4. HandlesAccounted
  BY RunsAssumption DEF Init, HandlesAccounted, Alive
<1>5. LimitOK
  <2>1. ActiveHandles = {}
    BY DEF Init, ActiveHandles
  <2> QED BY <2>1, FS_EmptySet, RunsAssumption DEF LimitOK
<1> QED BY <1>1, <1>2, <1>3, <1>4, <1>5 DEF IInv

-----------------------------------------------------------------------------
(* start_detached.                                                         *)

LEMMA RegisterKeeps ==
  ASSUME IInv, NEW r \in Runs, NEW outcome \in {"fresh", "unstarted"},
         Register(r, outcome)
  PROVE  IInv'
<1> USE DEF IInv
<1>1. TypeOK'
  BY DEF TypeOK, Register, Statuses, Active, Threads
<1>2. RunsOK'
  BY DEF TypeOK, Register, RunsOK, RunOK, Ended, Terminal
<1>3. NotesOK'
  BY DEF TypeOK, Register, NotesOK, Note
<1>4. RetainedOK'
  BY DEF TypeOK, Register, RetainedOK
<1>5. HandlesAccounted'
  BY DEF TypeOK, Register, HandlesAccounted, Alive
<1>6. LimitOK'
  <2>1. ActiveHandles' \subseteq ActiveHandles \cup {r}
    BY DEF TypeOK, Register, ActiveHandles
  <2>2. IsFiniteSet(ActiveHandles)
    <3>1. ActiveHandles \in SUBSET Runs
      BY DEF TypeOK, ActiveHandles
    <3> QED BY <3>1, RunsAssumption, FS_Subset
  <2>3. /\ IsFiniteSet(ActiveHandles \cup {r})
        /\ Cardinality(ActiveHandles \cup {r}) <= Cardinality(ActiveHandles) + 1
    <3>1. Cardinality(ActiveHandles) \in Nat
      BY <2>2, FS_CardinalityType
    <3>2. /\ IsFiniteSet(ActiveHandles \cup {r})
          /\ Cardinality(ActiveHandles \cup {r})
               = IF r \in ActiveHandles THEN Cardinality(ActiveHandles)
                 ELSE Cardinality(ActiveHandles) + 1
      BY <2>2, FS_AddElement
    <3> QED BY <3>1, <3>2
  <2>4. Cardinality(ActiveHandles') <= Cardinality(ActiveHandles \cup {r})
    BY <2>1, <2>3, FS_Subset
  <2>5. /\ Cardinality(ActiveHandles) \in Nat
        /\ Cardinality(ActiveHandles \cup {r}) \in Nat
        /\ Cardinality(ActiveHandles') \in Nat
    BY <2>1, <2>2, <2>3, FS_Subset, FS_CardinalityType
  <2>6. Cardinality(ActiveHandles) < MaxActive
    BY DEF Register
  <2> QED BY <2>3, <2>4, <2>5, <2>6, RunsAssumption DEF LimitOK
<1>7. ClosedOK' /\ CloseJoinsAll'
  BY DEF Register, ClosedOK, CloseJoinsAll
<1> QED BY <1>1, <1>2, <1>3, <1>4, <1>5, <1>6, <1>7

LEMMA AbortKeeps ==
  ASSUME IInv, NEW r \in Runs, Abort(r)
  PROVE  IInv'
<1> USE DEF IInv
<1>1. TypeOK'
  BY DEF TypeOK, Abort, Threads
<1>2. RunsOK'
  BY DEF TypeOK, Abort, RunsOK, RunOK, Ended
<1>3. NotesOK'
  BY DEF TypeOK, Abort, NotesOK, Note
<1>4. RetainedOK'
  BY DEF TypeOK, Abort, RetainedOK
<1>5. HandlesAccounted'
  BY DEF TypeOK, Abort, HandlesAccounted, RetainedOK, Alive
<1>6. LimitOK'
  BY LimitShrinks DEF Abort, ActiveHandles
<1>7. ClosedOK' /\ CloseJoinsAll'
  BY DEF TypeOK, Abort, ClosedOK, CloseJoinsAll, Alive
<1> QED BY <1>1, <1>2, <1>3, <1>4, <1>5, <1>6, <1>7

-----------------------------------------------------------------------------
(* The run's threads.                                                      *)

\* A snapshot of an existing run is a note.
LEMMA SnapshotType ==
  ASSUME TypeOK', NEW r \in Runs, status'[r] # "none",
         NEW x \in {"run", "output"} \cup Callers
  PROVE  Snapshot(r, x) \in Note
BY DEF TypeOK, Snapshot, Note

LEMMA AnnounceKeeps ==
  ASSUME IInv, NEW r \in Runs, Announce(r)
  PROVE  IInv'
<1> USE DEF IInv
<1>1. TypeOK'
  <2>1. Snapshot(r, "run") \in Note
    BY DEF TypeOK, Announce, Snapshot, Note, RunsOK, RunOK
  <2> QED BY <2>1 DEF TypeOK, Announce, Threads
<1>2. RunsOK'
  BY DEF TypeOK, Announce, RunsOK, RunOK, Ended
<1>3. NotesOK'
  <2>1. \A n \in notes : n.by = "run" => n.run # r
    BY DEF Announce, NotesOK
  <2>2. Snapshot(r, "run").run = r /\ Snapshot(r, "run").by = "run"
    BY DEF Snapshot
  <2> QED BY <2>1, <2>2 DEF TypeOK, Announce, NotesOK, Note
<1>4. RetainedOK'
  BY DEF TypeOK, Announce, RetainedOK
<1>5. HandlesAccounted'
  BY DEF TypeOK, Announce, HandlesAccounted, Alive
<1>6. LimitOK'
  BY LimitShrinks DEF Announce, ActiveHandles
<1>7. ClosedOK' /\ CloseJoinsAll'
  BY DEF TypeOK, Announce, ClosedOK, CloseJoinsAll, Alive
<1> QED BY <1>1, <1>2, <1>3, <1>4, <1>5, <1>6, <1>7

LEMMA OutputKeeps ==
  ASSUME IInv, NEW r \in Runs, Output(r)
  PROVE  IInv'
<1> USE DEF IInv
<1>0. outputs[r] + 1 \in 0 .. MaxOutputs[r] /\ outputs[r] + 1 \in 0 .. MostOutputs
  BY Numbers DEF Output
<1>1. gen' \in [Runs -> 0 .. MaxGen] /\ RunsOK'
  <2>1. RunsOK'
    <3>1. ASSUME NEW q \in Runs PROVE RunOK(q)'
      BY <1>0, Numbers DEF TypeOK, Output, RunsOK, RunOK
    <3> QED BY <3>1 DEF RunsOK
  <2>2. gen[r] + 1 \in 0 .. MaxGen
    BY GenFits DEF Output, RunsOK, RunOK, Ended
  <2> QED BY <2>1, <2>2 DEF TypeOK, Output
<1>2. TypeOK'
  <2>1. Snapshot(r, "output") \in Note
    BY <1>1 DEF TypeOK, Output, Snapshot, Note, RunsOK, RunOK
  <2> QED BY <1>0, <1>1, <2>1 DEF TypeOK, Output
<1>3. NotesOK'
  BY DEF TypeOK, Output, NotesOK, Snapshot
<1>4. RetainedOK'
  BY DEF TypeOK, Output, RetainedOK
<1>5. HandlesAccounted'
  BY DEF Output, HandlesAccounted
<1>6. LimitOK'
  BY LimitShrinks DEF Output, ActiveHandles
<1>7. ClosedOK' /\ CloseJoinsAll'
  BY DEF TypeOK, Output, ClosedOK, CloseJoinsAll, Alive
<1> QED BY <1>1, <1>2, <1>3, <1>4, <1>5, <1>6, <1>7

LEMMA FinishKeeps ==
  ASSUME IInv, NEW r \in Runs, NEW outcome \in {"succeeded", "failed"}, Finish(r, outcome)
  PROVE  IInv'
<1> USE DEF IInv
<1>0. Verdict(r, outcome) \in Terminal /\ status[r] \notin Terminal
  BY DEF TypeOK, Verdict, Terminal, Stops, Finish, RunsOK, RunOK, Ended
<1>1. gen[r] + 1 \in 0 .. MaxGen
  BY <1>0, GenFits DEF RunsOK
<1>2. status' = [status EXCEPT ![r] = Verdict(r, outcome)]
      /\ gen' = [gen EXCEPT ![r] = gen[r] + 1]
      /\ thread' = [thread EXCEPT ![r] = "finishing"]
      /\ thread[r] = "working"
      /\ notes' = notes \cup {Snapshot(r, "run")}
      /\ UNCHANGED <<handles, stop, sink, completed, closed, outputs, caller, closer>>
      /\ ~ InSink(r, "output")
  BY DEF Finish
<1>3. Verdict(r, outcome) \in Statuses \ {"none"}
      /\ Verdict(r, outcome) \notin {"running", "cancelling"}
  BY <1>0 DEF Statuses, Terminal
<1>4. TypeOK'
  <2>1. gen' \in [Runs -> 0 .. MaxGen] /\ status' \in [Runs -> Statuses]
        /\ thread' \in [Runs -> Threads]
    BY <1>1, <1>2, <1>3 DEF TypeOK, Threads
  <2>2. Snapshot(r, "run") \in Note
    BY <1>2, <1>3, <2>1 DEF TypeOK, Snapshot, Note
  <2> QED BY <1>2, <2>1, <2>2 DEF TypeOK
<1>5. RunsOK'
  BY <1>0, <1>2, <1>3 DEF TypeOK, RunsOK, RunOK, Ended
<1>6. NotesOK'
  <2>1. \A n \in notes : n.by = "run" => n.run # r
    BY <1>2 DEF NotesOK
  <2>2. Snapshot(r, "run").run = r /\ Snapshot(r, "run").by = "run"
    BY DEF Snapshot
  <2>3. \A n \in notes : n.by = "output" => n.run # r
    BY <1>2 DEF InSink
  <2> QED BY <1>2, <2>1, <2>2, <2>3 DEF TypeOK, NotesOK, Note
<1>7. RetainedOK' /\ HandlesAccounted'
  BY <1>2 DEF TypeOK, RetainedOK, HandlesAccounted, Alive
<1>8. LimitOK'
  <2>1. ActiveHandles' \subseteq ActiveHandles
    BY <1>2, <1>3 DEF TypeOK, ActiveHandles, Active
  <2> QED BY <2>1, LimitShrinks
<1>9. ClosedOK' /\ CloseJoinsAll'
  BY <1>2 DEF TypeOK, ClosedOK, CloseJoinsAll, Alive
<1> QED BY <1>4, <1>5, <1>6, <1>7, <1>8, <1>9

\* What remains of the retained runs when r is added and the k oldest go.
LEMMA Evicted ==
  ASSUME NEW s \in Seq(Runs), NEW r \in Runs, NEW k \in 0 .. Len(s), NEW t,
         t = SubSeq(Append(s, r), k + 1, Len(Append(s, r)))
  PROVE  /\ t \in Seq(Runs)
         /\ Len(t) = Len(s) + 1 - k
         /\ \A i \in 1 .. Len(t) : t[i] = IF k + i = Len(s) + 1 THEN r ELSE s[k + i]
         /\ {Append(s, r)[i] : i \in 1 .. k} = {s[i] : i \in 1 .. k}
<1>1. /\ Append(s, r) \in Seq(Runs) /\ Len(Append(s, r)) = Len(s) + 1 /\ Len(s) \in Nat
      /\ \A i \in 1 .. Len(s) : Append(s, r)[i] = s[i]
      /\ Append(s, r)[Len(s) + 1] = r
  OBVIOUS
<1>2. t \in Seq(Runs) /\ Len(t) = Len(s) + 1 - k
  BY <1>1
<1>3. \A i \in 1 .. Len(t) : t[i] = Append(s, r)[k + i]
  <2> DEFINE a == Append(s, r)
             m == k + 1
             n == Len(a)
  <2>1. a \in Seq(Runs) /\ m \in Int /\ n \in Int /\ t = SubSeq(a, m, n)
    BY <1>1
  <2>2. \A i \in m .. n : a[i] \in Runs
    BY <1>1
  <2>3. \A i \in 1 .. Len(t) : i \in 1 .. n - m + 1 /\ m + i - 1 = k + i
    BY <1>1, <1>2
  <2> HIDE DEF a, m, n
  <2>4. \A i \in 1 .. n - m + 1 : SubSeq(a, m, n)[i] = a[m + i - 1]
    BY <2>1, <2>2, SubSeqProperties
  <2>5. \A i \in 1 .. Len(t) : t[i] = a[k + i]
    BY <2>1, <2>3, <2>4
  <2> QED BY <2>5 DEF a
<1>4. \A i \in 1 .. Len(t) : t[i] = IF k + i = Len(s) + 1 THEN r ELSE s[k + i]
  BY <1>1, <1>2, <1>3
<1>5. {Append(s, r)[i] : i \in 1 .. k} = {s[i] : i \in 1 .. k}
  <2>1. \A i \in 1 .. k : Append(s, r)[i] = s[i]
    BY <1>1
  <2> QED BY <2>1
<1> QED BY <1>2, <1>4, <1>5

LEMMA RetireKeeps ==
  ASSUME IInv, NEW r \in Runs, Retire(r)
  PROVE  IInv'
<1> USE DEF IInv
<1> DEFINE over == IF Len(Append(completed, r)) > MaxRetained
                   THEN Len(Append(completed, r)) - MaxRetained ELSE 0
           old == {completed[i] : i \in 1 .. over}
<1>1. /\ thread[r] = "retiring"
      /\ completed' = SubSeq(Append(completed, r), over + 1, Len(Append(completed, r)))
      /\ handles' = handles \ {Append(completed, r)[i] : i \in 1 .. over}
      /\ thread' = [thread EXCEPT ![r] = "gone"]
      /\ sink' = [sink EXCEPT ![r] = FALSE]
      /\ UNCHANGED <<status, stop, gen, closed, outputs, notes, caller, closer>>
  BY DEF Retire
<1>2. /\ completed \in Seq(Runs) /\ Len(completed) \in Nat
      /\ Len(completed) <= MaxRetained /\ MaxRetained \in Nat \ {0}
      /\ Len(Append(completed, r)) = Len(completed) + 1
  BY RunsAssumption DEF TypeOK, HandlesAccounted
<1>3. over \in 0 .. Len(completed) /\ Len(completed) + 1 - over <= MaxRetained
  BY <1>2
<1>4. /\ completed' \in Seq(Runs)
      /\ Len(completed') = Len(completed) + 1 - over
      /\ \A i \in 1 .. Len(completed') :
           completed'[i] = IF over + i = Len(completed) + 1 THEN r ELSE completed[over + i]
      /\ handles' = handles \ old
  <2> HIDE DEF over
  <2> QED BY <1>1, <1>2, <1>3, Evicted
<1> HIDE DEF over
<1>5. \A i \in 1 .. Len(completed) : completed[i] # r /\ completed[i] \in Runs
  BY <1>1, <1>2 DEF RetainedOK
<1>6. TypeOK'
  BY <1>1, <1>4 DEF TypeOK, Threads
<1>7. RunsOK'
  BY <1>1 DEF TypeOK, RunsOK, RunOK, Ended
<1>8. NotesOK'
  BY <1>1 DEF TypeOK, NotesOK, Note
<1>9. RetainedOK'
  <2>1. ASSUME NEW i \in 1 .. Len(completed') PROVE thread'[completed'[i]] = "gone"
    <3>1. CASE over + i = Len(completed) + 1
      BY <1>1, <1>4, <3>1 DEF TypeOK
    <3>2. CASE over + i # Len(completed) + 1
      <4>1. over + i \in 1 .. Len(completed)
        BY <1>2, <1>3, <1>4, <3>2
      <4> QED BY <1>1, <1>4, <1>5, <3>2, <4>1 DEF TypeOK, RetainedOK
    <3> QED BY <3>1, <3>2
  <2>2. ASSUME NEW i \in 1 .. Len(completed'), NEW j \in 1 .. Len(completed'),
               completed'[i] = completed'[j]
        PROVE  i = j
    <3>1. ASSUME NEW n \in 1 .. Len(completed') PROVE
            \/ over + n = Len(completed) + 1 /\ completed'[n] = r
            \/ /\ over + n \in 1 .. Len(completed)
               /\ completed'[n] = completed[over + n] /\ completed'[n] # r
      BY <1>2, <1>3, <1>4, <1>5
    <3>2. over + i = over + j
      BY <2>2, <3>1 DEF RetainedOK
    <3> QED BY <1>2, <1>3, <1>4, <3>2
  <2> QED BY <2>1, <2>2 DEF RetainedOK
<1>10. HandlesAccounted'
  <2>1. Len(completed') <= MaxRetained
    BY <1>3, <1>4
  <2>2. ASSUME NEW q \in Runs
        PROVE  q \in handles' <=> \/ thread'[q] \in Alive \cup {"unstarted"}
                                  \/ \E i \in 1 .. Len(completed') : completed'[i] = q
    <3>1. CASE q = r
      <4>1. r \in handles /\ r \notin old
        BY <1>1, <1>2, <1>3, <1>5 DEF HandlesAccounted, Alive
      <4>2. Len(completed') \in 1 .. Len(completed') /\ completed'[Len(completed')] = r
        BY <1>2, <1>3, <1>4
      <4> QED BY <1>4, <3>1, <4>1, <4>2
    <3>2. CASE q # r /\ thread[q] \in Alive \cup {"unstarted"}
      <4>1. q \in handles
        BY <3>2 DEF HandlesAccounted
      <4>2. q \notin old
        BY <1>2, <1>3, <3>2 DEF RetainedOK, Alive
      <4>3. thread'[q] = thread[q]
        BY <1>1, <3>2 DEF TypeOK
      <4> QED BY <1>4, <3>2, <4>1, <4>2, <4>3
    <3>3. CASE q # r /\ thread[q] \notin Alive \cup {"unstarted"}
      <4>1. thread'[q] = thread[q]
        BY <1>1, <3>3 DEF TypeOK
      <4>2. q \in handles <=> \E i \in 1 .. Len(completed) : completed[i] = q
        BY <3>3 DEF HandlesAccounted
      <4>3. ASSUME q \in handles'
            PROVE  \E i \in 1 .. Len(completed') : completed'[i] = q
        <5>1. PICK i \in 1 .. Len(completed) : completed[i] = q
          BY <1>4, <4>2, <4>3
        <5>2. ~ (i <= over)
          BY <1>2, <1>3, <1>4, <4>3, <5>1
        <5>3. i - over \in 1 .. Len(completed') /\ over + (i - over) = i
              /\ i # Len(completed) + 1
          BY <1>2, <1>3, <1>4, <5>2
        <5> QED BY <1>4, <5>1, <5>3
      <4>4. ASSUME NEW i \in 1 .. Len(completed'), completed'[i] = q
            PROVE  q \in handles'
        <5>1. over + i \in 1 .. Len(completed) /\ completed[over + i] = q
          BY <1>2, <1>3, <1>4, <3>3, <4>4
        <5>2. q \in handles
          BY <4>2, <5>1
        <5>3. \A j \in 1 .. over : completed[j] # q
          BY <1>2, <1>3, <4>4, <5>1 DEF RetainedOK
        <5> QED BY <1>4, <5>2, <5>3
      <4> QED BY <3>3, <4>1, <4>3, <4>4
    <3> QED BY <3>1, <3>2, <3>3
  <2> QED BY <2>1, <2>2 DEF HandlesAccounted
<1>11. LimitOK'
  <2>1. ActiveHandles' \subseteq ActiveHandles
    BY <1>1, <1>4 DEF ActiveHandles
  <2> QED BY <2>1, LimitShrinks
<1>12. ClosedOK' /\ CloseJoinsAll'
  BY <1>1 DEF TypeOK, ClosedOK, CloseJoinsAll, Alive
<1> QED BY <1>6, <1>7, <1>8, <1>9, <1>10, <1>11, <1>12

\* A thread that comes back from its sink goes on; another's return moves none.
LEMMA DeliverKeeps ==
  ASSUME IInv, NEW n \in notes, Deliver(n)
  PROVE  IInv'
<1> USE DEF IInv
<1>1. /\ n \in Note /\ n.run \in Runs
      /\ notes' = notes \ {n}
      /\ UNCHANGED <<handles, status, stop, gen, sink, completed, closed, outputs,
                     caller, closer>>
  BY DEF TypeOK, Deliver, Note
<1>2. CASE n.by # "run"
  <2>1. thread' = thread
    BY <1>2 DEF Deliver
  <2>2. TypeOK'
    BY <1>1, <2>1 DEF TypeOK
  <2>3. RunsOK' /\ NotesOK' /\ RetainedOK' /\ HandlesAccounted'
    BY <1>1, <2>1 DEF RunsOK, RunOK, NotesOK, RetainedOK, HandlesAccounted
  <2>4. LimitOK'
    BY <1>1, LimitShrinks DEF ActiveHandles
  <2>5. ClosedOK' /\ CloseJoinsAll'
    BY <1>1, <2>1 DEF ClosedOK, CloseJoinsAll
  <2> QED BY <2>2, <2>3, <2>4, <2>5
<1>3. CASE n.by = "run"
  <2>1. /\ thread[n.run] \in {"announcing", "finishing"}
        /\ thread' = [thread EXCEPT ![n.run] =
             IF thread[n.run] = "announcing" THEN "working" ELSE "retiring"]
    BY <1>3 DEF Deliver, NotesOK
  <2>2. TypeOK'
    BY <1>1, <2>1 DEF TypeOK, Threads
  <2>3. RunsOK'
    BY <1>1, <2>1 DEF TypeOK, RunsOK, RunOK, Ended
  <2>4. NotesOK'
    BY <1>1, <1>3, <2>1 DEF TypeOK, NotesOK, Note
  <2>5. RetainedOK'
    BY <1>1, <2>1 DEF TypeOK, RetainedOK
  <2>6. HandlesAccounted'
    BY <1>1, <2>1 DEF TypeOK, HandlesAccounted, Alive
  <2>7. LimitOK'
    BY <1>1, LimitShrinks DEF ActiveHandles
  <2>8. ClosedOK' /\ CloseJoinsAll'
    BY <1>1, <2>1 DEF TypeOK, ClosedOK, CloseJoinsAll, Alive
  <2> QED BY <2>2, <2>3, <2>4, <2>5, <2>6, <2>7, <2>8
<1> QED BY <1>2, <1>3

-----------------------------------------------------------------------------
(* The callers, and close.                                                 *)

\* A caller's calls that change nothing of the runs.
LEMMA CallerKeeps ==
  ASSUME IInv, caller' \in [Callers -> Caller],
         UNCHANGED <<handles, status, stop, gen, sink, completed, closed, thread,
                     outputs, notes, closer>>
  PROVE  IInv'
<1> USE DEF IInv
<1>1. TypeOK'
  BY DEF TypeOK
<1>2. RunsOK' /\ NotesOK' /\ RetainedOK' /\ HandlesAccounted'
  BY DEF RunsOK, RunOK, NotesOK, RetainedOK, HandlesAccounted
<1>3. LimitOK'
  BY LimitShrinks DEF ActiveHandles
<1>4. ClosedOK' /\ CloseJoinsAll'
  BY DEF ClosedOK, CloseJoinsAll
<1> QED BY <1>1, <1>2, <1>3, <1>4

LEMMA WaitKeeps ==
  ASSUME IInv, NEW c \in Callers, NEW r \in Runs, Wait(c, r)
  PROVE  IInv'
<1>1. caller' \in [Callers -> Caller]
  BY DEF IInv, TypeOK, Caller, Wait
<1> QED BY <1>1, CallerKeeps DEF Wait

LEMMA AnswerKeeps ==
  ASSUME IInv, NEW c \in Callers, NEW r \in Runs, Answer(c, r)
  PROVE  IInv'
<1>1. caller' \in [Callers -> Caller]
  BY DEF IInv, TypeOK, Caller, Answer
<1> QED BY <1>1, CallerKeeps DEF Answer

LEMMA TimeOutKeeps ==
  ASSUME IInv, NEW c \in Callers, TimeOut(c)
  PROVE  IInv'
<1>1. caller' \in [Callers -> Caller]
  BY DEF IInv, TypeOK, Caller, TimeOut
<1> QED BY <1>1, CallerKeeps DEF TimeOut

LEMMA CancelKeeps ==
  ASSUME IInv, NEW c \in Callers, NEW r \in Runs, Cancel(c, r)
  PROVE  IInv'
<1> USE DEF IInv
<1>1. /\ status[r] = "running" /\ stop[r] = "nobody"
      /\ status' = [status EXCEPT ![r] = "cancelling"]
      /\ stop' = [stop EXCEPT ![r] = "cancel"]
      /\ gen' = [gen EXCEPT ![r] = gen[r] + 1]
      /\ notes' = notes \cup {Snapshot(r, c)}
      /\ UNCHANGED <<handles, sink, completed, closed, thread, outputs, caller, closer>>
  BY DEF Cancel, RunsOK, RunOK
<1>2. gen[r] + 1 \in 0 .. MaxGen
  BY <1>1, GenFits DEF RunsOK, Terminal
<1>3. TypeOK'
  <2>1. gen' \in [Runs -> 0 .. MaxGen] /\ status' \in [Runs -> Statuses]
        /\ stop' \in [Runs -> Stops]
    BY <1>1, <1>2 DEF TypeOK, Statuses, Active, Stops
  <2>2. Snapshot(r, c) \in Note
    BY <1>1, <2>1 DEF TypeOK, Snapshot, Note
  <2> QED BY <1>1, <2>1, <2>2 DEF TypeOK
<1>4. RunsOK'
  <2>1. ASSUME NEW q \in Runs PROVE RunOK(q)'
    BY <1>1, Numbers DEF TypeOK, RunsOK, RunOK, Terminal
  <2> QED BY <2>1 DEF RunsOK
<1>5. NotesOK'
  <2>1. Snapshot(r, c).by # "run" /\ Snapshot(r, c).by # "output"
    BY RunsAssumption DEF Snapshot
  <2> QED BY <1>1, <2>1 DEF NotesOK
<1>6. RetainedOK' /\ HandlesAccounted'
  BY <1>1 DEF RetainedOK, HandlesAccounted
<1>7. LimitOK'
  <2>1. ActiveHandles' \subseteq ActiveHandles
    BY <1>1 DEF TypeOK, ActiveHandles, Active
  <2> QED BY <2>1, LimitShrinks
<1>8. ClosedOK' /\ CloseJoinsAll'
  <2>1. Snapshot(r, c).by = c
    BY DEF Snapshot
  <2> QED BY <1>1, <2>1 DEF ClosedOK, CloseJoinsAll
<1> QED BY <1>3, <1>4, <1>5, <1>6, <1>7, <1>8

LEMMA CloseKeeps ==
  ASSUME IInv, Close
  PROVE  IInv'
<1> USE DEF IInv
<1>1. /\ closed' = TRUE /\ closer' = "joining"
      /\ status' = [r \in Runs |-> IF r \in Stopped THEN "cancelling" ELSE status[r]]
      /\ stop' = [r \in Runs |-> IF r \in Stopped THEN "shutdown" ELSE stop[r]]
      /\ gen' = [r \in Runs |-> IF r \in Stopped THEN gen[r] + 1 ELSE gen[r]]
      /\ UNCHANGED <<handles, sink, completed, thread, outputs, notes, caller>>
  BY DEF Close
<1>2. \A r \in Stopped : /\ r \in Runs /\ status[r] = "running" /\ stop[r] = "nobody"
                          /\ gen[r] + 1 \in 0 .. MaxGen
  BY GenFits DEF TypeOK, Stopped, RunsOK, RunOK, Terminal
<1>3. TypeOK'
  BY <1>1, <1>2 DEF TypeOK, Statuses, Active, Stops
<1>4. RunsOK'
  <2>1. ASSUME NEW q \in Runs PROVE RunOK(q)'
    <3>1. CASE q \in Stopped
      BY <1>1, <1>2, <3>1, Numbers DEF RunsOK, RunOK, Terminal
    <3>2. CASE q \notin Stopped
      BY <1>1, <3>2 DEF RunsOK, RunOK
    <3> QED BY <3>1, <3>2
  <2> QED BY <2>1 DEF RunsOK
<1>5. NotesOK' /\ RetainedOK' /\ HandlesAccounted'
  BY <1>1 DEF NotesOK, RetainedOK, HandlesAccounted
<1>6. LimitOK'
  <2>1. ActiveHandles' \subseteq ActiveHandles
    BY <1>1, <1>2 DEF TypeOK, ActiveHandles, Active
  <2> QED BY <2>1, LimitShrinks
<1>7. ClosedOK' /\ CloseJoinsAll'
  BY <1>1 DEF ClosedOK, CloseJoinsAll
<1> QED BY <1>3, <1>4, <1>5, <1>6, <1>7

\* Every live thread is reachable through handles, so joining those is enough.
LEMMA JoinedKeeps ==
  ASSUME IInv, Joined
  PROVE  IInv'
<1> USE DEF IInv
<1>1. TypeOK'
  BY DEF TypeOK, Joined
<1>2. RunsOK' /\ NotesOK' /\ RetainedOK' /\ HandlesAccounted'
  BY DEF Joined, RunsOK, RunOK, NotesOK, RetainedOK, HandlesAccounted
<1>3. LimitOK'
  BY LimitShrinks DEF Joined, ActiveHandles
<1>4. ClosedOK'
  BY DEF Joined, ClosedOK
<1>5. \A r \in Runs : thread[r] \notin Alive
  BY DEF Joined, HandlesAccounted
<1>6. \A n \in notes : n.by \in Callers
  BY <1>5 DEF TypeOK, NotesOK, Note, Alive
<1>7. CloseJoinsAll'
  BY <1>5, <1>6 DEF Joined, CloseJoinsAll
<1> QED BY <1>1, <1>2, <1>3, <1>4, <1>7

-----------------------------------------------------------------------------
LEMMA NextKeeps ==
  ASSUME IInv, [Next]_runvars
  PROVE  IInv'
<1>1. ASSUME UNCHANGED runvars PROVE IInv'
  BY <1>1, CallerKeeps DEF runvars, IInv, TypeOK
<1>2. ASSUME NEW r \in Runs, Start(r) \/ StartRaises(r) PROVE IInv'
  BY <1>2, RegisterKeeps DEF Start, StartRaises
<1>3. ASSUME NEW r \in Runs, Abort(r) \/ Announce(r) \/ Output(r) \/ Retire(r) PROVE IInv'
  BY <1>3, AbortKeeps, AnnounceKeeps, OutputKeeps, RetireKeeps
<1>4. ASSUME NEW r \in Runs, NEW outcome \in {"succeeded", "failed"}, Finish(r, outcome)
      PROVE  IInv'
  BY <1>4, FinishKeeps
<1>5. ASSUME NEW n \in notes, Deliver(n) PROVE IInv'
  BY <1>5, DeliverKeeps
<1>6. ASSUME NEW c \in Callers, NEW r \in Runs, Wait(c, r) \/ Answer(c, r) \/ Cancel(c, r)
      PROVE  IInv'
  BY <1>6, WaitKeeps, AnswerKeeps, CancelKeeps
<1>7. ASSUME NEW c \in Callers, TimeOut(c) PROVE IInv'
  BY <1>7, TimeOutKeeps
<1>8. ASSUME Next PROVE IInv'
  BY <1>2, <1>3, <1>4, <1>5, <1>6, <1>7, <1>8, CloseKeeps, JoinedKeeps DEF Next
<1> QED BY <1>1, <1>8

LEMMA Invariance == Spec => []IInv
BY InitEstablishes, NextKeeps, PTL DEF Spec

\* Every handle, thread and notification keeps its type; no generation is bumped
\* more often than there are chunks, one stop and one end (isolation.py, all
\* sections under _runs_lock).
THEOREM TypeCorrect == Spec => []TypeOK
<1>1. IInv => TypeOK
  BY DEF IInv
<1> QED BY <1>1, Invariance, PTL

\* No more subprocesses than the limit run at once, those being killed included
\* (start_detached counts handles by status).
THEOREM WorkersAreBounded == Spec => []WorkersBounded
<1>1. ASSUME IInv PROVE WorkersBounded
  <2> DEFINE W == {r \in Runs : thread[r] \in {"fresh", "announcing", "working"}}
  <2>1. W \subseteq ActiveHandles
    BY <1>1 DEF IInv, TypeOK, HandlesAccounted, RunsOK, RunOK, ActiveHandles, Alive,
                Ended, Terminal, Statuses, Threads
  <2>2. ActiveHandles \in SUBSET Runs
    BY <1>1 DEF IInv, TypeOK, ActiveHandles
  <2>3. IsFiniteSet(ActiveHandles)
    BY <2>2, RunsAssumption, FS_Subset
  <2>4. Cardinality(W) <= Cardinality(ActiveHandles)
    BY <2>1, <2>3, FS_Subset
  <2>5. Cardinality(W) \in Nat /\ Cardinality(ActiveHandles) \in Nat
    BY <2>1, <2>3, FS_Subset, FS_CardinalityType
  <2> QED BY <1>1, <2>4, <2>5, RunsAssumption DEF IInv, LimitOK, WorkersBounded
<1> QED BY <1>1, Invariance, PTL

\* A handle is there exactly while its run is alive or retained (_finish_run
\* evicts in a second section).
THEOREM HandlesAreAccounted == Spec => []HandlesAccounted
<1>1. IInv => HandlesAccounted
  BY DEF IInv
<1> QED BY <1>1, Invariance, PTL

\* close() returns only when no thread of a run is alive and none is in a sink.
THEOREM CloseLeavesNone == Spec => []CloseJoinsAll
<1>1. IInv => CloseJoinsAll
  BY DEF IInv
<1> QED BY <1>1, Invariance, PTL

-----------------------------------------------------------------------------
(* The runner implements the lifecycle.                                    *)

LEMMA Mapped == Lifecycle!lifecycle = <<State, Why>>
BY DEF Lifecycle!lifecycle

\* The limit of the lifecycle is met where the runner's own is.
LEMMA MappedLimit ==
  ASSUME IInv
  PROVE  Cardinality({r \in Runs : State[r] \in Active}) <= Cardinality(ActiveHandles)
<1>1. {r \in Runs : State[r] \in Active} \subseteq ActiveHandles
  BY DEF IInv, TypeOK, HandlesAccounted, RunsOK, RunOK, ActiveHandles, Active, Alive,
         Ended, Terminal, Statuses, Threads, State, NeverRan
<1>2. ActiveHandles \in SUBSET Runs
  BY DEF IInv, TypeOK, ActiveHandles
<1>3. IsFiniteSet(ActiveHandles)
  BY <1>2, RunsAssumption, FS_Subset
<1> QED BY <1>1, <1>3, FS_Subset

LEMMA InitMaps == Init => Lifecycle!Init
BY DEF Init, Lifecycle!Init, State, Why, NeverRan

LEMMA StartMaps ==
  ASSUME IInv, NEW r \in Runs, Register(r, "fresh")
  PROVE  Lifecycle!Begin(r)
<1>1. State[r] = "none" /\ Why[r] = "nobody"
  BY DEF IInv, TypeOK, Register, RunsOK, RunOK, State, Why, NeverRan
<1>2. State' = [State EXCEPT ![r] = "running"]
  BY DEF IInv, TypeOK, Register, State, NeverRan
<1>3. Why' = Why
  <2>1. \A q \in Runs : Why'[q] = Why[q]
    BY DEF IInv, TypeOK, Register, RunsOK, RunOK, Why, NeverRan
  <2> QED BY <2>1 DEF Why
<1>4. Cardinality({q \in Runs : State[q] \in Active}) < MaxActive
  <2>1. /\ Cardinality({q \in Runs : State[q] \in Active}) \in Nat
        /\ Cardinality(ActiveHandles) \in Nat
    <3>1. {q \in Runs : State[q] \in Active} \in SUBSET Runs /\ ActiveHandles \in SUBSET Runs
      BY DEF IInv, TypeOK, ActiveHandles
    <3>2. \A S \in SUBSET Runs : IsFiniteSet(S)
      BY RunsAssumption, FS_Subset
    <3> QED BY <3>1, <3>2, FS_CardinalityType
  <2>2. Cardinality(ActiveHandles) < MaxActive
    BY DEF Register
  <2> QED BY <2>1, <2>2, MappedLimit, RunsAssumption
<1> QED
  BY <1>1, <1>2, <1>3, <1>4
  DEF Lifecycle!Begin, Lifecycle!Active, Active, Cardinality, Lifecycle!Cardinality

LEMMA CancelMaps ==
  ASSUME IInv, NEW c \in Callers, NEW r \in Runs, Cancel(c, r)
  PROVE  Lifecycle!Ask({r}, "cancel")
<1>1. ~ NeverRan(r)
  BY DEF IInv, TypeOK, Cancel, Visible, HandlesAccounted, RetainedOK, NeverRan, Alive
<1>2. State[r] = "running"
  BY <1>1 DEF Cancel, State
<1>3. State' = [q \in Runs |-> IF q \in {r} THEN "cancelling" ELSE State[q]]
  BY <1>1 DEF IInv, TypeOK, Cancel, State, NeverRan
<1>4. Why' = [q \in Runs |-> IF q \in {r} THEN "cancel" ELSE Why[q]]
  BY <1>1 DEF IInv, TypeOK, Cancel, Why, NeverRan
<1> QED BY <1>2, <1>3, <1>4 DEF Lifecycle!Ask

LEMMA FinishMaps ==
  ASSUME IInv, NEW r \in Runs, NEW outcome \in {"succeeded", "failed"}, Finish(r, outcome)
  PROVE  \E o \in Lifecycle!Ends : Lifecycle!End(r, o)
<1> DEFINE o == Verdict(r, outcome)
<1>1. ~ NeverRan(r) /\ ~ NeverRan(r)' /\ status[r] \in Active
  BY DEF IInv, TypeOK, Finish, RunsOK, RunOK, Ended, Terminal, Statuses, Active, NeverRan
<1>2. o \in Lifecycle!Ends
  BY DEF IInv, TypeOK, Verdict, Stops, Lifecycle!Ends
<1>3. \/ State[r] = "running" /\ o \in {"succeeded", "failed"}
      \/ State[r] = "cancelling" /\ o = IF Why[r] = "cancel" THEN "cancelled" ELSE "failed"
  BY <1>1 DEF IInv, TypeOK, RunsOK, RunOK, Verdict, Stops, Active, State, Why
<1>4. State' = [State EXCEPT ![r] = o]
  <2> HIDE DEF o
  <2>1. status' = [status EXCEPT ![r] = o] /\ thread' = [thread EXCEPT ![r] = "finishing"]
    BY DEF Finish, o
  <2> QED BY <1>1, <2>1 DEF IInv, TypeOK, State, NeverRan
<1>5. Why' = Why
  BY <1>1 DEF IInv, TypeOK, Finish, Why, NeverRan
<1>6. Lifecycle!End(r, o)
  <2> HIDE DEF o
  <2> QED BY <1>3, <1>4, <1>5 DEF Lifecycle!End
<1> QED
  <2> WITNESS o \in Lifecycle!Ends
  <2> QED BY <1>6

\* The shutdown of a runner without runs, or of one that could not be started,
\* is no step.
LEMMA CloseMaps ==
  ASSUME IInv, Close
  PROVE  \/ \E S \in SUBSET Runs : Lifecycle!Ask(S, "shutdown")
         \/ UNCHANGED <<State, Why>>
<1> DEFINE S == {r \in Stopped : ~ NeverRan(r)}
<1>1. S \in SUBSET Runs /\ \A r \in S : State[r] = "running"
  BY DEF IInv, TypeOK, Stopped, State
<1>2. State' = [q \in Runs |-> IF q \in S THEN "cancelling" ELSE State[q]]
  BY DEF Close, State, NeverRan
<1>3. Why' = [q \in Runs |-> IF q \in S THEN "shutdown" ELSE Why[q]]
  BY DEF Close, Why, NeverRan
<1>4. CASE S = {}
  <2>1. State' = State /\ Why' = Why
    BY <1>2, <1>3, <1>4 DEF State, Why
  <2> QED BY <2>1
<1>5. CASE S # {}
  <2>1. Lifecycle!Ask(S, "shutdown")
    BY <1>1, <1>2, <1>3, <1>5 DEF Lifecycle!Ask
  <2> QED BY <1>1, <2>1
<1> QED BY <1>4, <1>5

\* Every other step leaves the lifecycle where it is.
LEMMA OthersStutter ==
  ASSUME IInv,
         \/ UNCHANGED runvars
         \/ Joined
         \/ \E r \in Runs : \/ StartRaises(r) \/ Abort(r) \/ Announce(r) \/ Output(r)
                            \/ Retire(r)
         \/ \E n \in notes : Deliver(n)
         \/ \E c \in Callers : TimeOut(c) \/ \E r \in Runs : Wait(c, r) \/ Answer(c, r)
  PROVE  UNCHANGED <<State, Why>>
<1>1. CASE \/ UNCHANGED <<thread, status, stop>>
           \/ \E r \in Runs : /\ UNCHANGED <<status, stop>>
                              /\ thread' = [thread EXCEPT ![r] = "aborted"]
                              /\ thread[r] = "unstarted"
           \/ \E r \in Runs, at \in {"announcing", "working", "retiring", "gone"} :
                /\ UNCHANGED <<status, stop>>
                /\ thread' = [thread EXCEPT ![r] = at] /\ ~ NeverRan(r)
  <2>1. \A q \in Runs : State'[q] = State[q] /\ Why'[q] = Why[q]
    BY <1>1 DEF IInv, TypeOK, State, Why, NeverRan
  <2> QED BY <2>1 DEF State, Why
<1>2. CASE UNCHANGED runvars \/ Joined
  BY <1>1, <1>2 DEF runvars, Joined
<1>3. ASSUME NEW r \in Runs, StartRaises(r) PROVE UNCHANGED <<State, Why>>
  <2>1. \A q \in Runs : State'[q] = State[q] /\ Why'[q] = Why[q]
    BY <1>3 DEF IInv, TypeOK, StartRaises, Register, RunsOK, RunOK, State, Why, NeverRan
  <2> QED BY <2>1 DEF State, Why
<1>4. ASSUME NEW r \in Runs, Abort(r) \/ Announce(r) \/ Output(r) \/ Retire(r)
      PROVE  UNCHANGED <<State, Why>>
  BY <1>1, <1>4 DEF Abort, Announce, Output, Retire, NeverRan
<1>5. ASSUME NEW n \in notes, Deliver(n) PROVE UNCHANGED <<State, Why>>
  <2>1. n.run \in Runs
    BY DEF IInv, TypeOK, Note
  <2>2. CASE n.by = "run"
    <3>1. thread[n.run] \in {"announcing", "finishing"}
      BY <2>2 DEF IInv, NotesOK
    <3>2. \E at \in {"working", "retiring"} : thread' = [thread EXCEPT ![n.run] = at]
      BY <1>5, <2>2 DEF Deliver
    <3>3. ~ NeverRan(n.run)
      BY <3>1 DEF NeverRan
    <3>4. UNCHANGED <<status, stop>>
      BY <1>5 DEF Deliver
    <3> QED BY <1>1, <2>1, <3>2, <3>3, <3>4
  <2>3. CASE n.by # "run"
    BY <1>1, <1>5, <2>3 DEF Deliver
  <2> QED BY <2>2, <2>3
<1>6. ASSUME NEW c \in Callers, TimeOut(c) \/ \E r \in Runs : Wait(c, r) \/ Answer(c, r)
      PROVE  UNCHANGED <<State, Why>>
  BY <1>1, <1>6 DEF TimeOut, Wait, Answer
<1> QED BY <1>2, <1>3, <1>4, <1>5, <1>6

LEMMA NextMaps ==
  ASSUME IInv, [Next]_runvars
  PROVE  [Lifecycle!Next]_(Lifecycle!lifecycle)
<1>1. ASSUME UNCHANGED <<State, Why>> PROVE UNCHANGED Lifecycle!lifecycle
  BY <1>1, Mapped DEF Lifecycle!lifecycle
<1>2. ASSUME NEW r \in Runs, Start(r) PROVE Lifecycle!Next
  BY <1>2, StartMaps DEF Start, Lifecycle!Next
<1>3. ASSUME NEW r \in Runs, NEW outcome \in {"succeeded", "failed"}, Finish(r, outcome)
      PROVE  Lifecycle!Next
  BY <1>3, FinishMaps DEF Lifecycle!Next
<1>4. ASSUME NEW c \in Callers, NEW r \in Runs, Cancel(c, r) PROVE Lifecycle!Next
  BY <1>4, CancelMaps DEF Lifecycle!Next
<1>5. ASSUME Close PROVE Lifecycle!Next \/ UNCHANGED Lifecycle!lifecycle
  BY <1>1, <1>5, CloseMaps DEF Lifecycle!Next
<1>6. \/ Close
      \/ \E r \in Runs : Start(r)
      \/ \E r \in Runs, outcome \in {"succeeded", "failed"} : Finish(r, outcome)
      \/ \E c \in Callers, r \in Runs : Cancel(c, r)
      \/ UNCHANGED <<State, Why>>
  BY OthersStutter DEF Next
<1> QED BY <1>1, <1>2, <1>3, <1>4, <1>5, <1>6

\* What KeepsLifecycle says but for its fairness: the runner starts where the
\* lifecycle does and each of its steps is one of the lifecycle or none of it, so
\* a stop decides the outcome and an outcome is never revised.
THEOREM KeepsLifecycleSteps ==
  Spec => Lifecycle!Init /\ [][Lifecycle!Next]_(Lifecycle!lifecycle)
BY InitMaps, NextMaps, Invariance, PTL DEF Spec
=============================================================================
