--------------------------- MODULE ScanRunProofs ---------------------------
(***************************************************************************)
(* What holds of a scan worker for every plan of roots and files, every    *)
(* setting of the commit policy and every number of runs.                  *)
(***************************************************************************)
EXTENDS ScanRun, FiniteSetTheorems, SequenceTheorems, TLAPS

(* The steps that are inside the loop or behind it keep the saved root and *)
(* the roots left; only EnterLoop gets there, and it saves the state.      *)
LEMMA ResumableStep == Resumable /\ [Next]_vars => Resumable'
<1> SUFFICES ASSUME Resumable, [Next]_vars PROVE Resumable'
  OBVIOUS
<1> USE DEF Resumable
<1>1. CASE StartOne \/ StartAll \/ Resume
  BY <1>1 DEF StartOne, StartAll, Resume, Start
<1>2. CASE WorkerStep
  <2>1. CASE NextRoot \/ StopBetweenRoots \/ CleanUp \/ End
    BY <2>1 DEF NextRoot, StopBetweenRoots, CleanUp, End
  <2>2. CASE Unreachable \/ NothingToScan \/ CancelledInLoop \/ Finalize
    BY <2>2 DEF Unreachable, NothingToScan, CancelledInLoop, Finalize, LeaveRoot
  <2>3. CASE Enumerate
    BY <2>3 DEF Enumerate
  <2>4. CASE EnterLoop
    BY <2>4 DEF EnterLoop, StateSaved
  <2>5. CASE ScanBatch
    <3>1. UNCHANGED <<pc, saved, todo>>
      BY <2>5 DEF ScanBatch
    <3> QED BY <3>1
  <2>6. CASE LoopDone
    <3>1. pc = "loop" /\ UNCHANGED <<saved, todo>>
      BY <2>6 DEF LoopDone
    <3> QED BY <3>1
  <2> QED BY <1>2, <2>1, <2>2, <2>3, <2>4, <2>5, <2>6 DEF WorkerStep
<1>3. CASE Raise \/ CleanUpFails \/ Crash
  BY <1>3 DEF Raise, CleanUpFails, Crash, LeaveRoot
<1>4. CASE Cancel
  BY <1>4 DEF Cancel
<1>5. ASSUME NEW f \in Files, EditFile(f) \/ RemoveFile(f) PROVE Resumable'
  <2>1. UNCHANGED <<pc, saved, todo>>
    BY <1>5 DEF EditFile, RemoveFile, Touch
  <2> QED BY <2>1
<1>6. CASE UNCHANGED vars
  BY <1>6 DEF vars
<1> QED BY <1>1, <1>2, <1>3, <1>4, <1>5, <1>6 DEF Next

(* A worker killed in the loop or while it finalizes leaves a state file   *)
(* that names the root it was working on, whatever roots came before.      *)
THEOREM ResumableCorrect == Spec => []Resumable
<1>1. Init => Resumable
  BY DEF Init, Resumable
<1> QED BY <1>1, ResumableStep, PTL DEF Spec
-----------------------------------------------------------------------------
(* The size of a batch.  Max is a CHOOSE, so that its value has to be shown *)
(* to exist: the set Chunk - S has a least element.                         *)
LEMMA MaxExists ==
  ASSUME NEW n \in Nat, NEW S \in SUBSET (1..n), S # {}
  PROVE  Max(S) \in S /\ \A y \in S : y <= Max(S)
<1> DEFINE T == {x \in 0..n : n - x \in S}
<1>0. \A y \in S : n - y \in T /\ y \in Nat
  <2> TAKE y \in S
  <2>1. y \in Nat /\ n - y \in 0..n /\ n - (n - y) = y
    OBVIOUS
  <2> QED BY <2>1
<1>1. T \subseteq Nat /\ T # {}
  <2>1. T \subseteq Nat
    OBVIOUS
  <2>2. PICK y \in S : TRUE
    OBVIOUS
  <2>3. n - y \in T
    BY <1>0
  <2> QED BY <2>1, <2>3
<1>2. PICK x \in T : \A y \in T : ~ (<<y, x>> \in OpToRel(<, Nat))
  BY <1>1, NatLessThanWellFounded, WFMin
<1>3. \A y \in T : x <= y
  <2> TAKE y \in T
  <2>1. x \in Nat /\ y \in Nat
    BY <1>1, <1>2
  <2>2. ~ (y < x)
    BY <1>2, <2>1 DEF OpToRel
  <2> QED BY <2>1, <2>2
<1>4. n - x \in S
  BY <1>2
<1>5. \A y \in S : n - x >= y
  <2> TAKE y \in S
  <2>1. n - y \in T /\ y \in Nat
    BY <1>0
  <2>2. x <= n - y
    BY <1>3, <2>1
  <2>3. x \in Nat
    BY <1>1, <1>2
  <2> QED BY <2>1, <2>2, <2>3
<1>6. \E z \in S : \A y \in S : z >= y
  BY <1>4, <1>5
<1> QED BY <1>6 DEF Max

(* A batch has at least one file, and at most as many as its size.         *)
LEMMA BatchSizePositive == BatchSize \in Nat \ {0}
<1> DEFINE S == {1} \cup {n \in 2..Chunk : n <= Len(queue)
                  /\ \A i \in 1..n : Archive[queue[i]] = Archive[Head(queue)]}
<1>1. Chunk \in Nat \ {0}
  BY RunAssumption
<1>2. S \in SUBSET (1..Chunk) /\ S # {}
  BY <1>1
<1>3. Max(S) \in S
  <2> HIDE DEF S
  <2> QED BY <1>1, <1>2, MaxExists
<1>4. Max(S) \in Nat \ {0}
  BY <1>1, <1>3
<1> QED BY <1>4 DEF BatchSize

Members == {queue[i] : i \in 1..BatchSize}

LEMMA MembersBounded ==
  /\ IsFiniteSet(Members) /\ Cardinality(Members) \in Nat
  /\ Cardinality(Members) <= BatchSize
<1> DEFINE f == [i \in 1..BatchSize |-> queue[i]]
<1>1. BatchSize \in Nat \ {0}
  BY BatchSizePositive
<1>2. f \in Surjection(1..BatchSize, Members)
  BY DEF Surjection, Members
<1>3. IsFiniteSet(1..BatchSize) /\ Cardinality(1..BatchSize) = BatchSize
  BY <1>1, FS_Interval
<1>4. IsFiniteSet(Members) /\ Cardinality(Members) <= Cardinality(1..BatchSize)
  <2> HIDE DEF f
  <2> QED BY <1>2, <1>3, FS_Surjection
<1> QED BY <1>3, <1>4, FS_CardinalityType

(* The longer of the two intervals bounds both.                            *)
Longest == Max({Interval, ArchiveInterval})

LEMMA LongestBounds ==
  Longest \in Nat \ {0} /\ Interval <= Longest /\ ArchiveInterval <= Longest
<1> DEFINE S == {Interval, ArchiveInterval}
<1>1. S \subseteq Nat \ {0} /\ S # {}
  BY RunAssumption
<1>2. \E z \in S : \A y \in S : z >= y
  <2>1. Interval >= ArchiveInterval \/ ArchiveInterval >= Interval
    BY <1>1
  <2> QED BY <1>1, <2>1
<1>3. Max(S) \in S /\ \A y \in S : Max(S) >= y
  <2> HIDE DEF S
  <2> QED BY <1>2 DEF Max
<1> QED BY <1>1, <1>3 DEF Longest
-----------------------------------------------------------------------------
(* The strengthening of BoundedLoss.  Only the loop holds rows that are not*)
(* committed.  While fewer than MinChanges rows were counted, the count is *)
(* exact; a commit that was put off leaves fewer than that many, and after *)
(* it at most one row set per file handled.                                *)
Rows == [Files -> Records]
LossInv ==
  /\ db \in Rows /\ stored \in Rows
  /\ count \in Nat /\ mark \in Nat /\ mark <= count
  /\ delta \in 0..MinChanges
  /\ count - mark < Longest
  /\ pc # "loop" => db = stored
  /\ IsFiniteSet(Uncommitted)
  /\ delta < MinChanges => Cardinality(Uncommitted) <= delta
  /\ Cardinality(Uncommitted) <= MinChanges - 1 + (count - mark)

LEMMA LossInit == Init => LossInv
<1> SUFFICES ASSUME Init PROVE LossInv
  OBVIOUS
<1>1. Uncommitted = {}
  BY DEF Init, Uncommitted
<1>2. IsFiniteSet({}) /\ Cardinality({}) = 0
  BY FS_EmptySet
<1>3. db \in Rows /\ stored \in Rows
  BY DEF Init, Rows, Records
<1> QED BY <1>1, <1>2, <1>3, RunAssumption, LongestBounds DEF Init, LossInv

(* Steps that commit or roll back everything.                              *)
LEMMA NothingLeft ==
  ASSUME LossInv, stored' \in Rows, db' = stored', UNCHANGED <<count, mark, delta>>
  PROVE  LossInv'
<1>1. Uncommitted' = {}
  BY DEF Uncommitted
<1>2. IsFiniteSet({}) /\ Cardinality({}) = 0
  BY FS_EmptySet
<1> QED BY <1>1, <1>2, RunAssumption DEF LossInv

(* Steps outside the loop that touch no row.                               *)
LEMMA RowsKept ==
  ASSUME LossInv, pc # "loop", UNCHANGED <<db, stored, count, mark, delta>>
  PROVE  LossInv'
BY NothingLeft DEF LossInv

(* What is not committed after a batch and before the commit: what was not *)
(* before, and files of the batch.                                         *)
LEMMA BatchWrites ==
  ASSUME LossInv, ScanBatch,
         NEW changed, changed = {f \in Members : db'[f] # db[f]},
         NEW loss, loss = {f \in Files : db'[f] # stored[f]}
  PROVE  /\ db' \in Rows
         /\ IsFiniteSet(changed) /\ Cardinality(changed) \in Nat
         /\ Cardinality(changed) <= BatchSize
         /\ IsFiniteSet(loss) /\ Cardinality(loss) \in Nat
         /\ Cardinality(loss) <= Cardinality(Uncommitted) + Cardinality(changed)
<1>1. PICK res \in [Members -> Records] :
        db' = [f \in Files |-> IF f \in Members THEN res[f] ELSE db[f]]
  BY DEF ScanBatch, Members
<1>2. db' \in Rows
  BY <1>1 DEF LossInv, Rows
<1>3. IsFiniteSet(Members) /\ Cardinality(Members) <= BatchSize
      /\ Cardinality(Members) \in Nat /\ BatchSize \in Nat
  BY MembersBounded, BatchSizePositive
<1>4. IsFiniteSet(changed) /\ Cardinality(changed) <= Cardinality(Members)
  <2>1. changed \in SUBSET Members
    OBVIOUS
  <2> QED BY <1>3, <2>1, FS_Subset
<1>5. Cardinality(changed) \in Nat /\ Cardinality(changed) <= BatchSize
  BY <1>3, <1>4, FS_CardinalityType
<1>6. loss \in SUBSET (Uncommitted \cup changed)
  BY <1>1 DEF Uncommitted
<1>7. IsFiniteSet(Uncommitted) /\ Cardinality(Uncommitted) \in Nat
  BY FS_CardinalityType DEF LossInv
<1>8. /\ IsFiniteSet(Uncommitted \cup changed)
      /\ Cardinality(Uncommitted \cup changed) =
           Cardinality(Uncommitted) + Cardinality(changed)
             - Cardinality(Uncommitted \cap changed)
  BY <1>4, <1>7, FS_Union
<1>9. Cardinality(Uncommitted \cap changed) \in Nat
  <2>1. Uncommitted \cap changed \in SUBSET changed
    OBVIOUS
  <2> QED BY <2>1, <1>4, FS_Subset, FS_CardinalityType
<1>10. IsFiniteSet(loss) /\ Cardinality(loss) <= Cardinality(Uncommitted \cup changed)
  BY <1>6, <1>8, FS_Subset
<1>11. Cardinality(loss) \in Nat
  BY <1>10, FS_CardinalityType
<1> QED BY <1>2, <1>4, <1>5, <1>7, <1>8, <1>9, <1>10, <1>11

(* A batch, and the decision to commit, to put the commit off or to wait.  *)
LEMMA LossBatch == LossInv /\ ScanBatch => LossInv'
<1> SUFFICES ASSUME LossInv, ScanBatch PROVE LossInv'
  OBVIOUS
<1> DEFINE changed == {f \in Members : db'[f] # db[f]}
           loss == {f \in Files : db'[f] # stored[f]}
           c == count + BatchSize
<1>1. /\ db' \in Rows
      /\ Cardinality(changed) \in Nat /\ Cardinality(changed) <= BatchSize
      /\ IsFiniteSet(loss) /\ Cardinality(loss) \in Nat
      /\ Cardinality(loss) <= Cardinality(Uncommitted) + Cardinality(changed)
  BY BatchWrites
<1>2. PICK d \in Written(changed) : CommitIfDue(d, c)
  BY DEF ScanBatch, Members
<1>3. pc = "loop" /\ pc' = pc /\ count' = c
  BY DEF ScanBatch
<1>4. BatchSize \in Nat \ {0} /\ Longest \in Nat \ {0} /\ BatchInterval <= Longest
      /\ BatchInterval \in Nat
  BY BatchSizePositive, LongestBounds, RunAssumption DEF BatchInterval
<1>5. /\ count \in Nat /\ mark \in Nat /\ mark <= count /\ delta \in 0..MinChanges
      /\ Cardinality(Uncommitted) \in Nat /\ MinChanges \in Nat \ {0}
      /\ delta < MinChanges => Cardinality(Uncommitted) <= delta
      /\ Cardinality(Uncommitted) <= MinChanges - 1 + (count - mark)
  BY RunAssumption, FS_CardinalityType DEF LossInv
<1>6. d \in 0..MinChanges /\ (d < MinChanges => d >= delta + Cardinality(changed))
  BY <1>2, <1>5 DEF Written
<1>7. d < MinChanges => Cardinality(loss) <= d
  <2> HIDE DEF changed, loss
  <2> QED BY <1>1, <1>5, <1>6
<1>8. c \in Nat /\ mark <= c
  BY <1>4, <1>5
<1>9. Cardinality(loss) <= MinChanges - 1 + (c - mark)
  <2> HIDE DEF changed, loss
  <2> QED BY <1>1, <1>4, <1>5
<1>10. stored' = stored => Uncommitted' = loss
  BY DEF Uncommitted
<1>11. CASE /\ ~Due(c, BatchInterval) /\ delta' = d /\ UNCHANGED <<stored, mark, timed>>
  <2>1. c - mark < Longest
    BY <1>4, <1>5, <1>8, <1>11 DEF Due
  <2> HIDE DEF loss, changed, c
  <2>2. count' - mark' < Longest /\ mark' <= count' /\ mark' \in Nat /\ count' \in Nat
    BY <1>3, <1>5, <1>8, <1>11, <2>1
  <2>3. /\ IsFiniteSet(Uncommitted')
        /\ delta' < MinChanges => Cardinality(Uncommitted') <= delta'
        /\ Cardinality(Uncommitted') <= MinChanges - 1 + (count' - mark')
    BY <1>1, <1>3, <1>7, <1>9, <1>10, <1>11
  <2>4. delta' \in 0..MinChanges /\ stored' \in Rows /\ db' \in Rows /\ pc' = "loop"
    BY <1>1, <1>3, <1>6, <1>11 DEF LossInv
  <2> QED BY <2>2, <2>3, <2>4 DEF LossInv
<1>12. CASE d \in 1..(MinChanges - 1) /\ mark' = c /\ delta' = d /\ UNCHANGED stored
  <2> HIDE DEF loss, changed, c
  <2>1. d < MinChanges
    BY <1>5, <1>12
  <2>2. count' - mark' = 0 /\ mark' <= count' /\ mark' \in Nat /\ count' \in Nat
    BY <1>3, <1>8, <1>12
  <2>3. /\ IsFiniteSet(Uncommitted')
        /\ Cardinality(Uncommitted') <= delta'
        /\ Cardinality(Uncommitted') <= MinChanges - 1 + (count' - mark')
    BY <1>1, <1>5, <1>7, <1>10, <1>12, <2>1, <2>2
  <2>4. delta' \in 0..MinChanges /\ stored' \in Rows /\ db' \in Rows /\ pc' = "loop"
    BY <1>1, <1>3, <1>6, <1>12 DEF LossInv
  <2>5. count' - mark' < Longest
    <3>1. 0 < Longest
      BY LongestBounds
    <3> QED BY <2>2, <3>1
  <2>6. delta' < MinChanges => Cardinality(Uncommitted') <= delta'
    BY <2>3
  <2> QED BY <2>2, <2>3, <2>4, <2>5, <2>6 DEF LossInv
<1>13. CASE CommitNow(d, c)
  <2>1. mark' = c /\ delta' = 0 /\ (stored' = db' \/ (d = 0 /\ stored' = stored))
    BY <1>13 DEF CommitNow
  <2>2. IsFiniteSet(Uncommitted') /\ Cardinality(Uncommitted') = 0
    <3>1. CASE stored' = db'
      <4>1. Uncommitted' = {}
        BY <3>1 DEF Uncommitted
      <4> QED BY <4>1, FS_EmptySet
    <3>2. CASE d = 0 /\ stored' = stored
      <4> HIDE DEF loss
      <4> QED BY <1>1, <1>5, <1>7, <1>10, <3>2
    <3> QED BY <2>1, <3>1, <3>2
  <2>3. stored' \in Rows
    BY <1>1, <2>1 DEF LossInv
  <2> HIDE DEF c
  <2>4. count' - mark' = 0 /\ mark' <= count' /\ mark' \in Nat /\ count' \in Nat
    BY <1>3, <1>8, <2>1
  <2> QED BY <1>1, <1>3, <1>4, <1>5, <2>1, <2>2, <2>3, <2>4 DEF LossInv
<1> QED BY <1>2, <1>11, <1>12, <1>13 DEF CommitIfDue

(* A change of a file makes the row as scanned and the row as committed    *)
(* out of date together.                                                   *)
LEMMA LossEdit ==
  ASSUME LossInv, NEW f \in Files, EditFile(f)
  PROVE  LossInv'
<1>1. /\ db' = Outdated(db, f) /\ stored' = Outdated(stored, f)
      /\ UNCHANGED <<pc, count, mark, delta>>
  BY DEF EditFile, Touch, loopVars
<1>2. db' \in Rows /\ stored' \in Rows
  BY <1>1 DEF LossInv, Rows, Records, Outdated
<1>3. Uncommitted' \in SUBSET Uncommitted
  BY <1>1 DEF LossInv, Rows, Outdated, Uncommitted
<1>4. IsFiniteSet(Uncommitted) /\ Cardinality(Uncommitted) \in Nat
  BY FS_CardinalityType DEF LossInv
<1>5. /\ IsFiniteSet(Uncommitted') /\ Cardinality(Uncommitted') \in Nat
      /\ Cardinality(Uncommitted') <= Cardinality(Uncommitted)
  BY <1>3, <1>4, FS_Subset, FS_CardinalityType
<1>6. pc' # "loop" => db' = stored'
  BY <1>1 DEF LossInv
<1>7. MinChanges \in Nat \ {0}
  BY RunAssumption
<1> QED BY <1>1, <1>2, <1>4, <1>5, <1>6, <1>7 DEF LossInv

LEMMA LossStep == LossInv /\ [Next]_vars => LossInv'
<1> SUFFICES ASSUME LossInv, [Next]_vars PROVE LossInv'
  OBVIOUS
<1>0. db \in Rows /\ stored \in Rows
  BY DEF LossInv
<1>1. CASE StartOne \/ StartAll \/ Resume
  <2>1. pc = "off" /\ UNCHANGED <<db, stored, count, mark, delta>>
    BY <1>1 DEF StartOne, StartAll, Resume, Start, fileVars, loopVars
  <2> QED BY <2>1, RowsKept
<1>2. CASE WorkerStep
  <2>1. CASE NextRoot \/ StopBetweenRoots \/ CleanUp \/ End \/ Enumerate
    <3>1. pc # "loop" /\ UNCHANGED <<db, stored, count, mark, delta>>
      BY <2>1 DEF NextRoot, StopBetweenRoots, CleanUp, End, Enumerate, fileVars, loopVars
    <3> QED BY <3>1, RowsKept
  <2>2. CASE Unreachable \/ NothingToScan
    <3>1. db' = stored' /\ UNCHANGED <<stored, count, mark, delta>>
      BY <2>2 DEF Unreachable, NothingToScan, LeaveRoot
    <3> QED BY <1>0, <3>1, NothingLeft
  <2>3. CASE CancelledInLoop
    <3>1. stored' = db /\ db' = stored' /\ UNCHANGED <<count, mark, delta>>
      BY <2>3 DEF CancelledInLoop, LeaveRoot
    <3> QED BY <1>0, <3>1, NothingLeft
  <2>4. CASE LoopDone
    <3>1. stored' = db /\ db' = stored' /\ UNCHANGED <<count, mark, delta>>
      BY <2>4 DEF LoopDone, LastCommit, loopVars
    <3> QED BY <1>0, <3>1, NothingLeft
  <2>5. CASE Finalize
    <3>1. db' = stored' /\ UNCHANGED <<count, mark, delta>>
      BY <2>5 DEF Finalize, LeaveRoot
    <3>2. stored' \in Rows
      BY <2>5, <1>0 DEF Finalize, Rows, Records
    <3> QED BY <3>1, <3>2, NothingLeft
  <2>6. CASE EnterLoop
    <3>1. /\ pc # "loop" /\ count' = 0 /\ mark' = 0 /\ delta' = 0
          /\ db' = db /\ stored' = stored
      BY <2>6 DEF EnterLoop, fileVars
    <3>2. Uncommitted' = {}
      BY <3>1 DEF LossInv, Uncommitted
    <3>3. IsFiniteSet({}) /\ Cardinality({}) = 0
      BY FS_EmptySet
    <3>4. db' = stored'
      BY <3>1 DEF LossInv
    <3> QED BY <1>0, <3>1, <3>2, <3>3, <3>4, LongestBounds, RunAssumption DEF LossInv
  <2>7. CASE ScanBatch
    BY <2>7, LossBatch
  <2> QED BY <1>2, <2>1, <2>2, <2>3, <2>4, <2>5, <2>6, <2>7 DEF WorkerStep
<1>3. CASE Raise \/ Crash
  <2>1. db' = stored' /\ UNCHANGED <<stored, count, mark, delta>>
    BY <1>3 DEF Raise, Crash, LeaveRoot
  <2> QED BY <1>0, <2>1, NothingLeft
<1>4. CASE Cancel \/ UNCHANGED vars \/ \E f \in Files : RemoveFile(f)
  <2>1. UNCHANGED <<db, stored, count, mark, delta, pc>>
    BY <1>4 DEF Cancel, RemoveFile, Touch, vars, fileVars, loopVars
  <2>2. Uncommitted' = Uncommitted
    BY <2>1 DEF Uncommitted
  <2> QED BY <2>1, <2>2 DEF LossInv
<1>5. ASSUME NEW f \in Files, EditFile(f) PROVE LossInv'
  BY <1>5, LossEdit
<1>6. CASE CleanUpFails
  <2>1. pc # "loop" /\ UNCHANGED <<db, stored, count, mark, delta>>
    BY <1>6 DEF CleanUpFails, fileVars, loopVars
  <2> QED BY <2>1, RowsKept
<1> QED BY <1>1, <1>2, <1>3, <1>4, <1>5, <1>6 DEF Next

(* What a kill can lose is bounded by the commit settings, whatever they   *)
(* are, however archives are cut into batches and commits put off.         *)
THEOREM BoundedLossCorrect == Spec => []BoundedLoss
<1>1. LossInv => BoundedLoss
  <2> SUFFICES ASSUME LossInv PROVE BoundedLoss
    OBVIOUS
  <2>1. Cardinality(Uncommitted) \in Nat
    BY FS_CardinalityType DEF LossInv
  <2>2. /\ count - mark <= Longest - 1 /\ count \in Nat /\ mark \in Nat
        /\ Longest \in Nat /\ MinChanges \in Nat
    BY LongestBounds, RunAssumption DEF LossInv
  <2>3. Cardinality(Uncommitted) <= MinChanges - 1 + (count - mark)
    BY DEF LossInv
  <2>4. Cardinality(Uncommitted) <= MinChanges - 1 + Longest - 1
    BY <2>1, <2>2, <2>3
  <2> QED BY <2>4 DEF BoundedLoss, Longest
<1> QED BY <1>1, LossInit, LossStep, PTL DEF Spec
-----------------------------------------------------------------------------
(* Types.  A worker that is past the choice of a root has one, and one that*)
(* looks for orphans has no root left.                                     *)
Rooted ==
  /\ pc \in {"root", "listed", "loop", "final"} => todo # <<>>
  /\ pc = "cleanup" => todo = <<>> /\ args.root = 0

Locals ==
  /\ saved \in RootIds \cup {0}
  /\ job \in [running : BOOLEAN, phase : Phases, cancelled : BOOLEAN]
  /\ pc \in PCs
  /\ args \in [root : RootIds \cup {0}, resume : BOOLEAN, force : BOOLEAN]
  /\ todo \in Seq(RootIds) /\ Rooted
  /\ timed \in BOOLEAN /\ broken \in BOOLEAN /\ runs \in Nat /\ edits \in Nat

FileSets == disk \subseteq Files /\ touched \subseteq Files /\ failed \subseteq Files
Walk == walAt \in Nat /\ queue \in Seq(Files)

LEMMA PlanTypes ==
  /\ RootIds = 1..Len(Plan) /\ Len(Plan) \in Nat
  /\ \A r \in RootIds : /\ Plan[r] \in Seq(Files) /\ Len(Plan[r]) \in Nat
                        /\ DOMAIN Plan[r] = 1..Len(Plan[r])
                        /\ ToSet(Plan[r]) = {Plan[r][i] : i \in DOMAIN Plan[r]}
                        /\ ToSet(Plan[r]) \subseteq Files
<1>1. Plan \in Seq(Seq(Files))
  BY RunAssumption
<1>2. RootIds = 1..Len(Plan) /\ Len(Plan) \in Nat
  BY <1>1, LenProperties DEF RootIds
<1>3. ASSUME NEW r \in RootIds
      PROVE  /\ Plan[r] \in Seq(Files) /\ Len(Plan[r]) \in Nat
             /\ DOMAIN Plan[r] = 1..Len(Plan[r])
  <2>1. Plan[r] \in Seq(Files)
    BY <1>1, <1>2, ElementOfSeq
  <2> QED  BY <2>1, LenProperties
<1>4. \A r \in RootIds : ToSet(Plan[r]) \subseteq Files
  BY DEF Files
<1> QED  BY <1>2, <1>3, <1>4 DEF ToSet

(* Head, rest and members of a sequence that is not empty.                 *)
LEMMA HeadFirst ==
  ASSUME NEW S, NEW s \in Seq(S), s # <<>>
  PROVE  /\ Len(s) \in Nat \ {0} /\ Head(s) = s[1] /\ s[1] \in S
         /\ Tail(s) \in Seq(S) /\ Len(Tail(s)) = Len(s) - 1
         /\ \A i \in 1..Len(Tail(s)) : Tail(s)[i] = s[i + 1]
BY HeadTailProperties, EmptySeq, LenProperties, ElementOfSeq

LEMMA InitRunTypes == Init => Locals /\ FileSets /\ Walk
<1> SUFFICES ASSUME Init PROVE Locals /\ FileSets /\ Walk
  OBVIOUS
<1>1. <<>> \in Seq(RootIds) /\ <<>> \in Seq(Files)
  BY EmptySeq
<1> QED  BY <1>1 DEF Init, Locals, FileSets, Walk, Rooted, Phases, PCs

LEMMA StartLocals ==
  ASSUME Locals, NEW root \in RootIds \cup {0}, NEW roots \in Seq(RootIds),
         NEW resume \in BOOLEAN, Start(root, roots, resume)
  PROVE  Locals'
<1>1. /\ UNCHANGED <<edits, timed>> /\ runs' = runs + 1 /\ pc' = "next" /\ todo' = roots
      /\ job' = [running |-> TRUE, phase |-> "busy", cancelled |-> FALSE]
      /\ saved' \in {saved, 0} /\ broken' = FALSE
  BY DEF Start, loopVars
<1>2. args' \in [root : RootIds \cup {0}, resume : BOOLEAN, force : BOOLEAN]
  <2>1. PICK force \in {FALSE} \cup (IF resume THEN {} ELSE {"force" \in Happens}) :
          args' = [root |-> root, resume |-> resume, force |-> force]
    BY DEF Start
  <2>2. force \in BOOLEAN
    <3>1. ("force" \in Happens) \in BOOLEAN
      OBVIOUS
    <3> QED  BY <2>1, <3>1
  <2> QED  BY <2>1, <2>2
<1>3. job' \in [running : BOOLEAN, phase : Phases, cancelled : BOOLEAN]
  BY <1>1 DEF Phases
<1>4. saved' \in RootIds \cup {0} /\ runs' \in Nat /\ edits' \in Nat /\ timed' \in BOOLEAN
  BY <1>1 DEF Locals
<1>5. pc' \in PCs /\ Rooted' /\ todo' \in Seq(RootIds) /\ broken' \in BOOLEAN
  BY <1>1 DEF PCs, Rooted
<1> QED  BY <1>2, <1>3, <1>4, <1>5 DEF Locals

LEMMA StepLocals ==
  ASSUME Locals, [Next]_vars
  PROVE  Locals'
<1> USE DEF Locals, Rooted, Phases, PCs
<1>0. \A s \in Seq(RootIds) : s # <<>> => Head(s) \in RootIds /\ Tail(s) \in Seq(RootIds)
  BY HeadFirst
<1>1. CASE StartOne \/ StartAll \/ Resume
  <2>1. CASE StartOne
    <3>1. PICK r \in RootIds : Start(r, <<r>>, FALSE)
      BY <2>1 DEF StartOne
    <3>2. <<r>> \in Seq(RootIds)
      OBVIOUS
    <3> QED  BY <3>1, <3>2, StartLocals
  <2>2. CASE StartAll
    <3>1. [r \in RootIds |-> r] \in Seq(RootIds)
      BY PlanTypes, SeqDef
    <3> QED  BY <2>2, <3>1, StartLocals DEF StartAll
  <2>3. CASE Resume
    <3>1. saved \in RootIds /\ Start(saved, <<saved>>, TRUE)
      BY <2>3 DEF Resume
    <3>2. <<saved>> \in Seq(RootIds)
      BY <3>1
    <3> QED  BY <3>1, <3>2, StartLocals
  <2> QED  BY <1>1, <2>1, <2>2, <2>3
<1>2. CASE WorkerStep
  <2>1. CASE NextRoot \/ StopBetweenRoots \/ CleanUp \/ End
    <3>1. UNCHANGED <<saved, args, timed, broken, runs, edits>>
          /\ job' \in {job, Updated, Ended("cancelled"), Ended("complete")}
          /\ todo' \in {todo, <<>>}
          /\ \/ pc' = "root" /\ todo' # <<>>
             \/ pc' = "off"
             \/ pc' = "cleanup" /\ todo' = <<>> /\ args.root = 0
      BY <2>1 DEF NextRoot, StopBetweenRoots, CleanUp, CleansUp, End, Closed, loopVars, history
    <3>2. todo' \in Seq(RootIds)
      BY <3>1, EmptySeq
    <3> QED  BY <3>1, <3>2 DEF Updated, Ended
  <2>2. CASE Unreachable
    BY <1>0, <2>2 DEF Unreachable, LeaveRoot, Ended
  <2>3. CASE Enumerate \/ EnterLoop
    <3>1. UNCHANGED <<args, todo, broken, runs, edits>> /\ todo # <<>>
          /\ job' = Updated /\ pc' \in {"listed", "loop"} /\ saved' \in {saved, Head(todo)}
          /\ timed' \in BOOLEAN
      BY <2>3 DEF Enumerate, EnterLoop, StateSaved, loopVars, history
    <3> QED  BY <1>0, <3>1 DEF Updated
  <2>4. CASE NothingToScan \/ CancelledInLoop \/ Finalize
    <3>1. UNCHANGED <<args, broken, runs, edits, timed>> /\ todo # <<>>
          /\ job' \in {job, Updated} /\ pc' = "next" /\ saved' \in {saved, 0}
          /\ todo' = Tail(todo)
      BY <2>4 DEF NothingToScan, CancelledInLoop, Finalize, LeaveRoot, history
    <3> QED  BY <1>0, <3>1 DEF Updated
  <2>5. CASE ScanBatch
    <3>1. UNCHANGED <<saved, job, pc, args, todo, broken, runs, edits>>
      BY <2>5 DEF ScanBatch
    <3>2. timed' \in BOOLEAN
      BY <2>5 DEF ScanBatch, CommitIfDue, CommitNow
    <3> QED  BY <3>1, <3>2
  <2>6. CASE LoopDone
    <3>1. UNCHANGED <<saved, job, args, todo, broken, runs, edits, timed>>
          /\ todo # <<>> /\ pc' = "final"
      BY <2>6 DEF LoopDone, loopVars, history
    <3> QED  BY <3>1
  <2> QED  BY <1>2, <2>1, <2>2, <2>3, <2>4, <2>5, <2>6 DEF WorkerStep
<1>3. CASE Raise \/ CleanUpFails
  <2>1. CASE Raise
    BY <1>0, <2>1 DEF Raise, LeaveRoot
  <2>2. CASE CleanUpFails
    <3>1. UNCHANGED <<saved, args, todo, timed, runs, edits>> /\ broken' = TRUE
          /\ pc' = "off" /\ job' \in {job, Ended("error")}
      BY <2>2 DEF CleanUpFails, Closed, loopVars
    <3> QED  BY <3>1 DEF Ended
  <2> QED  BY <1>3, <2>1, <2>2
<1>4. CASE Crash
  <2>1. UNCHANGED <<saved, job, args, broken, runs, edits, timed>> /\ pc' = "off" /\ todo' = <<>>
    BY <1>4 DEF Crash, history
  <2> QED  BY <2>1, EmptySeq
<1>5. CASE Cancel
  BY <1>5 DEF Cancel, loopVars, history
<1>6. CASE \E f \in Files : EditFile(f) \/ RemoveFile(f)
  <2>1. UNCHANGED <<saved, job, pc, args, todo, timed, broken, runs>> /\ edits' = edits + 1
    BY <1>6 DEF EditFile, RemoveFile, Touch, loopVars
  <2> QED  BY <2>1
<1>7. CASE UNCHANGED vars
  BY <1>7 DEF vars, loopVars, history
<1> QED  BY <1>1, <1>2, <1>3, <1>4, <1>5, <1>6, <1>7 DEF Next

(* A batch is the head of the queue.                                        *)
LEMMA BatchOfQueue ==
  ASSUME queue \in Seq(Files), queue # <<>>
  PROVE  /\ BatchSize \in 1..Len(queue) /\ Len(queue) \in Nat
         /\ Members = {queue[i] : i \in 1..BatchSize} /\ Members \subseteq Files
<1> DEFINE S == {1} \cup {n \in 2..Chunk : n <= Len(queue)
                  /\ \A i \in 1..n : Archive[queue[i]] = Archive[Head(queue)]}
<1>1. Chunk \in Nat \ {0}
  BY RunAssumption
<1>2. S \in SUBSET (1..Chunk) /\ S # {}
  BY <1>1
<1>3. Max(S) \in S
  <2> HIDE DEF S
  <2> QED BY <1>1, <1>2, MaxExists
<1>4. Len(queue) \in Nat \ {0}
  BY HeadFirst
<1>5. \A n \in S : n \in 1..Len(queue)
  BY <1>1, <1>4
<1>6. BatchSize \in 1..Len(queue)
  BY <1>3, <1>5 DEF BatchSize
<1>7. \A i \in 1..BatchSize : queue[i] \in Files
  BY <1>4, <1>6, ElementOfSeq
<1> QED  BY <1>4, <1>6, <1>7 DEF Members

LEMMA RestOfQueue ==
  ASSUME queue \in Seq(Files), queue # <<>>,
         NEW rest, rest = SubSeq(queue, BatchSize + 1, Len(queue))
  PROVE  /\ rest \in Seq(Files)
         /\ \A f \in ToSet(queue) : f \in Members \/ f \in ToSet(rest)
<1>1. BatchSize \in 1..Len(queue) /\ Len(queue) \in Nat
      /\ Members = {queue[i] : i \in 1..BatchSize}
  BY BatchOfQueue
<1>2. \A i \in (BatchSize + 1)..Len(queue) : queue[i] \in Files
  BY <1>1, ElementOfSeq
<1>3. /\ rest \in Seq(Files)
      /\ Len(rest) = IF BatchSize + 1 <= Len(queue) THEN Len(queue) - BatchSize ELSE 0
      /\ \A i \in 1..Len(queue) - BatchSize : rest[i] = queue[BatchSize + i]
  BY <1>1, <1>2, SubSeqProperties
<1>4. DOMAIN rest = 1..Len(rest) /\ DOMAIN queue = 1..Len(queue)
  BY <1>3, LenProperties
<1>5. ASSUME NEW i \in 1..Len(queue) PROVE queue[i] \in Members \/ queue[i] \in ToSet(rest)
  <2>1. CASE i <= BatchSize
    <3>1. i \in 1..BatchSize
      BY <1>1, <2>1
    <3> QED  BY <1>1, <3>1
  <2>2. CASE i > BatchSize
    <3>1. i - BatchSize \in 1..Len(queue) - BatchSize /\ BatchSize + (i - BatchSize) = i
          /\ BatchSize + 1 <= Len(queue)
      BY <1>1, <2>2
    <3>2. rest[i - BatchSize] = queue[i]
      BY <1>3, <3>1
    <3>3. i - BatchSize \in DOMAIN rest
      BY <1>3, <1>4, <3>1
    <3> QED  BY <3>2, <3>3 DEF ToSet
  <2> QED  BY <1>1, <2>1, <2>2
<1> QED  BY <1>3, <1>4, <1>5 DEF ToSet

LEMMA StepFileSets ==
  ASSUME FileSets, Walk, [Next]_vars
  PROVE  FileSets'
<1> USE DEF FileSets
<1>1. CASE StartOne \/ StartAll \/ Resume
  BY <1>1 DEF StartOne, StartAll, Resume, Start, fileVars
<1>2. CASE ScanBatch
  <2>1. failed' = failed \cup {f \in Members : db'[f] # "full" /\ ~Skipped(f)}
        /\ UNCHANGED <<disk, touched>> /\ queue # <<>>
    BY <1>2 DEF ScanBatch, Members
  <2> QED  BY <2>1, BatchOfQueue DEF Walk
<1>3. CASE WorkerStep /\ ~ScanBatch
  BY <1>3 DEF WorkerStep, NextRoot, StopBetweenRoots, CleanUp, End, Unreachable, Enumerate,
              NothingToScan, EnterLoop, CancelledInLoop, LoopDone, Finalize,
              fileVars, history
<1>4. CASE Raise \/ CleanUpFails \/ Cancel \/ Crash \/ UNCHANGED vars
  BY <1>4 DEF Raise, CleanUpFails, Cancel, Crash, vars, fileVars, history
<1>5. ASSUME NEW f \in Files, EditFile(f) \/ RemoveFile(f) PROVE FileSets'
  BY <1>5 DEF EditFile, RemoveFile, Touch
<1> QED  BY <1>1, <1>2, <1>3, <1>4, <1>5 DEF Next

(* The listing: what is left, each file of it.                              *)
LEMMA Enumerated ==
  ASSUME Locals, Enumerate
  PROVE  /\ Head(todo) \in RootIds /\ queue' \in Seq(Files)
         /\ ToSet(queue') = disk \cap Filtered(Head(todo)) \cap ToSet(Plan[Head(todo)])
<1> DEFINE r == Head(todo)
           left == {i \in DOMAIN Plan[r] : Plan[r][i] \in disk \cap Filtered(r)}
<1>1. PICK e \in Ascending(left) : queue' = [i \in DOMAIN e |-> Plan[r][e[i]]]
  BY DEF Enumerate
<1>2. r \in RootIds
  BY HeadFirst DEF Enumerate, Locals, Rooted
<1>3. /\ Plan[r] \in Seq(Files) /\ DOMAIN Plan[r] = 1..Len(Plan[r]) /\ Len(Plan[r]) \in Nat
      /\ \A i \in DOMAIN Plan[r] : Plan[r][i] \in Files
      /\ ToSet(Plan[r]) = {Plan[r][i] : i \in DOMAIN Plan[r]}
  BY <1>2, PlanTypes, ElementOfSeq
<1>4. left \in SUBSET (1..Len(Plan[r]))
  BY <1>3
<1>5. Cardinality(left) \in Nat
  <2> HIDE DEF left
  <2>1. IsFiniteSet(1..Len(Plan[r]))
    BY <1>3, FS_Interval
  <2> QED  BY <1>4, <2>1, FS_Subset, FS_CardinalityType
<1>6. e \in [1..Cardinality(left) -> left] /\ {e[i] : i \in DOMAIN e} = left
  BY <1>1 DEF Ascending, ToSet
<1>7. queue' \in Seq(Files)
  <2>1. queue' \in [1..Cardinality(left) -> Files]
    BY <1>1, <1>3, <1>6
  <2> HIDE DEF left
  <2> QED  BY <1>5, <2>1, SeqDef
<1>8. ToSet(queue') = {Plan[r][i] : i \in left}
  BY <1>1, <1>6 DEF ToSet
<1>9. {Plan[r][i] : i \in left} = disk \cap Filtered(r) \cap ToSet(Plan[r])
  BY <1>3
<1> QED  BY <1>2, <1>7, <1>8, <1>9

LEMMA StepWalk ==
  ASSUME Locals, Walk, LossInv, [Next]_vars
  PROVE  Walk'
<1> USE DEF Walk
<1>1. CASE ScanBatch
  <2>1. queue # <<>> /\ queue' = SubSeq(queue, BatchSize + 1, Len(queue))
        /\ walAt' \in {walAt, count + BatchSize}
    BY <1>1 DEF ScanBatch
  <2>2. count + BatchSize \in Nat
    BY BatchSizePositive DEF LossInv
  <2> QED  BY <2>1, <2>2, RestOfQueue
<1>2. CASE Enumerate
  BY <1>2, Enumerated DEF Enumerate
<1>3. CASE EnterLoop
  BY <1>3 DEF EnterLoop
<1>4. CASE Unreachable \/ NothingToScan \/ CancelledInLoop \/ Finalize \/ Raise \/ Crash
  <2>1. queue' = <<>> /\ walAt' = walAt
    BY <1>4 DEF Unreachable, NothingToScan, CancelledInLoop, Finalize, Raise, Crash, LeaveRoot
  <2> QED  BY <2>1, EmptySeq
<1>5. CASE NextRoot \/ StopBetweenRoots \/ CleanUp \/ End \/ CleanUpFails \/ LoopDone \/ Cancel
  BY <1>5 DEF NextRoot, StopBetweenRoots, CleanUp, End, CleanUpFails, LoopDone, Cancel, loopVars
<1>6. CASE StartOne \/ StartAll \/ Resume \/ UNCHANGED vars
  BY <1>6 DEF StartOne, StartAll, Resume, Start, loopVars, vars
<1>7. CASE \E f \in Files : EditFile(f) \/ RemoveFile(f)
  BY <1>7 DEF EditFile, RemoveFile, Touch, loopVars
<1> QED  BY <1>1, <1>2, <1>3, <1>4, <1>5, <1>6, <1>7 DEF Next, WorkerStep

RunTypes == Locals /\ FileSets /\ Walk /\ LossInv

LEMMA RunTypesCorrect == Spec => []RunTypes
<1>1. Init => RunTypes
  BY InitRunTypes, LossInit DEF RunTypes
<1>2. RunTypes /\ [Next]_vars => RunTypes'
  BY StepLocals, StepFileSets, StepWalk, LossStep DEF RunTypes
<1> QED  BY <1>1, <1>2, PTL DEF Spec

(* The variables have their types, for every plan and every setting.       *)
THEOREM TypeCorrect == Spec => []TypeOK
<1>1. RunTypes => TypeOK
  BY DEF RunTypes, Locals, FileSets, Walk, LossInv, Rows, TypeOK
<1> QED  BY <1>1, RunTypesCorrect, PTL
-----------------------------------------------------------------------------
(* What a root of the present worker still owes to one of its files: a     *)
(* committed record, unless the root is to come, or the file is in the     *)
(* queue or recorded in the worker's connection.                           *)
Bad == IF args.resume THEN {"none"} ELSE {"none", "stale"}
Unsettled == pc # "off" /\ ~job.cancelled /\ ~broken
AtHand(f) == pc \in {"listed", "loop"} /\ (f \in ToSet(queue) \/ db[f] \notin Bad)
Ahead(f, r) ==
  \/ stored[f] \notin Bad
  \/ \E k \in 2..Len(todo) : todo[k] = r
  \/ todo # <<>> /\ todo[1] = r /\ (pc \in {"next", "root"} \/ AtHand(f))

Mine(f) == {r \in RootIds : args.root \in {0, r} /\ f \in ToSet(Plan[r])}
InWork == Unsettled =>
            \A f \in disk \ (touched \cup failed) : \A r \in Mine(f) : Ahead(f, r)
Kept == \A f \in Files : stored[f] \notin Bad => db[f] \notin Bad
Busy == pc # "off" => job.phase # "complete"

SkipInv == InWork /\ Kept /\ Busy /\ NothingSkipped

(* A batch makes no record worse, and settles the files it does not fail.   *)
LEMMA BatchSettles ==
  ASSUME RunTypes, ScanBatch
  PROVE  /\ Bad' = Bad
         /\ \A f \in Files : db[f] \notin Bad => db'[f] \notin Bad
         /\ \A f \in Members : f \in disk /\ f \notin failed' => db'[f] \notin Bad
         /\ \A f \in Files : f \notin failed' => f \notin failed
         /\ stored' = stored \/ stored' = db'
<1>1. PICK res \in [Members -> Records] :
        /\ \A f \in Members : res[f] \in Results(f)
        /\ db' = [f \in Files |-> IF f \in Members THEN res[f] ELSE db[f]]
  BY DEF ScanBatch, Members
<1>2. /\ failed' = failed \cup {f \in Members : db'[f] # "full" /\ ~Skipped(f)}
      /\ args' = args /\ queue # <<>>
  BY DEF ScanBatch, Members
<1>3. Members \subseteq Files /\ db \in [Files -> Records]
  BY <1>2, BatchOfQueue DEF RunTypes, Walk, LossInv, Rows
<1>4. \A f \in Members : db'[f] \in Results(f)
  BY <1>1, <1>3
<1>5. \A f \in Files : db[f] \notin Bad => db'[f] \notin Bad
  <2>1. ASSUME NEW f \in Members, db[f] \notin Bad PROVE db'[f] \notin Bad
    <3>1. db'[f] \in {db[f], "full", "half", "bare"}
          \/ db[f] = "none"
      BY <1>4 DEF Results, Partial
    <3> QED  BY <2>1, <3>1 DEF Bad
  <2>2. ASSUME NEW f \in Files \ Members PROVE db'[f] = db[f]
    BY <1>1
  <2> QED  BY <2>1, <2>2
<1>6. \A f \in Members : f \in disk /\ f \notin failed' => db'[f] \notin Bad
  <2>1. ASSUME NEW f \in Members, f \in disk, f \notin failed' PROVE db'[f] \notin Bad
    <3>1. CASE db'[f] = "full"
      BY <3>1 DEF Bad
    <3>2. CASE Skipped(f)
      <4>1. db'[f] = db[f] /\ db[f] \in {"bare", "full", "half"}
        BY <1>4, <3>2 DEF Results, Skipped
      <4> QED  BY <4>1 DEF Bad
    <3> QED  BY <1>2, <2>1, <3>1, <3>2
  <2> QED  BY <2>1
<1>7. stored' = stored \/ stored' = db'
  BY DEF ScanBatch, CommitIfDue, CommitNow
<1>8. Bad' = Bad
  BY <1>2 DEF Bad
<1> QED  BY <1>2, <1>5, <1>6, <1>7, <1>8

LEMMA StepKept ==
  ASSUME RunTypes, Kept, [Next]_vars
  PROVE  Kept'
<1>0. db \in [Files -> Records] /\ stored \in [Files -> Records] /\ (pc # "loop" => db = stored)
  BY DEF RunTypes, LossInv, Rows
<1>1. CASE db' = stored'
  BY <1>1 DEF Kept
<1>2. CASE UNCHANGED <<db, stored, args>>
  BY <1>2 DEF Kept, Bad
<1>3. CASE StartOne \/ StartAll \/ Resume
  <2>1. pc = "off" /\ UNCHANGED <<db, stored>>
    BY <1>3 DEF StartOne, StartAll, Resume, Start, fileVars
  <2> QED  BY <1>0, <1>1, <2>1
<1>4. CASE ScanBatch
  <2>1. /\ Bad' = Bad /\ (stored' = stored \/ stored' = db')
        /\ \A f \in Files : db[f] \notin Bad => db'[f] \notin Bad
    BY <1>4, BatchSettles
  <2> QED  BY <1>1, <2>1 DEF Kept
<1>5. CASE WorkerStep /\ ~ScanBatch
  <2>1. CASE NextRoot \/ StopBetweenRoots \/ CleanUp \/ End \/ Enumerate \/ EnterLoop
    BY <1>2, <2>1 DEF NextRoot, StopBetweenRoots, CleanUp, End, Enumerate, EnterLoop, fileVars
  <2>2. CASE Unreachable \/ NothingToScan \/ CancelledInLoop \/ LoopDone \/ Finalize
    <3>1. db' = stored'
      BY <2>2 DEF Unreachable, NothingToScan, CancelledInLoop, LoopDone, Finalize, LeaveRoot
    <3> QED  BY <1>1, <3>1
  <2> QED  BY <1>5, <2>1, <2>2 DEF WorkerStep
<1>6. CASE Raise \/ Crash
  <2>1. db' = stored'
    BY <1>6 DEF Raise, Crash, LeaveRoot
  <2> QED  BY <1>1, <2>1
<1>7. CASE Cancel \/ CleanUpFails \/ UNCHANGED vars
  BY <1>2, <1>7 DEF Cancel, CleanUpFails, vars, fileVars
<1>8. ASSUME NEW g \in Files, EditFile(g) \/ RemoveFile(g) PROVE Kept'
  <2>1. CASE RemoveFile(g)
    BY <1>2, <2>1 DEF RemoveFile, Touch
  <2>2. CASE EditFile(g)
    <3>1. db' = Outdated(db, g) /\ stored' = Outdated(stored, g) /\ Bad' = Bad
      BY <2>2 DEF EditFile, Touch, Bad
    <3>2. ASSUME NEW f \in Files, stored'[f] \notin Bad PROVE db'[f] \notin Bad
      <4>1. CASE f = g
        <5>1. stored[f] # "none" /\ "stale" \notin Bad /\ "none" \in Bad
          BY <1>0, <3>1, <3>2, <4>1 DEF Outdated, Bad
        <5>2. stored[f] \notin Bad
          BY <5>1 DEF Bad
        <5>3. db[f] # "none"
          BY <5>1, <5>2 DEF Kept
        <5>4. db'[f] = "stale"
          BY <1>0, <3>1, <4>1, <5>3 DEF Outdated
        <5> QED  BY <5>1, <5>4
      <4>2. CASE f # g
        <5>1. db'[f] = db[f] /\ stored'[f] = stored[f]
          BY <1>0, <3>1, <4>2 DEF Outdated
        <5> QED  BY <3>2, <5>1 DEF Kept
      <4> QED  BY <4>1, <4>2
    <3> QED  BY <3>1, <3>2 DEF Kept
  <2> QED  BY <1>8, <2>1, <2>2
<1> QED  BY <1>3, <1>4, <1>5, <1>6, <1>7, <1>8 DEF Next

LEMMA StepBusy ==
  ASSUME RunTypes, Busy, [Next]_vars
  PROVE  Busy'
<1> USE DEF Busy
<1>0. job \in [running : BOOLEAN, phase : Phases, cancelled : BOOLEAN]
  BY DEF RunTypes, Locals
<1>1. CASE StartOne \/ StartAll \/ Resume
  <2>1. job' = [running |-> TRUE, phase |-> "busy", cancelled |-> FALSE]
    BY <1>1 DEF StartOne, StartAll, Resume, Start
  <2> QED  BY <2>1
<1>2. CASE NextRoot \/ CleanUp \/ Enumerate \/ EnterLoop \/ Finalize
  <2>1. job' = Updated
    BY <1>2 DEF NextRoot, CleanUp, Enumerate, EnterLoop, Finalize
  <2> QED  BY <1>0, <2>1 DEF Updated
<1>3. CASE StopBetweenRoots \/ End \/ CleanUpFails \/ Crash
  BY <1>3 DEF StopBetweenRoots, End, CleanUpFails, Crash
<1>4. CASE Unreachable
  <2>1. job'.phase = "error"
    BY <1>0, <1>4 DEF Unreachable, Ended
  <2> QED  BY <2>1
<1>5. CASE NothingToScan \/ CancelledInLoop \/ Raise \/ ScanBatch \/ LoopDone
  <2>1. pc # "off" /\ job' = job
    BY <1>5 DEF NothingToScan, CancelledInLoop, Raise, ScanBatch, LoopDone
  <2> QED  BY <2>1
<1>6. CASE Cancel
  <2>1. job'.phase = job.phase /\ pc # "off"
    BY <1>0, <1>6 DEF Cancel
  <2> QED  BY <2>1
<1>7. CASE UNCHANGED vars \/ \E f \in Files : EditFile(f) \/ RemoveFile(f)
  BY <1>7 DEF vars, EditFile, RemoveFile, Touch
<1> QED  BY <1>1, <1>2, <1>3, <1>4, <1>5, <1>6, <1>7 DEF Next, WorkerStep

(* After the current root come the roots behind it.                        *)
LEMMA NextInLine ==
  ASSUME Locals, todo # <<>>, todo' = Tail(todo), pc' = "next", NEW f, NEW r,
         stored'[f] \notin Bad' \/ \E k \in 2..Len(todo) : todo[k] = r
  PROVE  Ahead(f, r)'
<1>1. CASE stored'[f] \notin Bad'
  BY <1>1 DEF Ahead
<1>2. ASSUME NEW k \in 2..Len(todo), todo[k] = r PROVE Ahead(f, r)'
  <2>1. /\ Len(todo) \in Nat \ {0} /\ Tail(todo) \in Seq(RootIds)
        /\ Len(Tail(todo)) = Len(todo) - 1
        /\ \A i \in 1..Len(Tail(todo)) : Tail(todo)[i] = todo[i + 1]
    BY HeadFirst DEF Locals
  <2>2. k - 1 \in 1..Len(Tail(todo)) /\ (k - 1) + 1 = k
    BY <1>2, <2>1
  <2>3. todo'[k - 1] = r
    BY <1>2, <2>1, <2>2
  <2>4. todo' # <<>>
    <3>1. Len(todo') # 0 /\ Len(<<>>) = 0
      BY <2>1, <2>2, EmptySeq
    <3> QED  BY <3>1
  <2>5. CASE k = 2
    BY <2>3, <2>4, <2>5 DEF Ahead
  <2>6. CASE k # 2
    <3>1. k - 1 \in 2..Len(todo')
      BY <1>2, <2>1, <2>2, <2>6
    <3> QED  BY <2>3, <3>1 DEF Ahead
  <2> QED  BY <2>5, <2>6
<1> QED  BY <1>1, <1>2

(* A step inside a root.                                                    *)
LEMMA SameRoot ==
  ASSUME UNCHANGED <<args, todo>>, NEW f, NEW r, Ahead(f, r),
         stored[f] \notin Bad => stored'[f] \notin Bad,
         todo # <<>> /\ todo[1] = r /\ (pc \in {"next", "root"} \/ AtHand(f)) =>
           stored'[f] \notin Bad \/ pc' \in {"next", "root"} \/ AtHand(f)'
  PROVE  Ahead(f, r)'
BY DEF Ahead, Bad

LEMMA StepInWork ==
  ASSUME RunTypes, InWork, Kept, [Next]_vars
  PROVE  InWork'
<1> SUFFICES ASSUME Unsettled', NEW f \in disk' \ (touched' \cup failed'), NEW r \in Mine(f)'
             PROVE  Ahead(f, r)'
  BY DEF InWork
<1>0. Locals /\ Walk /\ (pc # "loop" => db = stored) /\ disk \subseteq Files
  BY DEF RunTypes, LossInv, FileSets
<1>1. CASE StartOne \/ StartAll \/ Resume
  <2>1. PICK root, roots, resume :
          /\ Start(root, roots, resume)
          /\ \/ root \in RootIds /\ roots = <<root>>
             \/ root = 0 /\ roots = [k \in RootIds |-> k]
    <3>1. CASE StartOne
      BY <3>1 DEF StartOne
    <3>2. CASE StartAll
      BY <3>2 DEF StartAll
    <3>3. CASE Resume
      BY <1>0, <3>3 DEF Resume, Locals
    <3> QED  BY <1>1, <3>1, <3>2, <3>3
  <2>2. pc' = "next" /\ todo' = roots /\ args'.root = root
    BY <2>1 DEF Start
  <2>3. r \in RootIds /\ args'.root \in {0, r}
    BY DEF Mine
  <2>4. RootIds = 1..Len(Plan) /\ Len(Plan) \in Nat
    BY PlanTypes
  <2>5. CASE root \in RootIds /\ roots = <<root>>
    <3>1. todo' # <<>> /\ todo'[1] = r
      BY <2>2, <2>3, <2>4, <2>5
    <3> QED  BY <2>2, <3>1 DEF Ahead
  <2>6. CASE root = 0 /\ roots = [k \in RootIds |-> k]
    <3>1. roots \in Seq(Nat) /\ Len(roots) = Len(Plan) /\ roots[r] = r
      BY <2>3, <2>4, <2>6, SeqDef
    <3>2. r = 1 \/ r \in 2..Len(todo')
      BY <2>2, <2>3, <2>4, <3>1
    <3>3. todo' # <<>>
      BY <2>2, <2>3, <2>4, <3>1, EmptySeq
    <3> QED  BY <2>2, <3>1, <3>2, <3>3 DEF Ahead
  <2> QED  BY <2>1, <2>5, <2>6
<1>2. CASE /\ UNCHANGED <<stored, args, todo, queue, job, broken, disk, touched, failed>>
           /\ db' = db /\ pc # "off"
           /\ \/ pc' = pc
              \/ pc = "next" /\ pc' = "root"
              \/ pc = "listed" /\ pc' = "loop"
  <2>1. Ahead(f, r)
    BY <1>2 DEF InWork, Unsettled, Mine
  <2>2. AtHand(f) => AtHand(f)'
    BY <1>2 DEF AtHand, Bad
  <2>3. pc \in {"next", "root"} => pc' \in {"next", "root"}
    BY <1>2
  <2> QED  BY <1>2, <2>1, <2>2, <2>3, SameRoot
<1>3. CASE Enumerate
  <2>1. /\ UNCHANGED <<disk, db, stored, args, todo, touched, failed, broken>>
        /\ pc = "root" /\ pc' = "listed" /\ job' = Updated
    BY <1>3 DEF Enumerate, fileVars, history
  <2>2. job'.cancelled = job.cancelled
    BY <1>0, <2>1 DEF Updated, Locals
  <2>3. Ahead(f, r) /\ f \in disk /\ f \in ToSet(Plan[r])
    BY <2>1, <2>2 DEF InWork, Unsettled, Mine
  <2>4. todo # <<>> /\ todo[1] = r => AtHand(f)' \/ stored'[f] \notin Bad
    <3>1. SUFFICES ASSUME todo # <<>>, todo[1] = r PROVE AtHand(f)' \/ stored'[f] \notin Bad
      OBVIOUS
    <3>2. Head(todo) = r
      BY <1>0, <3>1, HeadFirst DEF Locals
    <3>3. ToSet(queue') = disk \cap Filtered(r) \cap ToSet(Plan[r])
      BY <1>0, <1>3, <3>2, Enumerated
    <3>4. CASE f \in Filtered(r)
      BY <2>1, <2>3, <3>3, <3>4 DEF AtHand
    <3>5. CASE f \notin Filtered(r)
      <4>1. args.resume /\ stored[f] # "none"
        BY <2>3, <3>5 DEF Filtered
      <4> QED  BY <2>1, <4>1 DEF Bad
    <3> QED  BY <3>4, <3>5
  <2> QED  BY <2>1, <2>3, <2>4, SameRoot
<1>4. CASE EnterLoop \/ NextRoot \/ CleanUp
  <2>1. /\ UNCHANGED <<disk, db, stored, args, todo, queue, touched, failed, broken>>
        /\ job' = Updated
        /\ \/ pc = "listed" /\ pc' = "loop"
           \/ pc = "next" /\ pc' = "root"
           \/ pc = "next" /\ todo = <<>>
    <3>1. CASE EnterLoop
      <4>1. pc = "listed" /\ pc' = "loop" /\ job' = Updated
        BY <3>1 DEF EnterLoop
      <4>2. UNCHANGED <<disk, db, stored, args, todo, queue, touched, failed, broken>>
        BY <3>1 DEF EnterLoop, fileVars, history
      <4> QED  BY <4>1, <4>2
    <3>2. CASE NextRoot
      BY <3>2 DEF NextRoot, fileVars, loopVars, history
    <3>3. CASE CleanUp
      BY <3>3 DEF CleanUp, fileVars, loopVars, history
    <3> QED  BY <1>4, <3>1, <3>2, <3>3
  <2>2. job'.cancelled = job.cancelled
    BY <1>0, <2>1 DEF Updated, Locals
  <2>3. Ahead(f, r)
    BY <2>1, <2>2 DEF InWork, Unsettled, Mine
  <2>4. AtHand(f) => AtHand(f)'
    BY <2>1 DEF AtHand, Bad
  <2>5. todo # <<>> /\ pc \in {"next", "root"} => pc' \in {"next", "root"}
    BY <2>1
  <2> QED  BY <2>1, <2>3, <2>4, <2>5, SameRoot
<1>5. CASE ScanBatch
  <2>1. UNCHANGED <<disk, job, pc, args, todo, touched, broken>> /\ queue # <<>> /\ pc = "loop"
        /\ queue' = SubSeq(queue, BatchSize + 1, Len(queue))
    BY <1>5 DEF ScanBatch
  <2>2. /\ Bad' = Bad
        /\ \A g \in Files : db[g] \notin Bad => db'[g] \notin Bad
        /\ \A g \in Members : g \in disk /\ g \notin failed' => db'[g] \notin Bad
        /\ \A g \in Files : g \notin failed' => g \notin failed
        /\ stored' = stored \/ stored' = db'
    BY <1>5, BatchSettles
  <2>3. f \in disk /\ f \in Files /\ f \notin failed
    BY <1>0, <2>1, <2>2
  <2>4. Ahead(f, r)
    BY <2>1, <2>3 DEF InWork, Unsettled, Mine
  <2>5. stored[f] \notin Bad => stored'[f] \notin Bad
    BY <2>2, <2>3 DEF Kept
  <2>6. AtHand(f) => AtHand(f)'
    <3>1. SUFFICES ASSUME AtHand(f) PROVE f \in ToSet(queue') \/ db'[f] \notin Bad
      BY <2>1, <2>2 DEF AtHand
    <3>2. CASE f \in ToSet(queue)
      <4>1. f \in Members \/ f \in ToSet(queue')
        BY <1>0, <2>1, <3>2, RestOfQueue DEF Walk
      <4> QED  BY <2>2, <2>3, <4>1
    <3>3. CASE db[f] \notin Bad
      BY <2>2, <2>3, <3>3
    <3> QED  BY <3>1, <3>2, <3>3 DEF AtHand
  <2>7. pc \notin {"next", "root"}
    BY <2>1
  <2> QED  BY <2>1, <2>4, <2>5, <2>6, <2>7, SameRoot
<1>6. CASE LoopDone
  <2>1. UNCHANGED <<disk, job, args, todo, queue, touched, failed, broken>> /\ queue = <<>>
        /\ stored' = db /\ pc = "loop"
    BY <1>6 DEF LoopDone, LastCommit, loopVars, history
  <2>2. Ahead(f, r) /\ f \in Files
    BY <1>0, <2>1 DEF InWork, Unsettled, Mine
  <2>3. stored[f] \notin Bad => stored'[f] \notin Bad
    BY <2>1, <2>2 DEF Kept
  <2>4. ToSet(queue) = {}
    BY <2>1 DEF ToSet
  <2>5. AtHand(f) => stored'[f] \notin Bad
    BY <2>1, <2>4 DEF AtHand
  <2> QED  BY <2>1, <2>2, <2>3, <2>5, SameRoot
<1>7. CASE NothingToScan \/ Finalize
  <2>1. /\ UNCHANGED <<disk, args, touched, failed, broken>> /\ pc \in {"listed", "final"}
        /\ todo' = Tail(todo) /\ pc' = "next" /\ job' \in {job, Updated}
    BY <1>7 DEF NothingToScan, Finalize, LeaveRoot, history
  <2>2. job'.cancelled = job.cancelled
    BY <1>0, <2>1 DEF Updated, Locals
  <2>3. Ahead(f, r) /\ Unsettled /\ f \in disk /\ f \in Files
    BY <1>0, <2>1, <2>2 DEF InWork, Unsettled, Mine
  <2>4. todo # <<>>
    BY <1>0, <2>1 DEF Locals, Rooted
  <2>5. stored[f] \notin Bad => stored'[f] \notin Bad'
    <3>1. stored'[f] = stored[f]
      BY <1>7, <2>3 DEF NothingToScan, Finalize
    <3> QED  BY <2>1, <3>1 DEF Bad
  <2>6. AtHand(f) => stored'[f] \notin Bad'
    <3>1. CASE NothingToScan
      <4>1. queue = <<>> /\ pc = "listed"
        BY <2>3, <3>1 DEF NothingToScan, Unsettled
      <4>2. ToSet(queue) = {} /\ db = stored
        BY <1>0, <4>1 DEF ToSet
      <4> QED  BY <2>5, <4>2 DEF AtHand
    <3>2. CASE Finalize
      BY <3>2 DEF Finalize, AtHand
    <3> QED  BY <1>7, <3>1, <3>2
  <2>7. stored'[f] \notin Bad' \/ \E k \in 2..Len(todo) : todo[k] = r
    BY <2>1, <2>3, <2>5, <2>6 DEF Ahead
  <2> QED  BY <1>0, <2>1, <2>4, <2>7, NextInLine
<1>8. CASE StopBetweenRoots \/ End \/ CleanUpFails \/ Crash
  BY <1>8 DEF StopBetweenRoots, End, CleanUpFails, Crash, Unsettled
<1>9. CASE Unreachable \/ Raise
  BY <1>9 DEF Unreachable, Raise, Unsettled
<1>10. CASE CancelledInLoop \/ Cancel
  <2>1. job'.cancelled
    BY <1>0, <1>10 DEF CancelledInLoop, Cancel, Locals
  <2> QED  BY <2>1 DEF Unsettled
<1>11. ASSUME NEW g \in Files, EditFile(g) \/ RemoveFile(g) PROVE Ahead(f, r)'
  <2>1. /\ UNCHANGED <<job, pc, args, todo, queue, failed, broken>>
        /\ touched' = touched \cup {g} /\ disk' \subseteq disk
    BY <1>11 DEF EditFile, RemoveFile, Touch, loopVars
  <2>2. f # g /\ f \in Files
    BY <1>0, <2>1
  <2>3. Ahead(f, r)
    BY <2>1 DEF InWork, Unsettled, Mine
  <2>4. db'[f] = db[f] /\ stored'[f] = stored[f]
    BY <1>11, <2>2 DEF EditFile, RemoveFile, Outdated, RunTypes, LossInv, Rows
  <2>5. AtHand(f) => AtHand(f)'
    BY <2>1, <2>4 DEF AtHand, Bad
  <2> QED  BY <2>1, <2>3, <2>4, <2>5, SameRoot
<1>12. CASE UNCHANGED vars
  <2>1. pc # "off"
    BY <1>12 DEF vars, Unsettled
  <2> QED  BY <1>2, <1>12, <2>1 DEF vars, fileVars, loopVars, history
<1> QED  BY <1>1, <1>3, <1>4, <1>5, <1>6, <1>7, <1>8, <1>9, <1>10, <1>11, <1>12 DEF Next, WorkerStep

LEMMA StepNothingSkipped ==
  ASSUME RunTypes, InWork, Busy, NothingSkipped, [Next]_vars
  PROVE  NothingSkipped'
<1> SUFFICES ASSUME Finished', NEW f \in Covered' PROVE stored'[f] \notin Bad'
  BY DEF NothingSkipped, Bad
<1>0. Locals /\ FileSets /\ db \in [Files -> Records] /\ stored \in [Files -> Records]
  BY DEF RunTypes, LossInv, Rows
<1>1. pc' = "off"
  BY DEF Finished
<1>2. CASE UNCHANGED vars
  <2>1. Finished /\ f \in Covered /\ Bad' = Bad /\ stored' = stored
    BY <1>2 DEF Finished, Covered, Bad, vars, fileVars, history
  <2> QED  BY <2>1 DEF NothingSkipped, Bad
<1>3. ASSUME NEW g \in Files, EditFile(g) \/ RemoveFile(g) PROVE stored'[f] \notin Bad'
  <2>1. /\ UNCHANGED <<job, pc, args, failed, broken, runs>>
        /\ touched' = touched \cup {g} /\ disk' \subseteq disk
    BY <1>3 DEF EditFile, RemoveFile, Touch
  <2>2. Finished /\ f \in Covered /\ f # g /\ f \in Files /\ Bad' = Bad
    BY <1>0, <2>1 DEF Finished, Covered, Bad, FileSets
  <2>3. stored'[f] = stored[f]
    BY <1>0, <1>3, <2>2 DEF EditFile, RemoveFile, Outdated
  <2> QED  BY <2>2, <2>3 DEF NothingSkipped, Bad
<1>4. CASE End
  <2>1. pc # "off" /\ todo = <<>> /\ UNCHANGED <<disk, stored, args, touched, failed, broken>>
        /\ job' \in {job, Ended("cancelled"), Ended("complete")}
    BY <1>0, <1>4 DEF End, Closed, Locals, Rooted, fileVars, history
  <2>2. job'.cancelled = job.cancelled
    BY <1>0, <2>1 DEF Ended, Locals
  <2>3. Unsettled
    BY <2>1, <2>2 DEF Unsettled, Finished
  <2>4. f \in disk \ (touched \cup failed)
    BY <2>1 DEF Covered
  <2>5. PICK r \in RootIds : r \in Mine(f)
    BY <2>1 DEF Covered, Mine
  <2>6. Ahead(f, r)
    BY <2>3, <2>4, <2>5 DEF InWork
  <2>7. Len(todo) = 0
    BY <2>1, EmptySeq
  <2>8. stored[f] \notin Bad
    BY <2>1, <2>6, <2>7 DEF Ahead
  <2> QED  BY <2>1, <2>8 DEF Bad
<1>5. CASE StopBetweenRoots
  <2>1. job'.cancelled
    BY <1>0, <1>5 DEF StopBetweenRoots, StopsHere, Ended, Locals
  <2> QED  BY <2>1 DEF Finished
<1>6. CASE Crash
  BY <1>6 DEF Crash, Busy, Finished
<1>7. CASE StartOne \/ StartAll \/ Resume
  BY <1>1, <1>7 DEF StartOne, StartAll, Resume, Start
<1>8. CASE WorkerStep /\ ~End /\ ~StopBetweenRoots
  BY <1>1, <1>8 DEF WorkerStep, NextRoot, CleanUp, Unreachable, Enumerate, NothingToScan, EnterLoop,
                    ScanBatch, CancelledInLoop, LoopDone, Finalize, LeaveRoot
<1>9. CASE Raise \/ Cancel
  BY <1>1, <1>9 DEF Raise, Cancel, LeaveRoot
<1>10. CASE CleanUpFails
  <2>1. broken'
    BY <1>10 DEF CleanUpFails
  <2> QED  BY <2>1 DEF Finished
<1> QED  BY <1>2, <1>3, <1>4, <1>5, <1>6, <1>7, <1>8, <1>9, <1>10 DEF Next

(* A worker that reports completion and met no failure has recorded every  *)
(* file, for every plan of roots, also after earlier workers were killed.  *)
THEOREM NothingSkippedCorrect == Spec => []NothingSkipped
<1>1. Init => SkipInv
  BY DEF Init, SkipInv, InWork, Unsettled, Kept, Busy, NothingSkipped, Finished
<1>2. RunTypes /\ SkipInv /\ [Next]_vars => SkipInv'
  BY StepInWork, StepKept, StepBusy, StepNothingSkipped DEF SkipInv
<1>3. SkipInv => NothingSkipped
  BY DEF SkipInv
<1> QED  BY <1>1, <1>2, <1>3, RunTypesCorrect, PTL DEF Spec
-----------------------------------------------------------------------------
(* The refinement.  The record of the job after the calls that change it.   *)
LEMMA JobCalls ==
  ASSUME Locals
  PROVE  /\ job.running \in BOOLEAN /\ job.cancelled \in BOOLEAN
         /\ Updated.running = job.running /\ Updated.phase = "busy"
         /\ Updated.cancelled = job.cancelled
         /\ \A phase : /\ Ended(phase).running = FALSE /\ Ended(phase).phase = phase
                       /\ Ended(phase).cancelled = job.cancelled
BY DEF Locals, Updated, Ended

(* A scan of one root has no other, and fails only when it leaves it.       *)
OneRoot ==
  args.root # 0 => /\ todo \in {<<>>, <<args.root>>}
                   /\ pc # "off" /\ todo # <<>> => job.running

LEMMA StepOneRoot ==
  ASSUME Locals, OneRoot, [Next]_vars
  PROVE  OneRoot'
<1> USE DEF OneRoot
<1>0. \A r : Tail(<<r>>) = <<>>
  OBVIOUS
<1>1. CASE StartOne \/ StartAll \/ Resume
  <2>1. PICK root, roots, resume :
          Start(root, roots, resume) /\ (root = 0 \/ roots = <<root>>)
    BY <1>1 DEF StartOne, StartAll, Resume
  <2>2. args'.root = root /\ todo' = roots /\ job'.running
    BY <2>1 DEF Start
  <2> QED  BY <2>1, <2>2
<1>2. CASE NextRoot \/ CleanUp \/ Enumerate \/ EnterLoop
  <2>1. UNCHANGED <<args, todo>> /\ job' = Updated /\ pc # "off"
    BY <1>2 DEF NextRoot, CleanUp, Enumerate, EnterLoop
  <2> QED  BY <2>1, JobCalls
<1>3. CASE Unreachable \/ NothingToScan \/ CancelledInLoop \/ Finalize \/ Raise
  <2>1. todo # <<>> /\ todo' = Tail(todo) /\ args' = args
    BY <1>3 DEF Unreachable, NothingToScan, CancelledInLoop, Finalize, Raise, LeaveRoot,
                Locals, Rooted
  <2> QED  BY <1>0, <2>1
<1>4. CASE StopBetweenRoots \/ End \/ CleanUpFails \/ Crash
  <2>1. pc' = "off" /\ todo' \in {todo, <<>>} /\ args' = args
    BY <1>4 DEF StopBetweenRoots, End, CleanUpFails, Crash
  <2> QED  BY <2>1
<1>5. CASE Cancel
  <2>1. UNCHANGED <<pc, args, todo>> /\ job'.running = job.running
    BY <1>5 DEF Cancel, Locals
  <2> QED  BY <2>1
<1>6. CASE ScanBatch \/ LoopDone \/ UNCHANGED vars \/ \E f \in Files : EditFile(f) \/ RemoveFile(f)
  <2>1. UNCHANGED <<args, todo, job>> /\ (pc' = "off" <=> pc = "off")
    BY <1>6 DEF ScanBatch, LoopDone, vars, EditFile, RemoveFile, Touch
  <2> QED  BY <2>1
<1> QED  BY <1>1, <1>2, <1>3, <1>4, <1>5, <1>6 DEF Next, WorkerStep

Failed == Scanning /\ ~job.running

(* A step of a scan that goes on.                                           *)
LEMMA WorkRefines ==
  ASSUME Locals, OneRoot, pc # "off", pc' # "off", todo # <<>> \/ args.root = 0,
         args' = args, job' \in {job, Updated},
         saved' \in {saved, 0} \/ (todo # <<>> /\ saved' = Head(todo))
  PROVE  Process!Work
<1>1. args.root = 0 \/ job.running
  BY DEF OneRoot
<1>2. job'.running = job.running /\ job'.cancelled = job.cancelled
  BY JobCalls
<1>3. Scanning /\ Scanning' /\ (Failed <=> ~job.running) /\ (Failed' <=> Failed)
  BY <1>1, <1>2 DEF Scanning, Failed
<1>4. Shown' = Shown \/ Shown' = Process!Display(Failed)
  <2>1. CASE job' = job
    BY <2>1 DEF Shown
  <2>2. CASE job' = Updated
    <3>1. Shown' = Display(~job.running)
      BY <2>2, JobCalls DEF Shown
    <3> QED  BY <1>3, <3>1 DEF Display, Process!Display
  <2> QED  BY <2>1, <2>2
<1>5. saved' \in {saved, 0} \cup Process!FoldersOf(args.root, 0, RootIds)
  <2>1. CASE todo # <<>> /\ saved' = Head(todo)
    <3>1. Head(todo) \in RootIds /\ (args.root # 0 => Head(todo) = args.root)
      BY <2>1, HeadFirst DEF Locals, OneRoot
    <3>2. 0 \notin RootIds
      BY PlanTypes
    <3> QED  BY <2>1, <3>1, <3>2 DEF Process!FoldersOf
  <2> QED  BY <2>1
<1>6. Failed = (Scanning /\ ~job.running) /\ Failed' = (Scanning' /\ ~job'.running)
  BY DEF Failed
<1>7. Scanning' = Scanning /\ Failed' = Failed /\ args'.root = args.root
      /\ job'.cancelled = job.cancelled
  BY <1>2, <1>3 DEF Scanning, Failed
<1> QED  BY <1>3, <1>4, <1>5, <1>7 DEF Process!Work, Failed

(* The steps with which a scan is over.                                     *)
LEMMA EndRefines ==
  ASSUME Locals, Scanning, ~Scanning', args' = args, saved' = saved,
         job'.cancelled = job.cancelled,
         NEW out \in Process!Promised(args.root = 0, job.cancelled),
         Shown' = Process!FinalProgress(Failed, Shown, out)
  PROVE  Process!End
<1>1. Scanning' = FALSE /\ (Scanning' /\ ~job'.running) = FALSE
  OBVIOUS
<1>2. args'.root = args.root
  OBVIOUS
<1> QED  BY <1>1, <1>2 DEF Process!End, Failed

LEMMA StillOver ==
  ASSUME ~Scanning, ~Scanning'
  PROVE  Scanning' = Scanning /\ Failed' = Failed
<1>1. ~Failed /\ ~Failed'
  BY DEF Failed
<1>2. Scanning = FALSE /\ Scanning' = FALSE
  BY DEF Scanning
<1>3. Failed = FALSE /\ Failed' = FALSE
  BY <1>1 DEF Failed
<1> QED  BY <1>2, <1>3

LEMMA StepProcess ==
  ASSUME Locals, OneRoot, [Next]_vars
  PROVE  Process!Next \/ UNCHANGED Process!vars
<1>1. CASE StartOne \/ StartAll \/ Resume
  <2>0. PICK root \in RootIds \cup {0} : \E roots, resume : Start(root, roots, resume)
    <3>1. CASE StartOne
      BY <3>1 DEF StartOne
    <3>2. CASE StartAll
      BY <3>2 DEF StartAll
    <3>3. CASE Resume
      BY <3>3 DEF Resume, Locals
    <3> QED  BY <1>1, <3>1, <3>2, <3>3
  <2>1. PICK roots, resume : Start(root, roots, resume)
    BY <2>0
  <2>2. /\ pc = "off" /\ pc' = "next" /\ args'.root = root /\ saved' \in {saved, 0}
        /\ job' = [running |-> TRUE, phase |-> "busy", cancelled |-> FALSE]
    BY <2>1 DEF Start
  <2>3. ~Scanning /\ Scanning' = TRUE /\ job'.running = TRUE
        /\ job'.cancelled = FALSE
    BY <2>2 DEF Scanning
  <2>4. Shown' = "running"
    BY <2>2 DEF Shown, Display
  <2>5. (Scanning' /\ ~job'.running) = FALSE
    BY <2>3
  <2>6. Process!Start
    BY <2>2, <2>3, <2>4, <2>5 DEF Process!Start
  <2> QED  BY <2>6 DEF Process!Next
<1>2. CASE NextRoot \/ CleanUp \/ Enumerate \/ EnterLoop \/ NothingToScan
           \/ CancelledInLoop \/ Finalize \/ Raise
  <2>1. /\ pc # "off" /\ pc' # "off" /\ args' = args /\ job' \in {job, Updated}
        /\ todo # <<>> \/ args.root = 0
        /\ saved' \in {saved, 0} \/ (todo # <<>> /\ saved' = Head(todo))
    BY <1>2 DEF NextRoot, CleanUp, CleansUp, Enumerate, EnterLoop, StateSaved, NothingToScan,
                CancelledInLoop, Finalize, Raise, LeaveRoot, Locals, Rooted
  <2>2. Process!Work
    BY <2>1, WorkRefines
  <2> QED  BY <2>2 DEF Process!Next
<1>3. CASE Unreachable
  <2>1. /\ pc = "root" /\ todo # <<>> /\ pc' = "next" /\ UNCHANGED <<args, saved>>
        /\ job' = Ended("error")
    BY <1>3 DEF Unreachable, LeaveRoot, Locals, Rooted
  <2>2. ~job'.running /\ job'.cancelled = job.cancelled /\ job'.phase = "error"
    BY <2>1, JobCalls
  <2>3. Shown' = "error" /\ Scanning
    BY <2>1, <2>2 DEF Shown, Scanning, OneRoot
  <2>4. CASE args.root = 0
    <3>1. Scanning' = Scanning /\ (Scanning' /\ ~job'.running) = TRUE
      BY <2>1, <2>2, <2>3, <2>4 DEF Scanning
    <3>2. Process!RootFails
      BY <2>1, <2>2, <2>3, <2>4, <3>1 DEF Process!RootFails
    <3> QED  BY <3>2 DEF Process!Next
  <2>5. CASE args.root # 0
    <3>1. ~Scanning' /\ ~Failed
      BY <2>1, <2>2, <2>5 DEF Scanning, Failed, OneRoot
    <3>2. "error" \in Process!Promised(args.root = 0, job.cancelled)
      BY DEF Process!Promised, Process!Outcomes
    <3>3. Shown' = Process!FinalProgress(Failed, Shown, "error")
      BY <2>3, <3>1 DEF Process!FinalProgress
    <3>4. Process!End
      BY <2>1, <2>2, <2>3, <3>1, <3>2, <3>3, EndRefines
    <3> QED  BY <3>4 DEF Process!Next
  <2> QED  BY <2>4, <2>5
<1>4. CASE StopBetweenRoots \/ End \/ CleanUpFails
  <2>1. PICK out :
          /\ \/ job' = Ended(out) /\ (job.running \/ out = "cancelled")
             \/ ~job.running /\ job' = job /\ (out = "cancelled" => args.root # 0)
          /\ out = "error" \/ (out = "cancelled" /\ job.cancelled)
             \/ (out = "complete" /\ (args.root = 0 \/ ~job.cancelled))
    BY <1>4, JobCalls DEF StopBetweenRoots, StopsHere, End, CleanUpFails, Closed
  <2>2. /\ pc # "off" /\ pc' = "off" /\ UNCHANGED <<args, saved>>
        /\ job'.cancelled = job.cancelled
    BY <1>4, <2>1, JobCalls DEF StopBetweenRoots, End, CleanUpFails
  <2>3. out \in Process!Promised(args.root = 0, job.cancelled)
    BY <2>1 DEF Process!Promised, Process!Outcomes
  <2>4. CASE Scanning
    <3>1. Shown' = Process!FinalProgress(Failed, Shown, out)
      <4>1. CASE job' = Ended(out) /\ (job.running \/ out = "cancelled")
        <5>1. Shown' = out
          BY <2>1, <4>1, JobCalls DEF Shown, Display
        <5>2. ~Failed \/ out = "cancelled"
          BY <4>1 DEF Failed
        <5> QED  BY <5>1, <5>2 DEF Process!FinalProgress
      <4>2. CASE ~job.running /\ job' = job /\ (out = "cancelled" => args.root # 0)
        <5>1. Shown' = Shown /\ out # "cancelled" /\ Failed
          BY <2>4, <4>2 DEF Failed, Shown, Scanning
        <5> QED  BY <5>1 DEF Process!FinalProgress
      <4> QED  BY <2>1, <4>1, <4>2
    <3>2. ~Scanning'
      BY <2>2 DEF Scanning
    <3>3. Process!End
      BY <2>2, <2>3, <2>4, <3>1, <3>2, EndRefines
    <3> QED  BY <3>3 DEF Process!Next
  <2>5. CASE ~Scanning
    <3>1. UNCHANGED job
      BY <1>4, <2>2, <2>5 DEF Scanning, StopBetweenRoots, StopsHere, End, CleanUpFails, Closed
    <3>2. ~Scanning'
      BY <2>2 DEF Scanning
    <3>3. Shown' = Shown
      BY <3>1 DEF Shown
    <3>4. Scanning' = Scanning /\ Failed' = Failed
      BY <2>5, <3>2, StillOver DEF Failed
    <3> QED  BY <2>2, <3>3, <3>4 DEF Process!vars, Failed
  <2> QED  BY <2>4, <2>5
<1>5. CASE Crash
  <2>1. pc' = "off" /\ UNCHANGED <<args, saved, job>>
    BY <1>5 DEF Crash
  <2>2. Scanning' = FALSE /\ Shown' = Shown /\ (Scanning' /\ ~job'.running) = FALSE
    BY <2>1 DEF Scanning, Shown
  <2>3. CASE Scanning
    BY <2>1, <2>2, <2>3 DEF Process!Die, Process!Next
  <2>4. CASE ~Scanning
    <3>1. Scanning' = Scanning /\ Failed' = Failed
      BY <2>2, <2>4, StillOver
    <3> QED  BY <2>1, <2>2, <3>1 DEF Process!vars, Failed
  <2> QED  BY <2>3, <2>4
<1>6. CASE Cancel
  <2>1. /\ UNCHANGED <<pc, args, saved>> /\ job'.cancelled = TRUE
        /\ job'.running = job.running /\ job'.phase = job.phase
    BY <1>6 DEF Cancel, Locals
  <2>2. Scanning' = Scanning /\ Shown' = Shown
        /\ (Scanning' /\ ~job'.running) = (Scanning /\ ~job.running)
    BY <2>1 DEF Scanning, Shown
  <2> QED  BY <2>1, <2>2 DEF Process!Cancel, Process!Next
<1>7. CASE ScanBatch \/ LoopDone \/ UNCHANGED vars \/ \E f \in Files : EditFile(f) \/ RemoveFile(f)
  <2>1. UNCHANGED <<args, saved, job>> /\ (pc' = "off" <=> pc = "off")
    BY <1>7 DEF ScanBatch, LoopDone, vars, EditFile, RemoveFile, Touch
  <2>2. Scanning' = Scanning /\ Shown' = Shown
        /\ (Scanning' /\ ~job'.running) = (Scanning /\ ~job.running)
    BY <2>1 DEF Scanning, Shown
  <2> QED  BY <2>1, <2>2 DEF Process!vars
<1> QED  BY <1>1, <1>2, <1>3, <1>4, <1>5, <1>6, <1>7 DEF Next, WorkerStep

(* The inside of a worker implements what ScanService assumes of one: the   *)
(* phases, the resume state and the ways to end, for every plan of roots.   *)
THEOREM RunIsProcess == Spec => IsProcess
<1>1. Init => OneRoot /\ Process!Init
  <2> SUFFICES ASSUME Init PROVE OneRoot /\ Process!Init
    OBVIOUS
  <2>1. ~Scanning /\ Shown = "complete"
    BY DEF Init, Scanning, Shown, Display
  <2> QED  BY <2>1 DEF Init, OneRoot, Process!Init, Process!Outcomes
<1>2. RunTypes /\ OneRoot /\ [Next]_vars => OneRoot' /\ [Process!Next]_(Process!vars)
  BY StepOneRoot, StepProcess DEF RunTypes
<1> QED  BY <1>1, <1>2, RunTypesCorrect, PTL DEF Spec, IsProcess, Process!Spec
-----------------------------------------------------------------------------
(* Steps that leave a root, or go on within it.                             *)
LEMMA LeavingIsCloser ==
  ASSUME Locals, todo # <<>>, todo' = Tail(todo)
  PROVE  Closer
<1>1. Len(todo) \in Nat \ {0} /\ Len(Tail(todo)) = Len(todo) - 1
  BY HeadFirst DEF Locals
<1>2. Len(todo') < Len(todo)
  BY <1>1
<1> QED  BY <1>2 DEF Closer

LEMMA StepCloser ==
  ASSUME Locals, Walk, WorkerStep, pc' # "off"
  PROVE  Closer
<1>1. CASE NextRoot \/ CleanUp \/ Enumerate \/ EnterLoop \/ LoopDone
  <2>1. todo' = todo
    BY <1>1 DEF NextRoot, CleanUp, Enumerate, EnterLoop, LoopDone
  <2>2. Places[pc'] < Places[pc]
    BY <1>1 DEF NextRoot, CleanUp, Enumerate, EnterLoop, LoopDone, Places
  <2> QED  BY <2>1, <2>2 DEF Closer
<1>2. CASE Unreachable \/ NothingToScan \/ CancelledInLoop \/ Finalize
  <2>1. todo # <<>> /\ todo' = Tail(todo)
    BY <1>2 DEF Unreachable, NothingToScan, CancelledInLoop, Finalize, LeaveRoot,
                Locals, Rooted
  <2> QED  BY <2>1, LeavingIsCloser
<1>3. CASE ScanBatch
  <2>1. /\ UNCHANGED <<pc, todo>> /\ queue # <<>>
        /\ queue' = SubSeq(queue, BatchSize + 1, Len(queue))
    BY <1>3 DEF ScanBatch
  <2>2. BatchSize \in 1..Len(queue) /\ Len(queue) \in Nat
    BY <2>1, BatchOfQueue DEF Walk
  <2>3. \A i \in (BatchSize + 1)..Len(queue) : queue[i] \in Files
    BY <2>2, ElementOfSeq DEF Walk
  <2>4. Len(queue') = IF BatchSize + 1 <= Len(queue) THEN Len(queue) - BatchSize ELSE 0
    BY <2>1, <2>2, <2>3, SubSeqProperties DEF Walk
  <2>5. Len(queue') < Len(queue)
    BY <2>2, <2>4
  <2> QED  BY <2>1, <2>5 DEF Closer
<1>4. ~StopBetweenRoots /\ ~End
  BY DEF StopBetweenRoots, End
<1> QED  BY <1>1, <1>2, <1>3, <1>4 DEF WorkerStep

(* Every step of a worker brings it closer to its end, for plans and queues *)
(* of any length: the number of roots left, the place within a root and the *)
(* length of its queue, in this order, are a measure that only decreases.   *)
THEOREM GetsCloserCorrect == Spec => GetsCloser
<1>1. RunTypes /\ [Next]_vars =>
        [pc # "off" /\ pc' # "off" =>
           Closer \/ (UNCHANGED <<pc, todo, queue>> /\ ~WorkerStep)]_vars
  <2> SUFFICES ASSUME Locals, Walk, Next, pc # "off", pc' # "off", ~WorkerStep
               PROVE  Closer \/ UNCHANGED <<pc, todo, queue>>
    BY StepCloser DEF RunTypes
  <2>1. CASE StartOne \/ StartAll \/ Resume \/ CleanUpFails \/ Crash
    BY <2>1 DEF StartOne, StartAll, Resume, Start, CleanUpFails, Crash
  <2>2. CASE Raise
    <3>1. todo # <<>> /\ todo' = Tail(todo)
      BY <2>2 DEF Raise, LeaveRoot, Locals, Rooted
    <3> QED  BY <3>1, LeavingIsCloser
  <2>3. CASE Cancel \/ \E f \in Files : EditFile(f) \/ RemoveFile(f)
    BY <2>3 DEF Cancel, EditFile, RemoveFile, Touch, loopVars
  <2> QED  BY <2>1, <2>2, <2>3 DEF Next
<1> QED  BY <1>1, RunTypesCorrect, PTL DEF Spec, GetsCloser
=============================================================================
