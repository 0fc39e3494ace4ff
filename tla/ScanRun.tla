-------------------------------- MODULE ScanRun --------------------------------
(***************************************************************************)
(* One scan worker at a time, seen from the inside: the roots it walks, the*)
(* loop over the files of a root, the commits of its database connection,  *)
(* the resume state, and the job record that becomes progress.json.  A     *)
(* worker may be killed at any step and another one started, or resumed.   *)
(***************************************************************************)
EXTENDS Naturals, Sequences, FiniteSets, SequencesExt, FiniteSetsExt, ScanOutcome

CONSTANTS
  Plan,              \* the enabled roots, each the sequence of its files
  Archive,           \* Archive[f]: the archive that f is a member of, or 0
  Remote,            \* indices of the roots on a remote file system
  Chunk,             \* ARCHIVE_SCAN_CHUNK_SIZE
  Interval,          \* COMMIT_INTERVAL
  ArchiveInterval,   \* ARCHIVE_COMMIT_INTERVAL
  MinChanges,        \* scan_commit_min_changes
  WalInterval,       \* WAL_CHECKPOINT_INTERVAL
  MaxRuns, MaxEdits, \* bounds: workers started, changes made to the files
  Happens            \* what may happen besides a plain scan, see the ASSUME

RootIds == DOMAIN Plan
Files == UNION {ToSet(Plan[r]) : r \in RootIds}

ASSUME RunAssumption ==
  /\ Plan \in Seq(Seq(Files))
  /\ Chunk \in Nat \ {0} /\ MinChanges \in Nat \ {0}
  /\ {Interval, ArchiveInterval, WalInterval} \subseteq Nat \ {0}
  /\ MaxRuns \in Nat /\ MaxEdits \in Nat
  /\ Happens \subseteq {"all", "resume", "force", "fail", "raise", "cancel",
                        "crash", "edit", "remove"}

VARIABLES
  disk,      \* the files that exist
  db,        \* the record of each file as the worker's connection sees it
  stored,    \* the record of each file as committed
  saved,     \* scan_state.json: the root it offers to resume, or 0
  job,       \* FileBasedJob: [running, phase, cancelled]
  pc,        \* where the worker is, "off" when there is none
  args,      \* its arguments: [root, resume, force]; root 0 is scan-all
  todo,      \* the roots not finished, the current one first
  queue,     \* file_queue of the current root
  count,     \* files handled in the current root
  mark,      \* last_commit_count
  delta,     \* _write_delta, at most MinChanges
  timed,     \* last_commit_at is set
  walAt,     \* history: count at the last WAL checkpoint
  touched,   \* history: files edited or removed since the worker started
  failed,    \* history: files that this worker failed to scan
  broken,    \* history: an exception or a dead remote ended a root
  runs, edits

fileVars == <<disk, db, stored>>
loopVars == <<queue, count, mark, delta, timed, walAt>>
history  == <<touched, failed, broken>>
vars == <<fileVars, saved, job, pc, args, todo, loopVars, history, runs, edits>>

(* A file has no row; a row of an older version of the file; a row with    *)
(* tags but no template; a row of this version without its metadata; all.  *)
Records == {"none", "stale", "half", "bare", "full"}
Phases  == {"busy", "complete", "cancelled", "error"}
PCs     == {"off", "next", "root", "listed", "loop", "final", "cleanup"}

Init ==
  /\ disk = Files
  /\ stored \in [Files -> {"none", "stale", "full"}] /\ db = stored
  /\ saved = 0 /\ pc = "off" /\ runs = 0 /\ edits = 0
  /\ job = [running |-> FALSE, phase |-> "complete", cancelled |-> FALSE]
  /\ args = [root |-> 0, resume |-> FALSE, force |-> FALSE]
  /\ todo = <<>> /\ queue = <<>>
  /\ count = 0 /\ mark = 0 /\ delta = 0 /\ timed = FALSE /\ walAt = 0
  /\ touched = {} /\ failed = {} /\ broken = FALSE
-----------------------------------------------------------------------------
(* Wrong variants of definitions below, for the mutation checks.           *)
DueByModulo(c, interval) == c % interval = 0
SavedFile == saved' = Head(queue)
NotSaved == UNCHANGED saved
NoLastCommit == UNCHANGED stored
NothingTaken == 0
Restarted == [job EXCEPT !.running = TRUE, !.phase = "busy"]

(***************************************************************************)
(* scan_one and scan_batch.  A file that is gone raises.  A file whose row *)
(* is of its present version is skipped, except under force and, for files *)
(* outside archives, to repair a row with tags but no template.  A scan    *)
(* that fails keeps what it wrote to the connection before it failed.      *)
(***************************************************************************)
Skipped(f) ==
  /\ f \in disk /\ ~args.force
  /\ db[f] \in {"bare", "full"} \/ (db[f] = "half" /\ Archive[f] # 0)

Partial(f) ==
  CASE db[f] = "none" -> {"none", "half", "bare"}
    [] db[f] = "half" -> {"half"}
    [] OTHER          -> {db[f], "bare"}

Results(f) ==
  IF f \notin disk \/ Skipped(f) THEN {db[f]}
  ELSE {"full"} \cup IF "fail" \in Happens THEN Partial(f) ELSE {}

(* The head of the queue, with the members of the same archive behind it.  *)
BatchSize ==
  IF Archive[Head(queue)] = 0 THEN 1
  ELSE Max({1} \cup {n \in 2..Chunk : n <= Len(queue)
              /\ \A i \in 1..n : Archive[queue[i]] = Archive[Head(queue)]})

BatchInterval == IF Archive[Head(queue)] = 0 THEN Interval ELSE ArchiveInterval
-----------------------------------------------------------------------------
(* A worker starts on one root, on all of them, or resumes the saved one.  *)
(* The callers that start afresh have cleared the saved state, and a       *)
(* resumed scan is never a forced one.                                     *)
Start(root, roots, resume) ==
  /\ pc = "off" /\ runs < MaxRuns
  /\ runs' = runs + 1 /\ pc' = "next" /\ todo' = roots
  /\ \E force \in {FALSE} \cup IF resume THEN {} ELSE {"force" \in Happens} :
       args' = [root |-> root, resume |-> resume, force |-> force]
  /\ job' = [running |-> TRUE, phase |-> "busy", cancelled |-> FALSE]
  /\ saved' = IF resume THEN saved ELSE 0
  /\ touched' = {} /\ failed' = {} /\ broken' = FALSE
  /\ UNCHANGED <<fileVars, loopVars, edits>>

StartOne == \E r \in RootIds : Start(r, <<r>>, FALSE)
StartAll == "all" \in Happens /\ Start(0, [r \in RootIds |-> r], FALSE)
Resume   == "resume" \in Happens /\ saved # 0 /\ Start(saved, <<saved>>, TRUE)

(* job.update sets the phase, also of a job that has failed before.        *)
Updated == [job EXCEPT !.phase = "busy"]
Ended(phase) == [job EXCEPT !.running = FALSE, !.phase = phase]

(* The next root.  Only scan-all looks for a cancellation here.            *)
StopsHere == args.root = 0 /\ job.cancelled

NextRoot ==
  /\ pc = "next" /\ todo # <<>> /\ ~StopsHere
  /\ pc' = "root" /\ job' = Updated
  /\ UNCHANGED <<fileVars, saved, args, todo, loopVars, history, runs, edits>>

StopBetweenRoots ==
  /\ pc = "next" /\ todo # <<>> /\ StopsHere
  /\ pc' = "off" /\ todo' = <<>> /\ job' = Ended("cancelled")
  /\ UNCHANGED <<fileVars, saved, args, loopVars, history, runs, edits>>

(* After its last root a scan-all that is not cancelled looks for orphans. *)
CleansUp == args.root = 0 /\ ~job.cancelled

CleanUp ==
  /\ pc = "next" /\ todo = <<>> /\ CleansUp
  /\ pc' = "cleanup" /\ job' = Updated
  /\ UNCHANGED <<fileVars, saved, args, todo, loopVars, history, runs, edits>>

(* The end of the worker.  A job that runs no more is left as it is, and   *)
(* scan-all does not ask again whether it was cancelled.                   *)
Closed(phase) == IF job.running THEN Ended(phase) ELSE job

End ==
  /\ pc = "cleanup" \/ (pc = "next" /\ todo = <<>> /\ ~CleansUp)
  /\ pc' = "off"
  /\ job' = Closed(IF job.cancelled /\ args.root # 0 THEN "cancelled" ELSE "complete")
  /\ UNCHANGED <<fileVars, saved, args, todo, loopVars, history, runs, edits>>

(* Leaving run_scan_background: it closes the connection, which rolls back.*)
LeaveRoot == pc' = "next" /\ todo' = Tail(todo) /\ queue' = <<>> /\ db' = stored'

(* An unreachable remote root fails the job, whoever owns it.              *)
Unreachable ==
  /\ pc = "root" /\ Head(todo) \in Remote
  /\ job' = Ended("error") /\ broken' = TRUE
  /\ UNCHANGED <<disk, stored, saved, args, count, mark, delta, timed, walAt,
                 touched, failed, runs, edits>>
  /\ LeaveRoot

(* Enumeration, then the filter of a resumed scan, which reads what other  *)
(* connections see: the committed rows.                                    *)
Filtered(r) ==
  IF args.resume THEN {f \in ToSet(Plan[r]) : stored[f] = "none"}
  ELSE ToSet(Plan[r])

(* The places of a listing that are left, in its order.                    *)
Ascending(places) ==
  {e \in [1..Cardinality(places) -> places] :
     ToSet(e) = places /\ \A i, j \in DOMAIN e : i < j => e[i] < e[j]}

Enumerate ==
  /\ pc = "root" /\ pc' = "listed"
  /\ LET listing == Plan[Head(todo)]
         left == {i \in DOMAIN listing : listing[i] \in disk \cap Filtered(Head(todo))}
     IN \E e \in Ascending(left) : queue' = [i \in DOMAIN e |-> listing[e[i]]]
  /\ job' = Updated
  /\ UNCHANGED <<fileVars, saved, args, todo, count, mark, delta, timed, walAt,
                 history, runs, edits>>

(* Cancelled while listing: the state is cleared.  Nothing to scan: the    *)
(* function returns and leaves the state file alone.                       *)
NothingToScan ==
  /\ pc = "listed" /\ (job.cancelled \/ queue = <<>>)
  /\ saved' = IF job.cancelled THEN 0 ELSE saved
  /\ UNCHANGED <<disk, stored, job, args, count, mark, delta, timed, walAt,
                 history, runs, edits>>
  /\ LeaveRoot

StateSaved == saved' = Head(todo)

EnterLoop ==
  /\ pc = "listed" /\ ~job.cancelled /\ queue # <<>>
  /\ pc' = "loop" /\ StateSaved /\ job' = Updated
  /\ count' = 0 /\ mark' = 0 /\ delta' = 0 /\ timed' = FALSE /\ walAt' = 0
  /\ UNCHANGED <<fileVars, args, todo, queue, history, runs, edits>>
-----------------------------------------------------------------------------
(* commit_now and commit_if_due, when d rows were written since the last   *)
(* commit.  count may jump by the size of a batch.                         *)
Due(c, interval) == c - mark >= interval

CommitNow(d, c) ==
  /\ mark' = c /\ delta' = 0
  /\ IF d = 0 THEN UNCHANGED <<stored, timed>>
     ELSE stored' = db' /\ timed' = TRUE

CommitIfDue(d, c) ==
  \/ /\ ~Due(c, BatchInterval)
     /\ delta' = d /\ UNCHANGED <<stored, mark, timed>>
  \/ /\ Due(c, BatchInterval)           \* few rows and a recent commit
     /\ d \in 1..(MinChanges - 1) /\ timed
     /\ mark' = c /\ delta' = d /\ UNCHANGED <<stored, timed>>
  \/ Due(c, BatchInterval) /\ CommitNow(d, c)

(* The rows written, told apart up to MinChanges.  A file that changed     *)
(* wrote a row at least; one that did not may have got its missing hash.   *)
Written(changed) ==
  {d \in 0..MinChanges : d >= delta + Cardinality(changed) \/ d = MinChanges}

(* One iteration of the loop: a batch, the commit, the periodic work.  The *)
(* state saved every STATE_SAVE_INTERVAL files names the same root.        *)
ScanBatch ==
  /\ pc = "loop" /\ queue # <<>> /\ ~job.cancelled
  /\ LET members == {queue[i] : i \in 1..BatchSize}
         c == count + BatchSize
     IN /\ \E res \in [members -> Records] :
             /\ \A f \in members : res[f] \in Results(f)
             /\ db' = [f \in Files |-> IF f \in members THEN res[f] ELSE db[f]]
        /\ failed' = failed \cup {f \in members : db'[f] # "full" /\ ~Skipped(f)}
        /\ count' = c /\ queue' = SubSeq(queue, BatchSize + 1, Len(queue))
        /\ \E d \in Written({f \in members : db'[f] # db[f]}) : CommitIfDue(d, c)
        /\ walAt' = IF c % WalInterval = 0 THEN c ELSE walAt
  /\ UNCHANGED <<disk, saved, job, pc, args, todo, touched, broken, runs, edits>>

(* The cancellation is seen at the top of the loop: commit, save the state,*)
(* return; the caller clears the state it has just saved.                  *)
CancelledInLoop ==
  /\ pc = "loop" /\ queue # <<>> /\ job.cancelled
  /\ stored' = db /\ saved' = 0 /\ LeaveRoot
  /\ UNCHANGED <<disk, job, args, count, mark, delta, timed, walAt, history,
                 runs, edits>>

LastCommit == stored' = db

LoopDone ==
  /\ pc = "loop" /\ queue = <<>> /\ pc' = "final"
  /\ LastCommit /\ db' = stored'
  /\ UNCHANGED <<disk, saved, job, args, todo, loopVars, history, runs, edits>>

(* finalize: rows of missing files are deleted, and the state is cleared.  *)
Finalize ==
  /\ pc = "final" /\ job' = Updated
  /\ stored' = [f \in Files |-> IF f \in ToSet(Plan[Head(todo)]) \ disk
                                THEN "none" ELSE stored[f]]
  /\ saved' = 0 /\ LeaveRoot
  /\ UNCHANGED <<disk, args, count, mark, delta, timed, walAt, history, runs, edits>>

(* An exception, for one of a commit that finds the database locked, is    *)
(* caught by run_scan_background: clear the state, update the message.     *)
Raise ==
  /\ "raise" \in Happens /\ pc \in {"root", "loop"}
  /\ saved' = 0 /\ broken' = TRUE
  /\ UNCHANGED <<disk, stored, job, args, count, mark, delta, timed, walAt,
                 touched, failed, runs, edits>>
  /\ LeaveRoot

(* An exception while it looks for orphans fails the scan-all.             *)
CleanUpFails ==
  /\ "raise" \in Happens /\ pc = "cleanup" /\ pc' = "off"
  /\ job' = Closed("error") /\ broken' = TRUE
  /\ UNCHANGED <<fileVars, saved, args, todo, loopVars, touched, failed, runs, edits>>
-----------------------------------------------------------------------------
Cancel ==
  /\ "cancel" \in Happens /\ pc # "off" /\ ~job.cancelled
  /\ job' = [job EXCEPT !.cancelled = TRUE]
  /\ UNCHANGED <<fileVars, saved, pc, args, todo, loopVars, history, runs, edits>>

(* The worker is killed: what was not committed is gone.                   *)
Crash ==
  /\ "crash" \in Happens /\ pc # "off"
  /\ pc' = "off" /\ db' = stored /\ todo' = <<>> /\ queue' = <<>>
  /\ UNCHANGED <<disk, stored, saved, job, args, count, mark, delta, timed, walAt,
                 history, runs, edits>>

Touch(f) ==
  /\ edits < MaxEdits /\ edits' = edits + 1
  /\ f \in disk /\ touched' = touched \cup {f}
  /\ UNCHANGED <<saved, job, pc, args, todo, loopVars, failed, broken, runs>>

Outdated(records, f) ==
  [records EXCEPT ![f] = IF @ = "none" THEN "none" ELSE "stale"]

EditFile(f) ==
  /\ "edit" \in Happens /\ Touch(f)
  /\ db' = Outdated(db, f) /\ stored' = Outdated(stored, f) /\ UNCHANGED disk

RemoveFile(f) ==
  /\ "remove" \in Happens /\ Touch(f)
  /\ disk' = disk \ {f} /\ UNCHANGED <<db, stored>>

WorkerStep ==
  \/ NextRoot \/ StopBetweenRoots \/ CleanUp \/ End \/ Unreachable \/ Enumerate
  \/ NothingToScan \/ EnterLoop \/ ScanBatch \/ CancelledInLoop \/ LoopDone
  \/ Finalize

Next ==
  \/ StartOne \/ StartAll \/ Resume \/ WorkerStep \/ Raise \/ CleanUpFails
  \/ Cancel \/ Crash
  \/ \E f \in Files : EditFile(f) \/ RemoveFile(f)

Spec == Init /\ [][Next]_vars

(* The worker process is scheduled; it works on finitely many files.       *)
FairSpec == Spec /\ WF_vars(WorkerStep)
-----------------------------------------------------------------------------
(* What the server sees of the worker.  A scan of one root whose job has   *)
(* failed is over, although the process still has to return.               *)
Scanning == pc # "off" /\ (args.root = 0 \/ job.running)
Shown ==
  IF job.phase \in {"error", "cancelled"} /\ ~job.running THEN job.phase
  ELSE Display(~job.running)

Process == INSTANCE ScanProcess WITH
  Roots <- RootIds, All <- 0, None <- 0,
  busy <- Scanning, root <- args.root, cancelled <- job.cancelled,
  failed <- Scanning /\ ~job.running, progress <- Shown, saved <- saved

TypeOK ==
  /\ disk \subseteq Files
  /\ db \in [Files -> Records] /\ stored \in [Files -> Records]
  /\ saved \in RootIds \cup {0}
  /\ job \in [running : BOOLEAN, phase : Phases, cancelled : BOOLEAN]
  /\ pc \in PCs
  /\ args \in [root : RootIds \cup {0}, resume : BOOLEAN, force : BOOLEAN]
  /\ todo \in Seq(RootIds) /\ queue \in Seq(Files)
  /\ count \in Nat /\ mark \in Nat /\ delta \in 0..MinChanges
  /\ timed \in BOOLEAN /\ walAt \in Nat
  /\ touched \subseteq Files /\ failed \subseteq Files /\ broken \in BOOLEAN
  /\ runs \in Nat /\ edits \in Nat

(* What a kill at the top of the loop can lose is bounded by the commit    *)
(* settings, although a due commit of few rows is put off and count jumps  *)
(* by the size of an archive batch.                                        *)
Uncommitted == {f \in Files : db[f] # stored[f]}
BoundedLoss ==
  Cardinality(Uncommitted) <= MinChanges - 1 + Max({Interval, ArchiveInterval}) - 1

(* A worker killed while it scans or finalizes leaves a state file from    *)
(* which the root it was working on can be resumed.                        *)
Resumable == pc \in {"loop", "final"} => saved = Head(todo)

(* A worker that reports completion and met no failure has recorded every  *)
(* file in the database for good: also after earlier workers were killed,  *)
(* and when it scanned only what the filter of a resumed scan left over.   *)
Finished == /\ pc = "off" /\ runs > 0 /\ job.phase = "complete"
            /\ ~job.cancelled /\ ~broken
Covered == {f \in disk \ (touched \cup failed) :
              \E r \in RootIds : args.root \in {0, r} /\ f \in ToSet(Plan[r])}
NothingSkipped ==
  Finished => \A f \in Covered :
                stored[f] \notin IF args.resume THEN {"none"} ELSE {"none", "stale"}

(* The worker is one of those that the server is written for: also across  *)
(* roots that fail, cancellations, exceptions and kills, progress.json     *)
(* shows the end of a scan that has not ended only after a root has failed *)
(* the job of all, a cancelled scan of one root is never shown as complete *)
(* and the resume state names a folder of the scan.                        *)
IsProcess == Process!Spec

(* Each step of a worker brings it closer to its end, and neither an       *)
(* exception nor a cancellation nor a change of the files takes it back:   *)
(* fewer roots are left, or the root is further on, or its queue shorter.  *)
Places == [next |-> 5, root |-> 4, listed |-> 3, loop |-> 2, final |-> 1, cleanup |-> 0]
Closer ==
  \/ Len(todo') < Len(todo)
  \/ /\ Len(todo') = Len(todo)
     /\ \/ Places[pc'] < Places[pc]
        \/ pc' = pc /\ Len(queue') < Len(queue)
GetsCloser ==
  [][pc # "off" /\ pc' # "off" =>
       Closer \/ (UNCHANGED <<pc, todo, queue>> /\ ~WorkerStep)]_vars

(* Every worker ends.                                                      *)
RunEnds == pc # "off" ~> pc = "off"
-----------------------------------------------------------------------------
(* What a docstring, a comment or the documentation says and is not so.    *)

(* "Files whose mtime/size changed are re-scan evaluated inside scan_one"  *)
(* (runtime_prepare.py line 95): a resumed scan does not miss them.        *)
ResumeSeesChanges ==
  Finished /\ args.resume => \A f \in Covered : stored[f] # "stale"

(* SIGTERM lets the worker "save its resume position, and exit" (scan.md   *)
(* line 70).                                                               *)
CancelKeepsPosition ==
  [][pc = "loop" /\ pc' = "next" /\ job.cancelled /\ queue # <<>> => saved' # 0]_vars

(* "the job stays running=True between roots" (runtime.py line 38).        *)
RunningBetweenRoots == pc # "off" => job.running

(* The bridge calls a job complete that runs no more and whose phase is    *)
(* neither error nor cancelled.  An exception is to end in job.fail        *)
(* (scan_worker_job.py line 158), but never reaches that handler.          *)
FailureReported == pc = "off" /\ broken => job.phase \in {"error", "cancelled"}

(* "a WAL checkpoint is automatically performed every 2,000 files"         *)
(* (scan.md line 30), give or take one batch.                              *)
WalCheckpointed == count - walAt < WalInterval + Chunk

(* "Delete state file on scan completion/reset" (scan_state.py line 79).   *)
NoStaleOffer == Finished => saved = 0

(* Files that failed are recorded "so they can be reviewed and retried"    *)
(* (scan_errors.py line 4): the next full scan that reports success has    *)
(* their metadata.                                                         *)
FailuresRetried == Finished /\ ~args.resume => \A f \in Covered : stored[f] = "full"
=============================================================================
