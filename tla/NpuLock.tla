------------------------------- MODULE NpuLock -------------------------------
(***************************************************************************)
(* core/hailo_device_core/hailo_npu_lock.py: the lock that keeps two users *)
(* of the Hailo NPU apart.  A user is one HailoNpuLock object; it lives in *)
(* a process.  The lock is flock on a file that also holds the pid of its  *)
(* last holder; whoever wants the lock first removes the file if that pid  *)
(* is dead.  A release leaves file and pid.  On Windows the lock is taken  *)
(* on a second file, the guard, which cannot be removed while it is open.  *)
(***************************************************************************)
EXTENDS Naturals, FiniteSets

CONSTANTS Users,         \* lock objects
          Procs,         \* the processes they live in
          ProcOf,        \* Users -> Procs
          NoUser, NoPid,
          OldPid,        \* the pid an earlier process left in the file
          MaxFiles,      \* bound on the files created
          MaxFailures    \* bound on the writes of the pid that fail (disk full)

ASSUME LockAssumption ==
  /\ NoUser \notin Users
  /\ OldPid \notin Procs /\ NoPid \notin Procs /\ NoPid # OldPid
  /\ ProcOf \in [Users -> Procs]
  /\ MaxFiles \in Nat \ {0} /\ MaxFailures \in Nat

VARIABLES windows,       \* os.name == "nt"
          alive,         \* processes that run
          file,          \* the file the path of the lock leads to, 0 if none
          created,       \* files created so far
          pid,           \* pid[f]: the pid file f holds; see Slot
          owner,         \* owner[f]: who has locked file f
          pc, fd,        \* where a user is; the file it has open, 0 if none
          mode,          \* "try": one attempt; "wait": acquire; "late": timed out
          seen,          \* the pid it read
          failures,      \* history: writes of the pid that failed
          ended,         \* history: a process has ended, its pid may be recorded
          overlapped     \* history: two acquisitions overlapped

vars == <<windows, alive, file, created, pid, owner, pc, fd, mode, seen,
          failures, ended, overlapped>>
ghosts == <<failures, ended, overlapped>>

Pids == Procs \cup {OldPid, NoPid}
Acquiring == {"read", "sweep", "sweepGuard", "open", "lock", "truncate", "note"}
PCs == {"idle", "held"} \cup Acquiring

(* POSIX keeps the pid in the locked file itself, Windows in a file of its  *)
(* own, which is slot 0 here.  NoPid also stands for an empty or no file.   *)
Slot(f) == IF windows THEN 0 ELSE f

Init ==
  /\ windows \in BOOLEAN /\ alive = Procs
  /\ file \in {0, 1} /\ created = file
  /\ pid = [f \in 0..MaxFiles |-> IF file = 1 /\ f = Slot(1) THEN OldPid ELSE NoPid]
  /\ owner = [f \in 1..MaxFiles |-> NoUser]
  /\ pc = [u \in Users |-> "idle"] /\ fd = [u \in Users |-> 0]
  /\ mode = [u \in Users |-> "try"] /\ seen = [u \in Users |-> NoPid]
  /\ failures = 0 /\ ended = (file = 1) /\ overlapped = FALSE

At(u, place) == pc[u] = place /\ ProcOf[u] \in alive
Goto(u, place) == pc' = [pc EXCEPT ![u] = place]

(* The call has returned or raised. *)
Leave(u, place) == Goto(u, place) /\ mode' = [mode EXCEPT ![u] = "try"]

(* Wrong variants of the definitions below, for the mutation checks.       *)
NeverLate(u) == FALSE
KeepLocked(u) == owner' = owner
AnyPid(u) == seen[u] # NoPid
UseClosed(u) == Goto(u, "lock") /\ UNCHANGED mode

(* Both acquire and try_acquire begin with _cleanup_stale_lock.            *)
Request(u, blocks) ==
  /\ At(u, "idle") /\ Goto(u, "read")
  /\ mode' = [mode EXCEPT ![u] = IF blocks THEN "wait" ELSE "try"]
  /\ overlapped' = (overlapped \/ \E v \in Users : pc[v] \in Acquiring)
  /\ UNCHANGED <<windows, alive, file, created, pid, owner, fd, seen, failures, ended>>

ReadPid(u) ==
  /\ At(u, "read") /\ Goto(u, "sweep")
  /\ seen' = [seen EXCEPT ![u] = pid[Slot(file)]]
  /\ UNCHANGED <<windows, alive, file, created, pid, owner, fd, mode, ghosts>>

(* The pid read a while ago is tested now, and whatever file the path leads *)
(* to by now is removed.                                                    *)
Dead(u) == seen[u] # NoPid /\ seen[u] \notin alive

Sweep(u) ==
  /\ At(u, "sweep")
  /\ \/ ~Dead(u) /\ Goto(u, "open") /\ UNCHANGED <<file, pid>>
     \/ Dead(u) /\ ~windows /\ Goto(u, "open") /\ file' = 0 /\ UNCHANGED pid
     \/ Dead(u) /\ windows /\ Goto(u, "sweepGuard")
        /\ pid' = [pid EXCEPT ![0] = NoPid] /\ UNCHANGED file
  /\ seen' = [seen EXCEPT ![u] = NoPid]
  /\ UNCHANGED <<windows, alive, created, owner, fd, mode, ghosts>>

(* Windows does not remove a file that is open.                            *)
GuardAfter == IF \E v \in Users : fd[v] = file THEN file ELSE 0

SweepGuard(u) ==
  /\ At(u, "sweepGuard") /\ Goto(u, "open")
  /\ file' = GuardAfter
  /\ UNCHANGED <<windows, alive, created, pid, owner, fd, mode, seen, ghosts>>

(* acquire looks at its timeout, measured from the end of the cleanup,     *)
(* before every attempt; try_acquire has one attempt.                      *)
TimedOut(u) == mode[u] = "late"

Clock(u) ==
  /\ mode[u] = "wait" /\ pc[u] \in {"open", "lock"}
  /\ mode' = [mode EXCEPT ![u] = "late"]
  /\ UNCHANGED <<windows, alive, file, created, pid, owner, pc, fd, seen, ghosts>>

GiveUp(u) ==
  /\ At(u, "open") /\ TimedOut(u) /\ Leave(u, "idle")
  /\ UNCHANGED <<windows, alive, file, created, pid, owner, fd, seen, ghosts>>

Open(u) ==
  /\ At(u, "open") /\ ~TimedOut(u) /\ Goto(u, "lock")
  /\ \/ file # 0 /\ UNCHANGED <<file, created>>
     \/ file = 0 /\ created < MaxFiles /\ created' = created + 1 /\ file' = created'
  /\ fd' = [fd EXCEPT ![u] = file']
  /\ UNCHANGED <<windows, alive, pid, owner, mode, seen, ghosts>>

(* After an attempt that failed.                                           *)
Retry(u) ==
  IF mode[u] = "try" THEN Leave(u, "idle") ELSE Goto(u, "open") /\ UNCHANGED mode

Flock(u) ==
  /\ At(u, "lock")
  /\ \/ /\ owner[fd[u]] = NoUser
        /\ owner' = [owner EXCEPT ![fd[u]] = u]
        /\ Goto(u, "truncate") /\ UNCHANGED <<fd, mode>>
     \/ /\ owner[fd[u]] # NoUser
        /\ fd' = [fd EXCEPT ![u] = 0]
        /\ Retry(u) /\ UNCHANGED owner
  /\ UNCHANGED <<windows, alive, file, created, pid, seen, ghosts>>

(* _write_lock_pid_fd, or write_text on Windows: empty the file, write.     *)
Truncate(u) ==
  /\ At(u, "truncate") /\ Goto(u, "note")
  /\ pid' = [pid EXCEPT ![Slot(fd[u])] = NoPid]
  /\ UNCHANGED <<windows, alive, file, created, owner, fd, mode, seen, ghosts>>

Note(u) ==
  /\ At(u, "note") /\ Leave(u, "held")
  /\ pid' = [pid EXCEPT ![Slot(fd[u])] = ProcOf[u]]
  /\ UNCHANGED <<windows, alive, file, created, owner, fd, seen, ghosts>>

(* A failed write closes the file on Windows, which unlocks it, and counts  *)
(* as a failed attempt.  On POSIX it is a RuntimeError, which passes the    *)
(* handler that closes the file: the call has failed, nobody remembers the  *)
(* descriptor, and the lock stays taken until the process ends.             *)
AfterFailure(u) ==
  owner' = IF windows THEN [owner EXCEPT ![fd[u]] = NoUser] ELSE owner

NoteFails(u) ==
  /\ At(u, "truncate") \/ At(u, "note")
  /\ failures < MaxFailures /\ failures' = failures + 1
  /\ AfterFailure(u)
  /\ fd' = [fd EXCEPT ![u] = 0]
  /\ IF windows THEN Retry(u) ELSE Leave(u, "idle")
  /\ UNCHANGED <<windows, alive, file, created, pid, seen, ended, overlapped>>

Release(u) ==
  /\ At(u, "held") /\ Goto(u, "idle")
  /\ owner' = [owner EXCEPT ![fd[u]] = NoUser]
  /\ fd' = [fd EXCEPT ![u] = 0]
  /\ UNCHANGED <<windows, alive, file, created, pid, mode, seen, ghosts>>

(* A process ends, killed or not: the system closes its files.             *)
Unlocked(p) ==
  [f \in 1..MaxFiles |->
     IF owner[f] # NoUser /\ ProcOf[owner[f]] = p THEN NoUser ELSE owner[f]]

Die(p) ==
  /\ p \in alive /\ alive' = alive \ {p}
  /\ owner' = Unlocked(p)
  /\ fd' = [u \in Users |-> IF ProcOf[u] = p THEN 0 ELSE fd[u]]
  /\ pc' = [u \in Users |-> IF ProcOf[u] = p THEN "idle" ELSE pc[u]]
  /\ mode' = [u \in Users |-> IF ProcOf[u] = p THEN "try" ELSE mode[u]]
  /\ seen' = [u \in Users |-> IF ProcOf[u] = p THEN NoPid ELSE seen[u]]
  /\ ended' = TRUE
  /\ UNCHANGED <<windows, file, created, pid, failures, overlapped>>

Step(u) ==
  \/ ReadPid(u) \/ Sweep(u) \/ SweepGuard(u) \/ GiveUp(u) \/ Open(u)
  \/ Flock(u) \/ Truncate(u) \/ Note(u)

Next ==
  \/ \E u \in Users :
       \/ \E blocks \in BOOLEAN : Request(u, blocks)
       \/ Step(u) \/ Clock(u) \/ NoteFails(u) \/ Release(u)
  \/ \E p \in Procs : Die(p)

Spec == Init /\ [][Next]_vars

(* The system schedules the threads and time passes; nobody has to release. *)
FairSpec == Spec /\ \A u \in Users : WF_vars(Step(u)) /\ WF_vars(Clock(u))
-----------------------------------------------------------------------------
TypeOK ==
  /\ windows \in BOOLEAN /\ ended \in BOOLEAN /\ overlapped \in BOOLEAN
  /\ alive \subseteq Procs /\ failures \in Nat
  /\ created \in 0..MaxFiles /\ file \in 0..created
  /\ pid \in [0..MaxFiles -> Pids]
  /\ owner \in [1..MaxFiles -> Users \cup {NoUser}]
  /\ pc \in [Users -> PCs] /\ fd \in [Users -> 0..created]
  /\ \A u \in Users : pc[u] \in {"lock", "truncate", "note", "held"} <=> fd[u] # 0
  /\ mode \in [Users -> {"try", "wait", "late"}]
  /\ seen \in [Users -> Pids]

(* "Process-wide exclusion lock" (the docstring, line 40): two users never  *)
(* hold the lock at once.                                                   *)
Exclusion == \A u, v \in Users : pc[u] = "held" /\ pc[v] = "held" => u = v

(* It holds on Windows; on POSIX it holds until a process has ended AND two *)
(* acquisitions have overlapped.  Beyond that, one of them removes the file *)
(* the other has just locked, or locks a file that is removed already.      *)
Calm == windows \/ ~ended \/ ~overlapped
ExclusionIfCalm == Calm => Exclusion

(* Nobody keeps the file locked without knowing it, so that a user who has  *)
(* released the lock, failed or ended blocks nobody.  On POSIX a failed     *)
(* write of the pid breaks this.                                            *)
LockedMeansHeld ==
  windows \/ failures = 0 =>
    \A f \in 1..MaxFiles :
      owner[f] # NoUser => fd[owner[f]] = f /\ pc[owner[f]] \in {"truncate", "note", "held"}

(* A call of acquire or try_acquire returns or raises, whoever holds the    *)
(* lock and for however long.                                               *)
AcquireEnds ==
  \A u \in Users : pc[u] \in Acquiring ~> pc[u] \notin Acquiring

(* Does not hold: the same without the condition on failed writes.          *)
NoLeak ==
  \A f \in 1..MaxFiles :
    owner[f] # NoUser => pc[owner[f]] \in {"truncate", "note", "held"}
=============================================================================
