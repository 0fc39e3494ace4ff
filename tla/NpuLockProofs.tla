---------------------------- MODULE NpuLockProofs ----------------------------
(***************************************************************************)
(* Proofs about the lock of the Hailo NPU, for any number of users and     *)
(* processes.  Exclusion is not inductive: that two users cannot hold the  *)
(* lock follows from all open descriptors leading to the one file that has *)
(* the name, and that from nobody removing a file that is open.            *)
(***************************************************************************)
EXTENDS NpuLock, TLAPS

USE LockAssumption

LEMMA TypeInit == Init => TypeOK
<1> SUFFICES ASSUME Init PROVE TypeOK
  OBVIOUS
<1> USE DEF Init, Slot, Pids, PCs, Acquiring
<1>1. windows \in BOOLEAN /\ ended \in BOOLEAN /\ overlapped \in BOOLEAN
  OBVIOUS
<1>2. alive \subseteq Procs /\ failures \in Nat
  OBVIOUS
<1>3. created \in 0..MaxFiles /\ file \in 0..created
  OBVIOUS
<1>4. pid \in [0..MaxFiles -> Pids]
  OBVIOUS
<1>5. owner \in [1..MaxFiles -> Users \cup {NoUser}]
  OBVIOUS
<1>6. pc \in [Users -> PCs] /\ fd \in [Users -> 0..created]
  BY <1>3
<1>7. \A u \in Users : pc[u] \in {"lock", "truncate", "note", "held"} <=> fd[u] # 0
  OBVIOUS
<1>8. mode \in [Users -> {"try", "wait", "late"}] /\ seen \in [Users -> Pids]
  OBVIOUS
<1>9. QED
  BY <1>1, <1>2, <1>3, <1>4, <1>5, <1>6, <1>7, <1>8 DEF TypeOK

LEMMA TypeStep == TypeOK /\ [Next]_vars => TypeOK'
<1> SUFFICES ASSUME TypeOK, [Next]_vars PROVE TypeOK'
  OBVIOUS
<1> USE DEF TypeOK, At, Goto, Leave, ghosts, Pids, PCs, Acquiring, Slot
<1>1. ASSUME NEW u \in Users, NEW blocks \in BOOLEAN, Request(u, blocks) PROVE TypeOK'
  BY <1>1, SMTT(30) DEF Request
<1>2. ASSUME NEW u \in Users, ReadPid(u) PROVE TypeOK'
  BY <1>2 DEF ReadPid
<1>3. ASSUME NEW u \in Users, Sweep(u) PROVE TypeOK'
  <2>1. CASE ~Dead(u)
    BY <1>3, <2>1 DEF Sweep
  <2>2. CASE Dead(u) /\ ~windows
    <3>1. /\ pc[u] = "sweep" /\ pc' = [pc EXCEPT ![u] = "open"]
          /\ file' = 0 /\ seen' = [seen EXCEPT ![u] = NoPid]
          /\ UNCHANGED <<windows, alive, created, pid, owner, fd, mode, ghosts>>
      BY <1>3, <2>2 DEF Sweep
    <3>2. QED
      BY <3>1
  <2>3. CASE Dead(u) /\ windows
    BY <1>3, <2>3 DEF Sweep
  <2>4. QED
    BY <2>1, <2>2, <2>3
<1>4. ASSUME NEW u \in Users, SweepGuard(u) PROVE TypeOK'
  BY <1>4 DEF SweepGuard, GuardAfter
<1>5. ASSUME NEW u \in Users, GiveUp(u) PROVE TypeOK'
  BY <1>5 DEF GiveUp
<1>6. ASSUME NEW u \in Users, Open(u) PROVE TypeOK'
  BY <1>6 DEF Open
<1>7. ASSUME NEW u \in Users, Flock(u) PROVE TypeOK'
  <2>0. fd[u] \in 1..MaxFiles /\ pc[u] = "lock"
    BY <1>7 DEF Flock
  <2>1. CASE owner[fd[u]] = NoUser
    <3>1. /\ owner' = [owner EXCEPT ![fd[u]] = u] /\ pc' = [pc EXCEPT ![u] = "truncate"]
          /\ UNCHANGED <<windows, alive, file, created, pid, fd, mode, seen, ghosts>>
      BY <1>7, <2>1 DEF Flock
    <3>2. QED
      BY <2>0, <3>1
  <2>2. CASE owner[fd[u]] # NoUser /\ mode[u] = "try"
    <3>1. /\ fd' = [fd EXCEPT ![u] = 0] /\ pc' = [pc EXCEPT ![u] = "idle"]
          /\ mode' = [mode EXCEPT ![u] = "try"]
          /\ UNCHANGED <<windows, alive, file, created, pid, owner, seen, ghosts>>
      BY <1>7, <2>2 DEF Flock, Retry
    <3>2. QED
      BY <2>0, <3>1
  <2>3. CASE owner[fd[u]] # NoUser /\ mode[u] # "try"
    <3>1. /\ fd' = [fd EXCEPT ![u] = 0] /\ pc' = [pc EXCEPT ![u] = "open"]
          /\ UNCHANGED <<windows, alive, file, created, pid, owner, mode, seen, ghosts>>
      BY <1>7, <2>3 DEF Flock, Retry
    <3>2. QED
      BY <2>0, <3>1
  <2>4. QED
    BY <2>1, <2>2, <2>3
<1>8. ASSUME NEW u \in Users, Truncate(u) PROVE TypeOK'
  BY <1>8 DEF Truncate
<1>9. ASSUME NEW u \in Users, Note(u) PROVE TypeOK'
  BY <1>9 DEF Note
<1>10. ASSUME NEW u \in Users, Clock(u) PROVE TypeOK'
  BY <1>10 DEF Clock
<1>11. ASSUME NEW u \in Users, NoteFails(u) PROVE TypeOK'
  <2>0. /\ fd[u] \in 1..MaxFiles /\ pc[u] \in {"truncate", "note"} /\ ProcOf[u] \in alive
        /\ fd' = [fd EXCEPT ![u] = 0] /\ failures' = failures + 1
        /\ UNCHANGED <<windows, alive, file, created, pid, seen, ended, overlapped>>
    BY <1>11 DEF NoteFails
  <2>1. CASE ~windows
    <3>1. /\ owner' = owner /\ pc' = [pc EXCEPT ![u] = "idle"]
          /\ mode' = [mode EXCEPT ![u] = "try"]
      BY <1>11, <2>1 DEF NoteFails, AfterFailure
    <3>2. QED
      BY <2>0, <2>1, <3>1
  <2>2. CASE windows /\ mode[u] = "try"
    <3>1. /\ owner' = [owner EXCEPT ![fd[u]] = NoUser] /\ pc' = [pc EXCEPT ![u] = "idle"]
          /\ mode' = [mode EXCEPT ![u] = "try"]
      BY <1>11, <2>2 DEF NoteFails, AfterFailure, Retry
    <3>2. QED
      BY <2>0, <2>2, <3>1
  <2>3. CASE windows /\ mode[u] # "try"
    <3>1. /\ owner' = [owner EXCEPT ![fd[u]] = NoUser] /\ pc' = [pc EXCEPT ![u] = "open"]
          /\ mode' = mode
      BY <1>11, <2>3 DEF NoteFails, AfterFailure, Retry
    <3>2. QED
      BY <2>0, <2>3, <3>1
  <2>4. QED
    BY <2>1, <2>2, <2>3
<1>12. ASSUME NEW u \in Users, Release(u) PROVE TypeOK'
  BY <1>12 DEF Release
<1>13. ASSUME NEW p \in Procs, Die(p) PROVE TypeOK'
  BY <1>13 DEF Die, Unlocked
<1>14. ASSUME UNCHANGED vars PROVE TypeOK'
  BY <1>14 DEF vars
<1>15. QED
  BY <1>1, <1>2, <1>3, <1>4, <1>5, <1>6, <1>7, <1>8, <1>9, <1>10, <1>11, <1>12,
     <1>13, <1>14 DEF Next, Step

(* The state of the lock is well-formed; a user has a file open exactly     *)
(* between open and close.                                                  *)
THEOREM TypeCorrect == Spec => []TypeOK
BY TypeInit, TypeStep, PTL DEF Spec
-----------------------------------------------------------------------------
(* What is true of each user alone, and of the histories.                   *)
UserInv ==
  /\ \A u \in Users :
       /\ ProcOf[u] \notin alive => pc[u] = "idle"
       /\ pc[u] \in {"truncate", "note", "held"} => owner[fd[u]] = u
       /\ seen[u] # NoPid => pc[u] = "sweep"
       /\ pc[u] = "sweepGuard" => windows
       /\ ~windows /\ pc[u] = "held" => pid[fd[u]] = ProcOf[u]
  /\ ~ended => /\ alive = Procs
               /\ \A f \in 0..MaxFiles : pid[f] # OldPid
               /\ \A u \in Users : seen[u] # OldPid
  /\ ~overlapped => \A u, v \in Users :
                      pc[u] \in Acquiring /\ pc[v] \in Acquiring => u = v

(* While nothing has gone wrong, every open descriptor leads to the file    *)
(* that has the name, and who looks at its pid while somebody holds it sees *)
(* the pid of the holder.                                                   *)
Current == \A u \in Users : fd[u] # 0 => fd[u] = file
SeesHolder ==
  \A u, h \in Users :
    pc[u] = "sweep" /\ pc[h] = "held" => seen[u] = ProcOf[h]
FileInv ==
  /\ Calm => Current
  /\ ~windows /\ ~overlapped => SeesHolder

IInv == TypeOK /\ UserInv /\ FileInv /\ LockedMeansHeld

LEMMA InitIInv == Init => IInv
<1> SUFFICES ASSUME Init PROVE IInv
  OBVIOUS
<1>1. TypeOK
  BY TypeInit
<1>2. UserInv
  BY DEF Init, UserInv, Slot, Acquiring
<1>3. FileInv
  BY DEF Init, FileInv, Current, SeesHolder
<1>4. LockedMeansHeld
  BY DEF Init, LockedMeansHeld
<1>5. QED
  BY <1>1, <1>2, <1>3, <1>4 DEF IInv

LEMMA UserStep == TypeOK /\ UserInv /\ [Next]_vars => UserInv'
<1> SUFFICES ASSUME TypeOK, UserInv, [Next]_vars PROVE UserInv'
  OBVIOUS
<1> USE DEF TypeOK, UserInv, At, Goto, Leave, ghosts, Pids, PCs, Acquiring, Slot
<1>1. ASSUME NEW u \in Users, NEW blocks \in BOOLEAN, Request(u, blocks) PROVE UserInv'
  <2>1. /\ pc[u] = "idle" /\ ProcOf[u] \in alive /\ pc' = [pc EXCEPT ![u] = "read"]
        /\ UNCHANGED <<windows, alive, file, created, pid, owner, fd, seen, failures, ended>>
        /\ ~overlapped' => ~overlapped /\ \A v \in Users : pc[v] \notin Acquiring
    BY <1>1 DEF Request
  <2>2. QED
    BY <2>1
<1>2. ASSUME NEW u \in Users, ReadPid(u) PROVE UserInv'
  BY <1>2 DEF ReadPid
<1>3. ASSUME NEW u \in Users, Sweep(u) PROVE UserInv'
  <2>1. CASE ~Dead(u)
    BY <1>3, <2>1 DEF Sweep
  <2>2. CASE Dead(u) /\ ~windows
    BY <1>3, <2>2 DEF Sweep
  <2>3. CASE Dead(u) /\ windows
    BY <1>3, <2>3 DEF Sweep
  <2>4. QED
    BY <2>1, <2>2, <2>3
<1>4. ASSUME NEW u \in Users, SweepGuard(u) PROVE UserInv'
  BY <1>4 DEF SweepGuard, GuardAfter
<1>5. ASSUME NEW u \in Users, GiveUp(u) PROVE UserInv'
  BY <1>5 DEF GiveUp
<1>6. ASSUME NEW u \in Users, Open(u) PROVE UserInv'
  BY <1>6 DEF Open
<1>7. ASSUME NEW u \in Users, Flock(u) PROVE UserInv'
  <2>1. CASE owner[fd[u]] = NoUser
    BY <1>7, <2>1 DEF Flock
  <2>2. CASE owner[fd[u]] # NoUser /\ mode[u] = "try"
    BY <1>7, <2>2 DEF Flock, Retry
  <2>3. CASE owner[fd[u]] # NoUser /\ mode[u] # "try"
    <3>1. /\ pc[u] = "lock" /\ ProcOf[u] \in alive
          /\ fd' = [fd EXCEPT ![u] = 0] /\ pc' = [pc EXCEPT ![u] = "open"]
          /\ UNCHANGED <<windows, alive, file, created, pid, owner, mode, seen, ghosts>>
      BY <1>7, <2>3 DEF Flock, Retry
    <3>2. QED
      BY <3>1
  <2>4. QED
    BY <2>1, <2>2, <2>3
<1>8. ASSUME NEW u \in Users, Truncate(u) PROVE UserInv'
  BY <1>8 DEF Truncate
<1>9. ASSUME NEW u \in Users, Note(u) PROVE UserInv'
  BY <1>9 DEF Note
<1>10. ASSUME NEW u \in Users, Clock(u) PROVE UserInv'
  BY <1>10 DEF Clock
<1>11. ASSUME NEW u \in Users, NoteFails(u) PROVE UserInv'
  <2>0. /\ fd[u] \in 1..MaxFiles /\ pc[u] \in {"truncate", "note"} /\ ProcOf[u] \in alive
        /\ fd' = [fd EXCEPT ![u] = 0] /\ failures' = failures + 1
        /\ UNCHANGED <<windows, alive, file, created, pid, seen, ended, overlapped>>
    BY <1>11 DEF NoteFails
  <2>1. CASE ~windows
    <3>1. /\ owner' = owner /\ pc' = [pc EXCEPT ![u] = "idle"]
          /\ mode' = [mode EXCEPT ![u] = "try"]
      BY <1>11, <2>1 DEF NoteFails, AfterFailure
    <3>2. QED
      BY <2>0, <2>1, <3>1
  <2>2. CASE windows /\ mode[u] = "try"
    <3>1. /\ owner' = [owner EXCEPT ![fd[u]] = NoUser] /\ pc' = [pc EXCEPT ![u] = "idle"]
          /\ mode' = [mode EXCEPT ![u] = "try"]
      BY <1>11, <2>2 DEF NoteFails, AfterFailure, Retry
    <3>2. QED
      BY <2>0, <2>2, <3>1
  <2>3. CASE windows /\ mode[u] # "try"
    <3>1. /\ owner' = [owner EXCEPT ![fd[u]] = NoUser] /\ pc' = [pc EXCEPT ![u] = "open"]
          /\ mode' = mode
      BY <1>11, <2>3 DEF NoteFails, AfterFailure, Retry
    <3>2. QED
      BY <2>0, <2>3, <3>1
  <2>4. QED
    BY <2>1, <2>2, <2>3
<1>12. ASSUME NEW u \in Users, Release(u) PROVE UserInv'
  BY <1>12 DEF Release
<1>13. ASSUME NEW p \in Procs, Die(p) PROVE UserInv'
  BY <1>13 DEF Die, Unlocked
<1>14. ASSUME UNCHANGED vars PROVE UserInv'
  BY <1>14 DEF vars
<1>15. QED
  BY <1>1, <1>2, <1>3, <1>4, <1>5, <1>6, <1>7, <1>8, <1>9, <1>10, <1>11, <1>12,
     <1>13, <1>14 DEF Next, Step

(* Nobody else acquires while ~overlapped holds, so an open file of another *)
(* user belongs to a holder.                                                *)
LEMMA OthersHold ==
  ASSUME TypeOK, UserInv, ~overlapped, NEW u \in Users, pc[u] \in Acquiring,
         NEW v \in Users, v # u, fd[v] # 0
  PROVE  pc[v] = "held"
BY DEF TypeOK, UserInv, Acquiring

(* A user that finds the recorded pid dead while all is calm on POSIX       *)
(* removes a file that nobody has open.                                     *)
LEMMA SweepsClosed ==
  ASSUME TypeOK, UserInv, FileInv, Calm, ~windows,
         NEW u \in Users, pc[u] = "sweep", Dead(u), NEW v \in Users
  PROVE  fd[v] = 0
<1>1. ended
  BY DEF Dead, TypeOK, UserInv, Pids
<1>2. ~overlapped
  BY <1>1 DEF Calm
<1>3. SUFFICES ASSUME fd[v] # 0 PROVE FALSE
  OBVIOUS
<1>4. v # u
  BY <1>3 DEF TypeOK
<1>5. pc[v] = "held"
  BY <1>2, <1>3, <1>4, OthersHold DEF Acquiring
<1>6. seen[u] = ProcOf[v] /\ ProcOf[v] \in alive
  BY <1>2, <1>5 DEF FileInv, SeesHolder, UserInv
<1>7. QED
  BY <1>6 DEF Dead

LEMMA SamePlatform == [Next]_vars => windows' = windows
BY DEF Next, vars, Request, Step, ReadPid, Sweep, SweepGuard, GiveUp, Open, Flock,
       Truncate, Note, Clock, NoteFails, Release, Die

LEMMA CurrentStep ==
  ASSUME TypeOK, UserInv, FileInv, [Next]_vars, Calm'
  PROVE  Current'
<1> USE DEF TypeOK, At, Goto, Leave, ghosts, Current
<1>0. Calm /\ Current
  <2>1. windows' = windows
    BY SamePlatform
  <2>2. ended => ended'
    BY DEF Next, vars, Request, Step, ReadPid, Sweep, SweepGuard, GiveUp, Open, Flock,
           Truncate, Note, Clock, NoteFails, Release, Die
  <2>3. overlapped => overlapped'
    BY DEF Next, vars, Request, Step, ReadPid, Sweep, SweepGuard, GiveUp, Open, Flock,
           Truncate, Note, Clock, NoteFails, Release, Die
  <2>4. QED
    BY <2>1, <2>2, <2>3 DEF Calm, FileInv
<1>1. ASSUME NEW u \in Users, NEW blocks \in BOOLEAN, Request(u, blocks) PROVE Current'
  BY <1>0, <1>1 DEF Request
<1>2. ASSUME NEW u \in Users, ReadPid(u) PROVE Current'
  BY <1>0, <1>2 DEF ReadPid
<1>3. ASSUME NEW u \in Users, Sweep(u) PROVE Current'
  <2>1. CASE Dead(u) /\ ~windows
    <3>1. pc[u] = "sweep" /\ fd' = fd
      BY <1>3 DEF Sweep
    <3>2. \A v \in Users : fd[v] = 0
      BY <1>0, <2>1, <3>1, SweepsClosed
    <3>3. QED
      BY <3>1, <3>2
  <2>2. CASE ~(Dead(u) /\ ~windows)
    BY <1>0, <1>3, <2>2 DEF Sweep
  <2>3. QED
    BY <2>1, <2>2
<1>4. ASSUME NEW u \in Users, SweepGuard(u) PROVE Current'
  BY <1>0, <1>4 DEF SweepGuard, GuardAfter
<1>5. ASSUME NEW u \in Users, GiveUp(u) PROVE Current'
  BY <1>0, <1>5 DEF GiveUp
<1>6. ASSUME NEW u \in Users, Open(u) PROVE Current'
  BY <1>0, <1>6 DEF Open
<1>7. ASSUME NEW u \in Users, Flock(u) PROVE Current'
  BY <1>0, <1>7 DEF Flock
<1>8. ASSUME NEW u \in Users, Truncate(u) PROVE Current'
  BY <1>0, <1>8 DEF Truncate
<1>9. ASSUME NEW u \in Users, Note(u) PROVE Current'
  BY <1>0, <1>9 DEF Note
<1>10. ASSUME NEW u \in Users, Clock(u) PROVE Current'
  BY <1>0, <1>10 DEF Clock
<1>11. ASSUME NEW u \in Users, NoteFails(u) PROVE Current'
  BY <1>0, <1>11 DEF NoteFails
<1>12. ASSUME NEW u \in Users, Release(u) PROVE Current'
  BY <1>0, <1>12 DEF Release
<1>13. ASSUME NEW p \in Procs, Die(p) PROVE Current'
  BY <1>0, <1>13 DEF Die
<1>14. ASSUME UNCHANGED vars PROVE Current'
  BY <1>0, <1>14 DEF vars
<1>15. QED
  BY <1>1, <1>2, <1>3, <1>4, <1>5, <1>6, <1>7, <1>8, <1>9, <1>10, <1>11, <1>12,
     <1>13, <1>14 DEF Next, Step

LEMMA SeesStep ==
  ASSUME TypeOK, UserInv, FileInv, [Next]_vars, ~windows', ~overlapped'
  PROVE  SeesHolder'
<1> USE DEF TypeOK, At, Goto, Leave, ghosts, SeesHolder, Acquiring
<1>0. ~windows /\ ~overlapped
  BY DEF Next, vars, Request, Step, ReadPid, Sweep, SweepGuard, GiveUp, Open, Flock,
         Truncate, Note, Clock, NoteFails, Release, Die
<1>00. SeesHolder /\ Current
  BY <1>0 DEF FileInv, Calm
<1>1. ASSUME NEW u \in Users, NEW blocks \in BOOLEAN, Request(u, blocks) PROVE SeesHolder'
  BY <1>00, <1>1 DEF Request
<1>2. ASSUME NEW u \in Users, ReadPid(u) PROVE SeesHolder'
  <2>1. /\ pc' = [pc EXCEPT ![u] = "sweep"] /\ seen' = [seen EXCEPT ![u] = pid[file]]
    BY <1>0, <1>2 DEF ReadPid, Slot
  <2>2. ASSUME NEW h \in Users, pc'[h] = "held" PROVE pid[file] = ProcOf[h]
    BY <1>0, <1>00, <2>1, <2>2 DEF UserInv, Current
  <2>3. QED
    BY <1>00, <2>1, <2>2
<1>3. ASSUME NEW u \in Users, Sweep(u) PROVE SeesHolder'
  BY <1>0, <1>00, <1>3 DEF Sweep
<1>4. ASSUME NEW u \in Users, SweepGuard(u) PROVE SeesHolder'
  BY <1>00, <1>4 DEF SweepGuard
<1>5. ASSUME NEW u \in Users, GiveUp(u) PROVE SeesHolder'
  BY <1>00, <1>5 DEF GiveUp
<1>6. ASSUME NEW u \in Users, Open(u) PROVE SeesHolder'
  BY <1>00, <1>6 DEF Open
<1>7. ASSUME NEW u \in Users, Flock(u) PROVE SeesHolder'
  <2>1. /\ seen' = seen
        /\ \/ pc' = [pc EXCEPT ![u] = "truncate"]
           \/ pc' = [pc EXCEPT ![u] = "idle"]
           \/ pc' = [pc EXCEPT ![u] = "open"]
    BY <1>7 DEF Flock, Retry
  <2>2. QED
    BY <1>00, <2>1
<1>8. ASSUME NEW u \in Users, Truncate(u) PROVE SeesHolder'
  BY <1>00, <1>8 DEF Truncate
<1>9. ASSUME NEW u \in Users, Note(u) PROVE SeesHolder'
  <2>1. pc[u] = "note" /\ seen' = seen /\ pc' = [pc EXCEPT ![u] = "held"]
    BY <1>9 DEF Note
  <2>2. \A v \in Users : pc[v] # "sweep"
    BY <1>0, <2>1 DEF UserInv
  <2>3. QED
    BY <2>1, <2>2
<1>10. ASSUME NEW u \in Users, Clock(u) PROVE SeesHolder'
  BY <1>00, <1>10 DEF Clock
<1>11. ASSUME NEW u \in Users, NoteFails(u) PROVE SeesHolder'
  BY <1>0, <1>00, <1>11 DEF NoteFails
<1>12. ASSUME NEW u \in Users, Release(u) PROVE SeesHolder'
  BY <1>00, <1>12 DEF Release
<1>13. ASSUME NEW p \in Procs, Die(p) PROVE SeesHolder'
  BY <1>00, <1>13 DEF Die
<1>14. ASSUME UNCHANGED vars PROVE SeesHolder'
  BY <1>00, <1>14 DEF vars
<1>15. QED
  BY <1>1, <1>2, <1>3, <1>4, <1>5, <1>6, <1>7, <1>8, <1>9, <1>10, <1>11, <1>12,
     <1>13, <1>14 DEF Next, Step

LEMMA LockedStep ==
  ASSUME TypeOK, UserInv, LockedMeansHeld, [Next]_vars
  PROVE  LockedMeansHeld'
<1> USE DEF TypeOK, UserInv, At, Goto, Leave, ghosts, LockedMeansHeld
<1>1. ASSUME NEW u \in Users, NEW blocks \in BOOLEAN, Request(u, blocks) PROVE LockedMeansHeld'
  BY <1>1 DEF Request
<1>2. ASSUME NEW u \in Users, ReadPid(u) PROVE LockedMeansHeld'
  BY <1>2 DEF ReadPid
<1>3. ASSUME NEW u \in Users, Sweep(u) PROVE LockedMeansHeld'
  <2>1. /\ pc[u] = "sweep" /\ UNCHANGED <<windows, failures, owner, fd>>
        /\ \A v \in Users : v # u => pc'[v] = pc[v]
    BY <1>3 DEF Sweep
  <2>2. QED
    BY <2>1
<1>4. ASSUME NEW u \in Users, SweepGuard(u) PROVE LockedMeansHeld'
  BY <1>4 DEF SweepGuard
<1>5. ASSUME NEW u \in Users, GiveUp(u) PROVE LockedMeansHeld'
  BY <1>5 DEF GiveUp
<1>6. ASSUME NEW u \in Users, Open(u) PROVE LockedMeansHeld'
  BY <1>6 DEF Open
<1>7. ASSUME NEW u \in Users, Flock(u) PROVE LockedMeansHeld'
  <2>0. fd[u] \in 1..MaxFiles /\ pc[u] = "lock" /\ UNCHANGED <<windows, failures>>
    BY <1>7 DEF Flock
  <2>1. CASE owner[fd[u]] = NoUser
    <3>1. /\ owner' = [owner EXCEPT ![fd[u]] = u] /\ fd' = fd
          /\ pc' = [pc EXCEPT ![u] = "truncate"]
      BY <1>7, <2>1 DEF Flock
    <3>2. QED
      BY <2>0, <3>1
  <2>2. CASE owner[fd[u]] # NoUser
    <3>1. /\ owner' = owner
          /\ \A v \in Users : v # u => pc'[v] = pc[v] /\ fd'[v] = fd[v]
      BY <1>7, <2>2 DEF Flock, Retry
    <3>2. ASSUME windows \/ failures = 0, NEW f \in 1..MaxFiles, owner[f] # NoUser
          PROVE  owner[f] \in Users /\ owner[f] # u
      BY <2>0, <3>2
    <3>3. QED
      BY <2>0, <3>1, <3>2
  <2>3. QED
    BY <2>1, <2>2
<1>8. ASSUME NEW u \in Users, Truncate(u) PROVE LockedMeansHeld'
  BY <1>8 DEF Truncate
<1>9. ASSUME NEW u \in Users, Note(u) PROVE LockedMeansHeld'
  BY <1>9 DEF Note
<1>10. ASSUME NEW u \in Users, Clock(u) PROVE LockedMeansHeld'
  BY <1>10 DEF Clock
<1>11. ASSUME NEW u \in Users, NoteFails(u) PROVE LockedMeansHeld'
  <2>0. /\ fd[u] \in 1..MaxFiles /\ owner[fd[u]] = u /\ windows' = windows
        /\ fd' = [fd EXCEPT ![u] = 0] /\ failures' = failures + 1
        /\ pc' = [pc EXCEPT ![u] = "idle"] \/ pc' = [pc EXCEPT ![u] = "open"]
    BY <1>11 DEF NoteFails, Retry
  <2>1. CASE windows
    <3>1. owner' = [owner EXCEPT ![fd[u]] = NoUser]
      BY <1>11, <2>1 DEF NoteFails, AfterFailure
    <3>2. QED
      BY <2>0, <2>1, <3>1
  <2>2. CASE ~windows
    BY <2>0, <2>2
  <2>3. QED
    BY <2>1, <2>2
<1>12. ASSUME NEW u \in Users, Release(u) PROVE LockedMeansHeld'
  BY <1>12 DEF Release
<1>13. ASSUME NEW p \in Procs, Die(p) PROVE LockedMeansHeld'
  BY <1>13 DEF Die, Unlocked
<1>14. ASSUME UNCHANGED vars PROVE LockedMeansHeld'
  BY <1>14 DEF vars
<1>15. QED
  BY <1>1, <1>2, <1>3, <1>4, <1>5, <1>6, <1>7, <1>8, <1>9, <1>10, <1>11, <1>12,
     <1>13, <1>14 DEF Next, Step

LEMMA StepIInv == IInv /\ [Next]_vars => IInv'
<1> SUFFICES ASSUME IInv, [Next]_vars PROVE IInv'
  OBVIOUS
<1>1. TypeOK' /\ UserInv' /\ LockedMeansHeld'
  BY TypeStep, UserStep, LockedStep DEF IInv
<1>2. Calm' => Current'
  BY CurrentStep DEF IInv
<1>3. ~windows' /\ ~overlapped' => SeesHolder'
  BY SeesStep DEF IInv
<1>4. FileInv'
  BY <1>2, <1>3 DEF FileInv
<1>5. QED
  BY <1>1, <1>4 DEF IInv

LEMMA IInvCorrect == Spec => []IInv
BY InitIInv, StepIInv, PTL DEF Spec

(* Two users never hold the lock at once on Windows, and on POSIX as long   *)
(* as no process has ended or no two acquisitions have overlapped, for any  *)
(* number of users and processes.                                           *)
THEOREM ExclusionIfCalmCorrect == Spec => []ExclusionIfCalm
<1>1. ASSUME IInv PROVE ExclusionIfCalm
  <2>1. SUFFICES ASSUME Calm, NEW u \in Users, NEW v \in Users,
                        pc[u] = "held", pc[v] = "held"
                 PROVE  u = v
    BY DEF ExclusionIfCalm, Exclusion
  <2>2. owner[fd[u]] = u /\ owner[fd[v]] = v /\ fd[u] # 0 /\ fd[v] # 0
    BY <1>1, <2>1 DEF IInv, TypeOK, UserInv
  <2>3. fd[u] = file /\ fd[v] = file
    BY <1>1, <2>1, <2>2 DEF IInv, FileInv, Current
  <2>4. QED
    BY <2>2, <2>3
<1>2. QED
  BY <1>1, IInvCorrect, PTL

(* A file that is locked is locked by a user that is acquiring or holding   *)
(* it, on Windows, and on POSIX while no write of a pid has failed.         *)
THEOREM LockedMeansHeldCorrect == Spec => []LockedMeansHeld
<1>1. IInv => LockedMeansHeld
  BY DEF IInv
<1>2. QED
  BY <1>1, IInvCorrect, PTL

(* On Windows two users never hold the lock at once, whatever ends, fails or *)
(* overlaps: nobody can remove the guard while it is open.                  *)
THEOREM ExclusionOnWindows == Spec /\ windows => []Exclusion
<1>1. windows /\ [Next]_vars => windows'
  BY SamePlatform
<1>2. ExclusionIfCalm /\ windows => Exclusion
  BY DEF ExclusionIfCalm, Calm
<1> QED  BY <1>1, <1>2, ExclusionIfCalmCorrect, PTL DEF Spec
=============================================================================
