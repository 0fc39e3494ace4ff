-------------------------- MODULE ScanServiceProofs --------------------------
(***************************************************************************)
(* The scan service is correct for every number of threads, workers,       *)
(* folders, requests and restarts, on every platform: it uses the scan     *)
(* queue only through its operations, its job never runs without its one   *)
(* bridge, no queued request is launched twice or given up while the server *)
(* runs, and if nobody starts a scan or sweeps while a worker is booting    *)
(* there is one worker at most.                                            *)
(***************************************************************************)
EXTENDS ScanService, TLAPS

(* The theorems about the queue, for a queue whose saves succeed.          *)
QP == INSTANCE ScanQueueProofs WITH MaxFailures <- 0, failures <- 0

LEMMA QueueConstants == QP!QueueAssumption
BY ServiceAssumption DEF QP!QueueAssumption

(* The variables outside the queue have their types.                       *)
DataTypes ==
  /\ pidFile \in Workers \cup {NoWorker}
  /\ progress \in Outcomes \cup {"none", "running"}
  /\ scanState \in Roots \cup {NoRoot}
  /\ job \in Outcomes \cup {"none", "running"}
  /\ st \in [Workers -> Stages] /\ info \in [Workers -> Info]
  /\ platform \in Platforms /\ restarts \in Nat

(* What a thread does, at p with the arguments a, fits why it does it.     *)
Probes == {"start", "resume", "cancel", "bridge"}
Fits(p, a) ==
  /\ p \in PCs /\ a \in Arg
  /\ p \in {"probe", "sweep"} => a.why \in Probes
  /\ p \in {"poll", "abort"} => a.why = "bridge"
  /\ p = "signal" => a.why = "cancel"
  /\ p = "enqueue" => a.why = "start"
  /\ a.why = "bridge" => p \in {"poll", "abort", "probe", "sweep", "closing"}
  /\ a.why \in {"start", "resume"} => a.root \in Roots

ThreadsOK ==
  /\ pc \in [Threads -> PCs] /\ arg \in [Threads -> Arg]
  /\ \A t \in Threads : Fits(pc[t], arg[t])

ThreadInv == /\ DataTypes /\ ThreadsOK
             /\ ~up => \A t \in Threads : pc[t] = "idle"
-----------------------------------------------------------------------------
LEMMA Idle == /\ IdleArg \in Arg /\ IdleArg.why = "none" /\ IdleArg.qid = 0
              /\ Fits("idle", IdleArg) /\ Fits("pop", IdleArg)
BY DEF IdleArg, Arg, Fits, PCs

LEMMA InitThreadInv == Init => ThreadInv
<1> SUFFICES ASSUME Init PROVE ThreadInv
  OBVIOUS
<1>1. NoInfo \in Info
  BY DEF NoInfo, Info
<1> QED BY <1>1, Idle DEF Init, ThreadInv, DataTypes, ThreadsOK, Outcomes, PCs, Stages,
                          Queue!Init

(* A step of one thread. *)
LEMMA OneThread ==
  ASSUME ThreadsOK, NEW t \in Threads, NEW p, NEW a, Fits(p, a),
         pc' = [pc EXCEPT ![t] = p], arg' = [arg EXCEPT ![t] = a]
  PROVE  ThreadsOK'
<1>1. p \in PCs /\ a \in Arg
  BY DEF Fits
<1>2. /\ pc' \in [Threads -> PCs] /\ arg' \in [Threads -> Arg]
      /\ pc'[t] = p /\ arg'[t] = a
      /\ \A u \in Threads \ {t} : pc'[u] = pc[u] /\ arg'[u] = arg[u]
  BY <1>1 DEF ThreadsOK
<1>3. ASSUME NEW u \in Threads PROVE Fits(pc'[u], arg'[u])
  <2>1. CASE u = t
    BY <1>2, <2>1
  <2>2. CASE u # t
    BY <1>2, <2>2 DEF ThreadsOK
  <2> QED BY <2>1, <2>2
<1> QED BY <1>2, <1>3 DEF ThreadsOK

(* Goto: the thread goes on with its arguments or becomes idle.            *)
LEMMA GotoThread ==
  ASSUME ThreadsOK, NEW t \in Threads, NEW p, Goto(t, p), Fits(p, arg[t]) \/ p = "idle"
  PROVE  ThreadsOK'
<1>1. CASE p = "idle"
  <2>1. pc' = [pc EXCEPT ![t] = p] /\ arg' = [arg EXCEPT ![t] = IdleArg]
    BY <1>1 DEF Goto
  <2> QED BY <1>1, <2>1, Idle, OneThread
<1>2. CASE p # "idle"
  <2>1. pc' = [pc EXCEPT ![t] = p] /\ arg' = [arg EXCEPT ![t] = arg[t]]
    BY <1>2 DEF Goto, ThreadsOK
  <2> QED BY <1>2, <2>1, OneThread
<1> QED BY <1>1, <1>2

(* Where the answers of is_worker_running lead.                            *)
LEMMA Answers ==
  /\ WhenNot["start"] = "clear" /\ WhenNot["resume"] = "spawn"
  /\ WhenNot["cancel"] = "idle" /\ WhenNot["bridge"] = "abort"
  /\ WhenRunning["start"] = "enqueue" /\ WhenRunning["resume"] = "idle"
  /\ WhenRunning["cancel"] = "signal" /\ WhenRunning["bridge"] = "poll"
BY DEF WhenNot, WhenRunning
-----------------------------------------------------------------------------
(* The threads stay consistent.                                            *)

LEMMA RequestThreads ==
  ASSUME ThreadInv, NEW t \in Threads, Request(t)
  PROVE  ThreadsOK'
<1>1. ThreadsOK /\ scanState \in Roots \cup {NoRoot}
  BY DEF ThreadInv, DataTypes
<1>2. ASSUME NEW root \in Roots, StartRequest(t, root) PROVE ThreadsOK'
  <2> DEFINE a == [IdleArg EXCEPT !.why = "start", !.root = root]
             p == IF job = "running" THEN "enqueue" ELSE "probe"
  <2>1. Fits(p, a)
    BY DEF Fits, Arg, IdleArg, PCs, Probes
  <2>2. pc' = [pc EXCEPT ![t] = p] /\ arg' = [arg EXCEPT ![t] = a]
    BY <1>2 DEF StartRequest
  <2> HIDE DEF a, p
  <2> QED BY <1>1, <2>1, <2>2, OneThread
<1>3. ASSUME ResumeRequest(t) PROVE ThreadsOK'
  <2> DEFINE a == [IdleArg EXCEPT !.why = "resume", !.root = scanState]
  <2>1. scanState \in Roots
    BY <1>1, <1>3 DEF ResumeRequest
  <2>2. Fits("probe", a)
    BY <2>1 DEF Fits, Arg, IdleArg, PCs, Probes
  <2>3. pc' = [pc EXCEPT ![t] = "probe"] /\ arg' = [arg EXCEPT ![t] = a]
    BY <1>3 DEF ResumeRequest
  <2> HIDE DEF a
  <2> QED BY <1>1, <2>2, <2>3, OneThread
<1>4. ASSUME CancelRequest(t) PROVE ThreadsOK'
  <2> DEFINE a == [IdleArg EXCEPT !.why = "cancel"]
  <2>1. Fits("probe", a)
    BY DEF Fits, Arg, IdleArg, PCs, Probes
  <2>2. pc' = [pc EXCEPT ![t] = "probe"] /\ arg' = [arg EXCEPT ![t] = a]
    BY <1>4 DEF CancelRequest
  <2> HIDE DEF a
  <2> QED BY <1>1, <2>1, <2>2, OneThread
<1>5. ASSUME ConsumeRequest(t) PROVE ThreadsOK'
  <2>1. Goto(t, "pop") /\ pc[t] = "idle"
    BY <1>5 DEF ConsumeRequest
  <2>2. Fits("pop", arg[t])
    BY <1>1, <2>1 DEF ThreadsOK, Fits, PCs
  <2> QED BY <1>1, <2>1, <2>2, GotoThread
<1> QED BY <1>2, <1>3, <1>4, <1>5 DEF Request

LEMMA HeadItem ==
  ASSUME QP!IInv, items # <<>>
  PROVE  Head(items).id \in Nat /\ Head(items).root \in Roots
<1>1. items \in Seq(QP!Item)
  BY DEF QP!IInv, QP!TypeOK
<1>2. Head(items) \in QP!Item
  BY <1>1
<1> QED BY <1>2 DEF QP!Item

LEMMA StepThreads ==
  ASSUME ThreadInv, QP!IInv, NEW t \in Threads, ThreadStep(t)
  PROVE  ThreadsOK'
<1>1. ThreadsOK /\ Fits(pc[t], arg[t]) /\ arg[t] \in Arg
  BY DEF ThreadInv, ThreadsOK
<1>2. ASSUME Probe(t) \/ Sweep(t) PROVE ThreadsOK'
  <2>1. arg[t].why \in Probes
    BY <1>1, <1>2 DEF Probe, Sweep, Fits
  <2>2. PICK p \in {WhenNot[arg[t].why], WhenRunning[arg[t].why], "sweep"} : Goto(t, p)
    BY <1>2 DEF Probe, Sweep
  <2>3. Fits(p, arg[t]) \/ p = "idle"
    BY <1>1, <2>1, Answers DEF Probes, Fits, PCs
  <2> QED BY <1>1, <2>2, <2>3, GotoThread
<1>3. ASSUME Enqueue(t) PROVE ThreadsOK'
  BY <1>1, <1>3, GotoThread DEF Enqueue
<1>4. ASSUME ClearState(t) PROVE ThreadsOK'
  <2>1. Fits("spawn", arg[t])
    BY <1>1, <1>4 DEF ClearState, Fits, PCs
  <2> QED BY <1>1, <1>4, <2>1, GotoThread DEF ClearState
<1>5. ASSUME NEW w \in Workers, Spawn(t, w) PROVE ThreadsOK'
  <2> DEFINE a == [IdleArg EXCEPT !.w = w]
  <2>1. Fits("open", a)
    BY DEF Fits, Arg, IdleArg, PCs
  <2>2. pc' = [pc EXCEPT ![t] = "open"] /\ arg' = [arg EXCEPT ![t] = a]
    BY <1>5 DEF Spawn
  <2> HIDE DEF a
  <2> QED BY <1>1, <2>1, <2>2, OneThread
<1>6. ASSUME OpenBridge(t) PROVE ThreadsOK'
  <2> DEFINE a == [arg[t] EXCEPT !.why = "bridge"]
  <2>1. Fits("poll", a)
    BY <1>1 DEF Fits, Arg, PCs
  <2>2. \/ pc' = [pc EXCEPT ![t] = "poll"] /\ arg' = [arg EXCEPT ![t] = a]
        \/ Goto(t, "idle")
    BY <1>6 DEF OpenBridge
  <2> HIDE DEF a
  <2> QED BY <1>1, <2>1, <2>2, OneThread, GotoThread
<1>7. ASSUME Signal(t) PROVE ThreadsOK'
  <2>1. Fits("sweep", arg[t])
    BY <1>1, <1>7 DEF Signal, Fits, PCs, Probes
  <2> QED BY <1>1, <1>7, <2>1, GotoThread DEF Signal
<1>8. ASSUME Poll(t) PROVE ThreadsOK'
  <2>1. Fits("probe", arg[t]) /\ Fits("closing", arg[t])
    BY <1>1, <1>8 DEF Poll, Fits, PCs, Probes
  <2> QED BY <1>1, <1>8, <2>1, GotoThread DEF Poll
<1>9. ASSUME Abort(t) PROVE ThreadsOK'
  <2>1. Fits("closing", arg[t])
    BY <1>1, <1>9 DEF Abort, Fits, PCs
  <2> QED BY <1>1, <1>9, <2>1, GotoThread DEF Abort
<1>10. ASSUME Closing(t) PROVE ThreadsOK'
  BY <1>1, <1>10, Idle, OneThread DEF Closing, AfterClosing
<1>11. ASSUME Pop(t) PROVE ThreadsOK'
  <2>1. CASE Goto(t, "idle")
    BY <1>1, <2>1, GotoThread
  <2>2. CASE Queue!PopNext /\ arg' = [arg EXCEPT ![t] = Popped(Head(items))]
                           /\ pc' = [pc EXCEPT ![t] = "clear"]
    <3> DEFINE a == Popped(Head(items))
    <3>1. Head(items).id \in Nat /\ Head(items).root \in Roots
      BY <2>2, HeadItem DEF Queue!PopNext
    <3>2. Fits("clear", a)
      BY <3>1 DEF Fits, Arg, IdleArg, PCs, Popped
    <3>3. pc' = [pc EXCEPT ![t] = "clear"] /\ arg' = [arg EXCEPT ![t] = a]
      BY <2>2
    <3> HIDE DEF a
    <3> QED BY <1>1, <3>2, <3>3, OneThread
  <2> QED BY <1>11, <2>1, <2>2 DEF Pop
<1> QED BY <1>2, <1>3, <1>4, <1>5, <1>6, <1>7, <1>8, <1>9, <1>10, <1>11 DEF ThreadStep

LEMMA NextThreads == ThreadInv /\ QP!IInv /\ [Next]_vars => ThreadsOK'
<1> SUFFICES ASSUME ThreadInv, QP!IInv, [Next]_vars PROVE ThreadsOK'
  OBVIOUS
<1>1. ThreadsOK
  BY DEF ThreadInv
<1>2. ASSUME NEW t \in Threads, ThreadStep(t) \/ Request(t) PROVE ThreadsOK'
  BY <1>2, StepThreads, RequestThreads
<1>3. ASSUME NEW t \in Threads, Load(t) PROVE ThreadsOK'
  <2>1. pc[t] = "idle"
    BY <1>3 DEF Load, Queue!Load, ThreadInv
  <2>2. Fits("pop", arg[t])
    BY <1>1, <2>1 DEF ThreadsOK, Fits, PCs
  <2>3. CASE UNCHANGED threadVars
    BY <1>1, <2>3 DEF ThreadsOK, threadVars
  <2> QED BY <1>1, <1>3, <2>2, <2>3, GotoThread DEF Load
<1>4. ASSUME Stop PROVE ThreadsOK'
  <2>1. pc' = [t \in Threads |-> "idle"] /\ arg' = [t \in Threads |-> IdleArg]
    BY <1>4 DEF Stop
  <2>2. \A t \in Threads : pc'[t] = "idle" /\ arg'[t] = IdleArg
    BY <2>1
  <2>3. pc' \in [Threads -> PCs] /\ arg' \in [Threads -> Arg]
    BY <2>1, Idle DEF PCs
  <2> QED BY <2>2, <2>3, Idle DEF ThreadsOK
<1>5. ASSUME UNCHANGED threadVars PROVE ThreadsOK'
  BY <1>1, <1>5 DEF ThreadsOK, threadVars
<1>6. ASSUME NEW w \in Workers, WorkerStep(w) \/ WorkerEvent(w) PROVE UNCHANGED threadVars
  BY <1>6 DEF WorkerStep, BootCheck, BootSweep, WritePid, Begin, Finish, WriteFinal, Exit,
     WorkerEvent, BootFail, Report, SaveState, RootFails, ParentGone, HardKill, ShellStart
<1>7. ASSUME DismissRequest \/ EditQueue \/ Reap \/ UNCHANGED vars
      PROVE  UNCHANGED threadVars
  BY <1>7 DEF DismissRequest, EditQueue, Reap, vars
<1> QED BY <1>2, <1>3, <1>4, <1>5, <1>6, <1>7 DEF Next
-----------------------------------------------------------------------------
(* The data keep their types.                                              *)

LEMMA ThreadData ==
  ASSUME ThreadInv, NEW t \in Threads, ThreadStep(t) \/ Request(t) \/ Load(t)
  PROVE  DataTypes'
<1>1. DataTypes /\ arg[t] \in Arg
  BY DEF ThreadInv, ThreadsOK
<1>2. \/ UNCHANGED <<pidFile, progress, scanState, job, st, info, platform, restarts>>
      \/ Sweep(t) \/ ClearState(t) \/ \E w \in Workers : Spawn(t, w)
      \/ OpenBridge(t) \/ Signal(t) \/ Poll(t) \/ Abort(t) \/ Closing(t)
  BY DEF ThreadStep, Request, Load, Probe, Enqueue, Pop, StartRequest, ResumeRequest,
         CancelRequest, ConsumeRequest, ipcVars, workerVars, serverVars
<1>3. CASE UNCHANGED <<pidFile, progress, scanState, job, st, info, platform, restarts>>
  BY <1>1, <1>3 DEF DataTypes
<1>4. CASE Sweep(t)
  BY <1>1, <1>4 DEF DataTypes, Sweep, Swept, workerVars, serverVars
<1>5. CASE ClearState(t)
  BY <1>1, <1>5 DEF DataTypes, ClearState, ipcVars, workerVars, serverVars
<1>6. ASSUME NEW w \in Workers, Spawn(t, w) PROVE DataTypes'
  <2>1. /\ st' = [Reaped EXCEPT ![w] = "boot"]
        /\ UNCHANGED <<pidFile, progress, scanState, job, platform, restarts>>
    BY <1>6 DEF Spawn, ipcVars, serverVars
  <2>2. Reaped \in [Workers -> Stages] /\ "boot" \in Stages
    BY <1>1 DEF DataTypes, Reaped, Stages, Booting, Held
  <2>3. info' \in [Workers -> Info]
    <3> DEFINE i == [NoInfo EXCEPT !.root = arg[t].root, !.qid = arg[t].qid,
                                   !.parent = "server"]
    <3>1. i \in Info
      BY <1>1 DEF NoInfo, Info, Arg
    <3>2. info' = [info EXCEPT ![w] = i]
      BY <1>6 DEF Spawn
    <3> HIDE DEF i
    <3> QED BY <1>1, <3>1, <3>2 DEF DataTypes
  <2> QED BY <1>1, <2>1, <2>2, <2>3 DEF DataTypes
<1>7. CASE OpenBridge(t)
  BY <1>1, <1>7 DEF DataTypes, OpenBridge, ipcVars, workerVars, serverVars
<1>8. CASE Signal(t)
  <2>1. UNCHANGED <<pidFile, progress, scanState, job, platform, restarts>>
    BY <1>8 DEF Signal, ipcVars, serverVars
  <2>2. st' \in [Workers -> Stages] /\ info' \in [Workers -> Info]
    <3>1. CASE UNCHANGED workerVars
      BY <1>1, <3>1 DEF DataTypes, workerVars
    <3>2. CASE LivePid /\ st' = Die(pidFile) /\ UNCHANGED info
      <4>1. st' \in [Workers -> Stages]
        BY <1>1, <3>2 DEF DataTypes, Die, Stages
      <4> QED BY <1>1, <3>2, <4>1 DEF DataTypes
    <3>3. CASE LivePid /\ info' = [info EXCEPT ![pidFile].cancelled = TRUE]
                       /\ UNCHANGED st
      <4>1. pidFile \in Workers
        BY <1>1, <3>3 DEF LivePid, DataTypes
      <4>2. info' \in [Workers -> Info]
        BY <1>1, <3>3, <4>1 DEF DataTypes, Info
      <4> QED BY <1>1, <3>3, <4>2 DEF DataTypes
    <3> QED BY <1>8, <3>1, <3>2, <3>3 DEF Signal, Signalled
  <2> QED BY <1>1, <2>1, <2>2 DEF DataTypes
<1>9. CASE Poll(t)
  BY <1>1, <1>9 DEF DataTypes, Poll, ipcVars, workerVars, serverVars
<1>10. CASE Abort(t)
  BY <1>1, <1>10 DEF DataTypes, Abort, Outcomes, ipcVars, workerVars, serverVars
<1>11. CASE Closing(t)
  BY <1>1, <1>11 DEF DataTypes, Closing, workerVars, serverVars
<1> QED BY <1>2, <1>3, <1>4, <1>5, <1>6, <1>7, <1>8, <1>9, <1>10, <1>11

LEMMA WorkerData ==
  ASSUME DataTypes, NEW w \in Workers, WorkerStep(w) \/ WorkerEvent(w)
  PROVE  DataTypes'
<1>1. /\ st \in [Workers -> Stages] /\ info \in [Workers -> Info]
      /\ info[w] \in Info /\ platform' = platform /\ restarts' = restarts
  BY DEF DataTypes, serverVars, WorkerStep, BootCheck, BootSweep, WritePid, Begin,
         Finish, WriteFinal, Exit, WorkerEvent, BootFail, Report, SaveState, RootFails,
         ParentGone, HardKill, ShellStart
<1>2. /\ job' = job /\ pidFile' \in Workers \cup {NoWorker}
      /\ progress' \in Outcomes \cup {"none", "running"}
  BY <1>1 DEF DataTypes, Outcomes, ipcVars, WorkerStep, BootCheck, BootSweep, WritePid,
     Begin, Finish, WriteFinal, Exit, WorkerEvent, BootFail, Report, Shown, SaveState,
     RootFails, ParentGone, HardKill, ShellStart, Swept, Info, Display, FinalProgress
<1>3. scanState' \in Roots \cup {NoRoot}
  <2>1. \A root \in Roots \cup {NoRoot} : Folders(root) \subseteq Roots \cup {NoRoot}
    BY DEF Folders, FoldersOf
  <2>2. info[w].root \in Roots \cup {NoRoot}
    BY <1>1 DEF Info
  <2>3. CASE SaveState(w)
    BY <2>1, <2>2, <2>3 DEF SaveState
  <2>4. CASE Finish(w)
    BY <2>4 DEF Finish, DataTypes
  <2> QED BY <2>3, <2>4 DEF DataTypes, WorkerStep, BootCheck, BootSweep, WritePid, Begin,
          WriteFinal, Exit, WorkerEvent, BootFail, Report, RootFails, ParentGone,
          HardKill, ShellStart
<1>4. st' \in [Workers -> Stages]
  <2>1. \A stage \in Stages : [st EXCEPT ![w] = stage] \in [Workers -> Stages]
    BY <1>1
  <2>2. \/ UNCHANGED st
        \/ \E stage \in Stages : st' = [st EXCEPT ![w] = stage]
    BY DEF WorkerStep, BootCheck, BootSweep, WritePid, Begin, Finish, WriteFinal, Exit,
           WorkerEvent, BootFail, Report, SaveState, RootFails, ParentGone, HardKill,
           ShellStart, Move, Die, workerVars, Stages, Booting, Held
  <2> QED BY <1>1, <2>1, <2>2
<1>5. info' \in [Workers -> Info]
  <2>1. \A i \in Info : [info EXCEPT ![w] = i] \in [Workers -> Info]
    BY <1>1
  <2>2. CASE Finish(w)
    <3>1. PICK out \in Result(w) : info' = [info EXCEPT ![w].out = out]
      BY <2>2 DEF Finish
    <3>2. out \in Outcomes
      BY <3>1 DEF Result, Promised, Outcomes
    <3> QED BY <1>1, <3>1, <3>2 DEF Info
  <2>3. CASE RootFails(w)
    BY <1>1, <2>3 DEF RootFails, Info
  <2>4. CASE ParentGone(w)
    BY <1>1, <2>4 DEF ParentGone, Info
  <2>5. ASSUME NEW root \in Roots, ShellStart(w, root) PROVE info' \in [Workers -> Info]
    <3> DEFINE i == [NoInfo EXCEPT !.root = root, !.parent = "shell"]
    <3>1. i \in Info
      BY DEF NoInfo, Info
    <3>2. info' = [info EXCEPT ![w] = i]
      BY <2>5 DEF ShellStart
    <3> HIDE DEF i
    <3> QED BY <2>1, <3>1, <3>2
  <2> QED BY <1>1, <2>2, <2>3, <2>4, <2>5 DEF WorkerStep, BootCheck, BootSweep, WritePid,
          Begin, WriteFinal, Exit, WorkerEvent, BootFail, Report, SaveState, HardKill,
          workerVars
<1> QED BY <1>1, <1>2, <1>3, <1>4, <1>5 DEF DataTypes

LEMMA NextData == ThreadInv /\ [Next]_vars => DataTypes'
<1> SUFFICES ASSUME ThreadInv, [Next]_vars PROVE DataTypes'
  OBVIOUS
<1>1. DataTypes
  BY DEF ThreadInv
<1>2. CASE Stop
  <2>1. /\ UNCHANGED <<pidFile, progress, scanState, platform>>
        /\ job' = "none" /\ st' = Reaped /\ restarts' = restarts + 1
    BY <1>2 DEF Stop, ipcVars
  <2>2. Reaped \in [Workers -> Stages]
    BY <1>1 DEF DataTypes, Reaped, Stages
  <2>3. info' \in [Workers -> Info]
    <3>1. \A w \in Workers : [info[w] EXCEPT !.parent = "gone"] \in Info /\ info[w] \in Info
      BY <1>1 DEF DataTypes, Info
    <3> QED BY <1>2, <3>1 DEF Stop
  <2> QED BY <1>1, <2>1, <2>2, <2>3 DEF DataTypes
<1>3. CASE Reap
  <2>1. Reaped \in [Workers -> Stages]
    BY <1>1 DEF DataTypes, Reaped, Stages
  <2> QED BY <1>1, <1>3, <2>1 DEF DataTypes, Reap, ipcVars, serverVars
<1>4. CASE DismissRequest \/ EditQueue \/ UNCHANGED vars
  BY <1>1, <1>4 DEF DataTypes, DismissRequest, EditQueue, vars, ipcVars, workerVars,
     serverVars
<1> QED BY <1>1, <1>2, <1>3, <1>4, ThreadData, WorkerData DEF Next
-----------------------------------------------------------------------------
(* The service uses the queue only through its operations.                 *)

LEMMA QueueUse ==
  ASSUME [Next]_vars
  PROVE  \/ UNCHANGED queueVars
         \/ \E t \in Threads : Enqueue(t) /\ Queue!Enqueue(arg[t].root)
         \/ Queue!PopNext \/ Queue!Clear \/ (Stop /\ Queue!Stop) \/ Queue!Load
         \/ \E i \in DOMAIN items : Queue!RemoveItem(i)
<1>1. ASSUME NEW t \in Threads, ThreadStep(t) \/ Request(t) \/ Load(t)
      PROVE  \/ UNCHANGED queueVars \/ Queue!PopNext \/ Queue!Load
             \/ Enqueue(t) /\ Queue!Enqueue(arg[t].root)
  BY <1>1 DEF ThreadStep, Probe, Sweep, Enqueue, ClearState, Spawn, OpenBridge, Signal,
     Poll, Abort, Closing, Pop, Request, StartRequest, ResumeRequest, CancelRequest,
     ConsumeRequest, Load
<1>2. ASSUME NEW w \in Workers, WorkerStep(w) \/ WorkerEvent(w)
      PROVE  UNCHANGED queueVars
  BY <1>2 DEF WorkerStep, BootCheck, BootSweep, WritePid, Begin, Finish, WriteFinal,
     Exit, WorkerEvent, BootFail, Report, SaveState, RootFails, ParentGone, HardKill,
     ShellStart
<1>3. ASSUME DismissRequest \/ Reap \/ UNCHANGED vars PROVE UNCHANGED queueVars
  BY <1>3 DEF DismissRequest, Reap, vars
<1>4. ASSUME EditQueue
      PROVE  Queue!Clear \/ \E i \in DOMAIN items : Queue!RemoveItem(i)
  BY <1>4 DEF EditQueue
<1>5. ASSUME Stop PROVE Stop /\ Queue!Stop
  BY <1>5 DEF Stop
<1>6. \/ \E t \in Threads : ThreadStep(t) \/ Request(t) \/ Load(t)
      \/ \E w \in Workers : WorkerStep(w) \/ WorkerEvent(w)
      \/ DismissRequest \/ EditQueue \/ Reap \/ Stop \/ UNCHANGED vars
  BY DEF Next
<1> QED BY <1>1, <1>2, <1>3, <1>4, <1>5, <1>6

LEMMA QueueStep == ThreadInv /\ [Next]_vars => [QP!Next]_(QP!vars)
<1> SUFFICES ASSUME ThreadInv, [Next]_vars PROVE QP!Next \/ UNCHANGED QP!vars
  OBVIOUS
<1>1. ASSUME NEW t \in Threads, Enqueue(t), Queue!Enqueue(arg[t].root)
      PROVE  \E root \in Roots : QP!Enqueue(root)
  <2>1. arg[t].root \in Roots
    BY <1>1 DEF Enqueue, ThreadInv, ThreadsOK, Fits
  <2>2. QP!Enqueue(arg[t].root)
    BY <1>1 DEF Queue!Enqueue, Queue!Admit, Queue!RootsOf, Queue!SaveOk, Queue!SaveFail,
       QP!Enqueue, QP!Admit, QP!RootsOf, QP!SaveOk, QP!SaveFail
  <2> QED BY <2>1, <2>2
<1>2. /\ Queue!PopNext => QP!PopNext
      /\ Queue!Clear => QP!Clear
      /\ Queue!Stop => QP!Stop
      /\ Queue!Load => QP!Load
      /\ \A i \in DOMAIN items : Queue!RemoveItem(i) => QP!RemoveItem(i)
      /\ UNCHANGED queueVars => UNCHANGED QP!vars
  BY DEF Queue!PopNext, Queue!Clear, Queue!Stop, Queue!Load, Queue!Loaded,
     Queue!RemoveItem, Queue!SaveOk, Queue!SaveFail, Queue!Ids, Queue!RemoveAt,
     QP!PopNext, QP!Clear, QP!Stop, QP!Load, QP!Loaded, QP!RemoveItem, QP!SaveOk,
     QP!SaveFail, QP!Ids, QP!RemoveAt, queueVars, QP!vars
<1> QED BY <1>1, <1>2, QueueUse DEF QP!Next

LEMMA InitQueue == Init => QP!IInv
<1>1. Init => QP!Init
  BY DEF Init, Queue!Init, QP!Init
<1> QED BY <1>1, QP!InitIInv, QueueConstants

LEMMA NextQueue == ThreadInv /\ QP!IInv /\ [Next]_vars => QP!IInv'
BY QueueStep, QP!NextIInv, QueueConstants

LEMMA NextDown == ThreadInv /\ [Next]_vars => (~up' => \A t \in Threads : pc'[t] = "idle")
<1> SUFFICES ASSUME ThreadInv, [Next]_vars, ~up', NEW u \in Threads PROVE pc'[u] = "idle"
  OBVIOUS
<1>1. CASE Stop
  BY <1>1 DEF Stop
<1>2. CASE ~Stop
  <2>1. ~up
    BY <1>2, QueueUse DEF queueVars, Queue!Enqueue, Queue!PopNext, Queue!Clear,
       Queue!Load, Queue!RemoveItem
  <2>2. pc[u] = "idle" /\ \A t \in Threads : pc[t] = "idle"
    BY <2>1 DEF ThreadInv
  <2>3. ASSUME NEW t \in Threads, ThreadStep(t) \/ Request(t) \/ Load(t) PROVE FALSE
    BY <2>1, <2>2, <2>3 DEF ThreadStep, Probe, Sweep, Enqueue, ClearState, Spawn,
       OpenBridge, Signal, Poll, Abort, Closing, Pop, Request, StartRequest,
       ResumeRequest, CancelRequest, ConsumeRequest, Load, Queue!Load
  <2>4. UNCHANGED threadVars
    BY <1>2, <2>3 DEF Next, WorkerStep, BootCheck, BootSweep, WritePid, Begin, Finish,
       WriteFinal, Exit, WorkerEvent, BootFail, Report, SaveState, RootFails, ParentGone,
       HardKill, ShellStart, DismissRequest, EditQueue, Reap, vars
  <2> QED BY <2>2, <2>4 DEF threadVars
<1> QED BY <1>1, <1>2

(* Types, consistent threads and a sound queue are invariant together.     *)
BaseInv == ThreadInv /\ QP!IInv

LEMMA SpecBaseInv == Spec => []BaseInv
<1>1. Init => BaseInv
  BY InitThreadInv, InitQueue DEF BaseInv
<1>2. BaseInv /\ [Next]_vars => BaseInv'
  BY NextThreads, NextData, NextDown, NextQueue DEF BaseInv, ThreadInv
<1> QED BY <1>1, <1>2, PTL DEF Spec

(* Every variable keeps its type. *)
THEOREM TypeCorrect == Spec => []TypeOK
<1>1. BaseInv => TypeOK
  BY DEF BaseInv, ThreadInv, DataTypes, ThreadsOK, TypeOK, QP!IInv, QP!TypeOK,
     QP!Item, Queue!TypeOK, Queue!Item
<1> QED BY <1>1, SpecBaseInv, PTL

(* The service implements the scan queue: threads, requests and restarts   *)
(* change it only by enqueue, pop_next, remove, clear, a stop or a load.   *)
THEOREM UsesQueue == Spec => QP!Spec
<1>1. Init => QP!Init
  BY DEF Init, Queue!Init, QP!Init
<1>2. BaseInv /\ [Next]_vars => [QP!Next]_(QP!vars)
  BY QueueStep DEF BaseInv
<1> QED BY <1>1, <1>2, SpecBaseInv, PTL DEF Spec, QP!Spec

(* So the queue of the running service is durable, as ScanQueueProofs      *)
(* proves: enqueued scans are handed to the consumer once and in order,    *)
(* and restarts of the server are invisible to them.                       *)
COROLLARY ServiceQueueIsDurable == Spec => QP!IsDurable
BY UsesQueue, QP!QueueIsDurable, QueueConstants
-----------------------------------------------------------------------------
(* The job and its bridge.  Among consistent threads, bridging is being in *)
(* the bridge for any purpose but its finally block.                       *)

(* The threads other than t keep what they do. *)
Others(t) == \A u \in Threads \ {t} : pc'[u] = pc[u] /\ arg'[u].why = arg[u].why

LEMMA SameBridge ==
  ASSUME JobHasBridge, NEW t \in Threads, Others(t), job' = job,
         Bridging(t)' <=> Bridging(t)
  PROVE  JobHasBridge'
<1>1. \A u \in Threads : Bridging(u)' <=> Bridging(u)
  BY DEF Others, Bridging
<1> QED BY <1>1 DEF JobHasBridge

LEMMA BridgeOpens ==
  ASSUME JobHasBridge, NEW t \in Threads, Others(t), job # "running",
         job' = "running", Bridging(t)'
  PROVE  JobHasBridge'
<1>1. \A u \in Threads \ {t} : ~Bridging(u)'
  <2>1. \A u \in Threads : ~Bridging(u)
    BY DEF JobHasBridge
  <2> QED BY <2>1 DEF Others, Bridging
<1> QED BY <1>1 DEF JobHasBridge

LEMMA BridgeCloses ==
  ASSUME JobHasBridge, NEW t \in Threads, Others(t), Bridging(t),
         job' # "running", ~Bridging(t)'
  PROVE  JobHasBridge'
<1>1. \A u \in Threads \ {t} : ~Bridging(u)'
  <2>1. \A u \in Threads \ {t} : ~Bridging(u)
    BY DEF JobHasBridge
  <2> QED BY <2>1 DEF Others, Bridging
<1> QED BY <1>1 DEF JobHasBridge

LEMMA GotoOthers ==
  ASSUME ThreadsOK, NEW t \in Threads, NEW p, Goto(t, p)
  PROVE  Others(t) /\ pc'[t] = p /\ (arg'[t] = IF p = "idle" THEN IdleArg ELSE arg[t])
BY DEF Goto, Others, ThreadsOK

LEMMA SetOthers ==
  ASSUME ThreadsOK, NEW t \in Threads, NEW p, NEW a,
         pc' = [pc EXCEPT ![t] = p], arg' = [arg EXCEPT ![t] = a]
  PROVE  Others(t) /\ pc'[t] = p /\ arg'[t] = a
BY DEF Others, ThreadsOK

LEMMA RequestBridge ==
  ASSUME ThreadsOK, JobHasBridge, NEW t \in Threads, Request(t)
  PROVE  JobHasBridge'
<1>1. job' = job /\ pc[t] = "idle" /\ Fits(pc[t], arg[t])
  BY DEF Request, StartRequest, ResumeRequest, CancelRequest, ConsumeRequest, ThreadsOK
<1>2. ~Bridging(t)
  BY <1>1 DEF Bridging
<1>3. Others(t) /\ ~Bridging(t)'
  <2>1. ASSUME NEW root \in Roots, StartRequest(t, root) PROVE Others(t) /\ ~Bridging(t)'
    <3> DEFINE a == [IdleArg EXCEPT !.why = "start", !.root = root]
               p == IF job = "running" THEN "enqueue" ELSE "probe"
    <3>1. a.why = "start" /\ p \in {"enqueue", "probe"}
      BY DEF IdleArg
    <3>2. pc' = [pc EXCEPT ![t] = p] /\ arg' = [arg EXCEPT ![t] = a]
      BY <2>1 DEF StartRequest
    <3> HIDE DEF a, p
    <3> QED BY <3>1, <3>2, SetOthers DEF Bridging
  <2>2. ASSUME ResumeRequest(t) PROVE Others(t) /\ ~Bridging(t)'
    <3> DEFINE a == [IdleArg EXCEPT !.why = "resume", !.root = scanState]
    <3>1. a.why = "resume"
      BY DEF IdleArg
    <3>2. pc' = [pc EXCEPT ![t] = "probe"] /\ arg' = [arg EXCEPT ![t] = a]
      BY <2>2 DEF ResumeRequest
    <3> HIDE DEF a
    <3> QED BY <3>1, <3>2, SetOthers DEF Bridging
  <2>3. ASSUME CancelRequest(t) PROVE Others(t) /\ ~Bridging(t)'
    <3> DEFINE a == [IdleArg EXCEPT !.why = "cancel"]
    <3>1. a.why = "cancel"
      BY DEF IdleArg
    <3>2. pc' = [pc EXCEPT ![t] = "probe"] /\ arg' = [arg EXCEPT ![t] = a]
      BY <2>3 DEF CancelRequest
    <3> HIDE DEF a
    <3> QED BY <3>1, <3>2, SetOthers DEF Bridging
  <2>4. ASSUME ConsumeRequest(t) PROVE Others(t) /\ ~Bridging(t)'
    BY <2>4, GotoOthers DEF ConsumeRequest, Bridging
  <2> QED BY <2>1, <2>2, <2>3, <2>4 DEF Request
<1> QED BY <1>1, <1>2, <1>3, SameBridge

LEMMA StepBridge ==
  ASSUME ThreadInv, JobHasBridge, NEW t \in Threads, ThreadStep(t)
  PROVE  JobHasBridge'
<1>1. ThreadsOK /\ Fits(pc[t], arg[t])
  BY DEF ThreadInv, ThreadsOK
<1>2. ASSUME Probe(t) \/ Sweep(t) PROVE JobHasBridge'
  <2>1. arg[t].why \in Probes /\ pc[t] \in {"probe", "sweep"} /\ job' = job
    BY <1>1, <1>2 DEF Probe, Sweep, Fits
  <2>2. PICK p \in {WhenNot[arg[t].why], WhenRunning[arg[t].why], "sweep"} : Goto(t, p)
    BY <1>2 DEF Probe, Sweep
  <2>3. Others(t) /\ pc'[t] = p /\ arg'[t] = IF p = "idle" THEN IdleArg ELSE arg[t]
    BY <1>1, <2>2, GotoOthers
  <2>4. CASE arg[t].why = "bridge"
    <3>1. p \in {"abort", "poll", "sweep"}
      BY <2>2, <2>4, Answers
    <3>2. Bridging(t) /\ Bridging(t)'
      BY <2>1, <2>3, <2>4, <3>1 DEF Bridging
    <3> QED BY <2>1, <2>3, <3>2, SameBridge
  <2>5. CASE arg[t].why # "bridge"
    <3>1. p \notin {"abort", "poll"}
      BY <2>1, <2>2, <2>5, Answers DEF Probes
    <3>2. ~Bridging(t) /\ ~Bridging(t)'
      BY <2>1, <2>3, <2>5, <3>1, Idle DEF Bridging
    <3> QED BY <2>1, <2>3, <3>2, SameBridge
  <2> QED BY <2>4, <2>5
<1>3. ASSUME Enqueue(t) \/ ClearState(t) PROVE JobHasBridge'
  <2>1. PICK p \in {"idle", "spawn"} : Goto(t, p)
    BY <1>3 DEF Enqueue, ClearState
  <2>2. job' = job /\ ~Bridging(t)
    BY <1>3 DEF Enqueue, ClearState, Bridging
  <2>3. Others(t) /\ ~Bridging(t)'
    BY <1>1, <2>1, GotoOthers DEF Bridging
  <2> QED BY <2>2, <2>3, SameBridge
<1>4. ASSUME NEW w \in Workers, Spawn(t, w) PROVE JobHasBridge'
  <2> DEFINE a == [IdleArg EXCEPT !.w = w]
  <2>1. pc' = [pc EXCEPT ![t] = "open"] /\ arg' = [arg EXCEPT ![t] = a]
    BY <1>4 DEF Spawn
  <2>2. job' = job /\ ~Bridging(t)
    BY <1>4 DEF Spawn, Bridging
  <2> HIDE DEF a
  <2>3. Others(t) /\ pc'[t] = "open"
    BY <1>1, <2>1, SetOthers
  <2>4. ~Bridging(t)'
    BY <2>3 DEF Bridging
  <2> QED BY <2>2, <2>3, <2>4, SameBridge
<1>5. ASSUME OpenBridge(t) PROVE JobHasBridge'
  <2> DEFINE a == [arg[t] EXCEPT !.why = "bridge"]
  <2>1. ~Bridging(t)
    BY <1>5 DEF OpenBridge, Bridging
  <2>2. CASE /\ MayOpen /\ job' = "running"
             /\ pc' = [pc EXCEPT ![t] = "poll"] /\ arg' = [arg EXCEPT ![t] = a]
    <3> HIDE DEF a
    <3>1. Others(t) /\ pc'[t] = "poll"
      BY <1>1, <2>2, SetOthers
    <3> QED BY <2>2, <3>1, BridgeOpens DEF MayOpen, Bridging
  <2>3. CASE Goto(t, "idle") /\ UNCHANGED job
    <3>1. Others(t) /\ pc'[t] = "idle"
      BY <1>1, <2>3, GotoOthers
    <3> QED BY <2>1, <2>3, <3>1, SameBridge DEF Bridging
  <2> QED BY <1>5, <2>2, <2>3 DEF OpenBridge
<1>6. ASSUME Signal(t) PROVE JobHasBridge'
  <2>1. PICK p \in {"idle", "sweep"} : Goto(t, p)
    BY <1>6 DEF Signal
  <2>2. job' = job /\ pc[t] = "signal" /\ arg[t].why = "cancel"
    BY <1>1, <1>6 DEF Signal, Fits
  <2>3. Others(t) /\ ~Bridging(t) /\ ~Bridging(t)'
    BY <1>1, <2>1, <2>2, GotoOthers, Idle DEF Bridging
  <2> QED BY <2>2, <2>3, SameBridge
<1>7. ASSUME Poll(t) \/ Abort(t) PROVE JobHasBridge'
  <2>1. Bridging(t) /\ arg[t].why = "bridge"
    BY <1>1, <1>7 DEF Poll, Abort, Bridging, Fits
  <2>2. CASE Goto(t, "probe") /\ job' = job
    <3>1. Others(t) /\ Bridging(t)'
      BY <1>1, <2>1, <2>2, GotoOthers DEF Bridging
    <3> QED BY <2>1, <2>2, <3>1, SameBridge
  <2>3. CASE Goto(t, "closing") /\ job' \in Outcomes
    <3>1. Others(t) /\ ~Bridging(t)'
      BY <1>1, <2>3, GotoOthers DEF Bridging
    <3> QED BY <2>1, <2>3, <3>1, BridgeCloses DEF Outcomes
  <2> QED BY <1>7, <2>2, <2>3 DEF Poll, Abort, Outcomes
<1>8. ASSUME Closing(t) PROVE JobHasBridge'
  <2>1. pc' = [pc EXCEPT ![t] = "pop"] /\ arg' = [arg EXCEPT ![t] = IdleArg]
    BY <1>8 DEF Closing, AfterClosing
  <2>2. job' = job /\ ~Bridging(t)
    BY <1>8 DEF Closing, Bridging
  <2>3. Others(t) /\ pc'[t] = "pop"
    BY <1>1, <2>1, SetOthers
  <2>4. ~Bridging(t)'
    BY <2>3 DEF Bridging
  <2> QED BY <2>2, <2>3, <2>4, SameBridge
<1>9. ASSUME Pop(t) PROVE JobHasBridge'
  <2> DEFINE a == Popped(Head(items))
  <2>1. \/ Goto(t, "idle")
        \/ pc' = [pc EXCEPT ![t] = "clear"] /\ arg' = [arg EXCEPT ![t] = a]
    BY <1>9 DEF Pop
  <2>2. job' = job /\ ~Bridging(t)
    BY <1>9 DEF Pop, Bridging
  <2> HIDE DEF a
  <2>3. Others(t) /\ ~Bridging(t)'
    BY <1>1, <2>1, GotoOthers, SetOthers DEF Bridging
  <2> QED BY <2>2, <2>3, SameBridge
<1> QED BY <1>2, <1>3, <1>4, <1>5, <1>6, <1>7, <1>8, <1>9 DEF ThreadStep

LEMMA NextBridge == ThreadInv /\ JobHasBridge /\ [Next]_vars => JobHasBridge'
<1> SUFFICES ASSUME ThreadInv, JobHasBridge, [Next]_vars PROVE JobHasBridge'
  OBVIOUS
<1>1. ASSUME NEW t \in Threads, ThreadStep(t) \/ Request(t) PROVE JobHasBridge'
  BY <1>1, StepBridge, RequestBridge DEF ThreadInv
<1>2. ASSUME NEW t \in Threads, Load(t), ~UNCHANGED threadVars PROVE JobHasBridge'
  <2>1. pc[t] = "idle" /\ Goto(t, "pop") /\ job' = job
    BY <1>2 DEF Load, Queue!Load, ThreadInv
  <2>2. Others(t) /\ ~Bridging(t) /\ ~Bridging(t)'
    BY <2>1, GotoOthers DEF ThreadInv, Bridging
  <2> QED BY <2>1, <2>2, SameBridge
<1>3. ASSUME Stop PROVE JobHasBridge'
  <2>1. job' = "none" /\ \A t \in Threads : pc'[t] = "idle"
    BY <1>3 DEF Stop
  <2>2. \A t \in Threads : ~Bridging(t)'
    BY <2>1 DEF Bridging
  <2> QED BY <2>1, <2>2 DEF JobHasBridge
<1>4. ASSUME UNCHANGED <<threadVars, job>> PROVE JobHasBridge'
  BY <1>4 DEF threadVars, JobHasBridge, Bridging
<1>5. ASSUME NEW t \in Threads, Load(t), UNCHANGED threadVars PROVE UNCHANGED <<threadVars, job>>
  BY <1>5 DEF Load
<1>6. ASSUME NEW w \in Workers, WorkerStep(w) \/ WorkerEvent(w)
      PROVE  UNCHANGED <<threadVars, job>>
  BY <1>6 DEF WorkerStep, BootCheck, BootSweep, WritePid, Begin, Finish, WriteFinal, Exit,
     WorkerEvent, BootFail, Report, SaveState, RootFails, ParentGone, HardKill, ShellStart
<1>7. ASSUME DismissRequest \/ EditQueue \/ Reap \/ UNCHANGED vars
      PROVE  UNCHANGED <<threadVars, job>>
  BY <1>7 DEF DismissRequest, EditQueue, Reap, vars
<1> QED BY <1>1, <1>2, <1>3, <1>4, <1>5, <1>6, <1>7 DEF Next

(* The job "scan" runs exactly as long as one bridge thread holds it.      *)
THEOREM JobHasBridgeCorrect == Spec => []JobHasBridge
<1>1. Init => JobHasBridge
  BY DEF Init, JobHasBridge, Bridging
<1>2. BaseInv /\ JobHasBridge /\ [Next]_vars => JobHasBridge'
  BY NextBridge DEF BaseInv
<1> QED BY <1>1, <1>2, SpecBaseInv, PTL DEF Spec
-----------------------------------------------------------------------------
(* Queued requests are launched once.  Whoever holds an item was handed it *)
(* by pop_next, so that the item is in no queue; and it has one holder.    *)
Given == ToSet(handed)

OneHolder ==
  /\ \A t \in Threads : arg[t].qid # 0 =>
       /\ arg[t].qid \in Given
       /\ \A u \in Threads : arg[u].qid = arg[t].qid => u = t
       /\ \A w \in Workers : info[w].qid # arg[t].qid
  /\ \A w \in Workers : info[w].qid # 0 =>
       /\ info[w].qid \in Given
       /\ \A v \in Workers : info[v].qid = info[w].qid => v = w

(* A step in which no item changes hands, though it may be dropped.        *)
LEMMA NoTransfer ==
  ASSUME OneHolder, Given \subseteq Given',
         \A t \in Threads : arg'[t].qid \in {0, arg[t].qid},
         \A w \in Workers : info'[w].qid \in {0, info[w].qid}
  PROVE  OneHolder'
BY DEF OneHolder

(* A thread pops an item that nobody was given before. *)
LEMMA TakeItem ==
  ASSUME OneHolder, NEW t \in Threads, arg'[t].qid \notin Given,
         Given' = Given \cup {arg'[t].qid},
         \A u \in Threads \ {t} : arg'[u] = arg[u],
         \A w \in Workers : info'[w].qid = info[w].qid
  PROVE  OneHolder'
<1>1. \A u \in Threads \ {t} : arg'[u].qid # 0 => arg'[u].qid \in Given
  BY DEF OneHolder
<1>2. \A w \in Workers : info'[w].qid # 0 => info'[w].qid \in Given
  BY DEF OneHolder
<1>3. ASSUME NEW u \in Threads, arg'[u].qid # 0
      PROVE  /\ arg'[u].qid \in Given'
             /\ \A x \in Threads : arg'[x].qid = arg'[u].qid => x = u
             /\ \A w \in Workers : info'[w].qid # arg'[u].qid
  <2>1. CASE u = t
    BY <1>1, <1>2, <1>3, <2>1
  <2>2. CASE u # t
    <3>1. arg'[u] = arg[u] /\ arg'[u].qid \in Given
      BY <1>1, <1>3, <2>2
    <3> QED BY <1>3, <2>2, <3>1 DEF OneHolder
  <2> QED BY <2>1, <2>2
<1>4. ASSUME NEW w \in Workers, info'[w].qid # 0
      PROVE  /\ info'[w].qid \in Given'
             /\ \A v \in Workers : info'[v].qid = info'[w].qid => v = w
  BY <1>2, <1>4 DEF OneHolder
<1> QED BY <1>3, <1>4 DEF OneHolder

(* A thread passes the item it holds, if any, to a worker it spawns. *)
LEMMA PassItem ==
  ASSUME OneHolder, NEW t \in Threads, NEW w \in Workers, Given' = Given,
         arg'[t].qid = 0, \A u \in Threads \ {t} : arg'[u] = arg[u],
         info'[w].qid = arg[t].qid, \A v \in Workers \ {w} : info'[v] = info[v]
  PROVE  OneHolder'
<1>1. ASSUME NEW u \in Threads, arg'[u].qid # 0
      PROVE  /\ arg'[u].qid \in Given'
             /\ \A x \in Threads : arg'[x].qid = arg'[u].qid => x = u
             /\ \A v \in Workers : info'[v].qid # arg'[u].qid
  <2>1. u # t /\ arg'[u] = arg[u]
    BY <1>1
  <2>2. \A x \in Threads : arg'[x].qid = arg'[u].qid => x = u
    BY <1>1, <2>1 DEF OneHolder
  <2>3. \A v \in Workers : info'[v].qid # arg'[u].qid
    <3>1. arg[t].qid # arg[u].qid
      BY <1>1, <2>1 DEF OneHolder
    <3> QED BY <1>1, <2>1, <3>1 DEF OneHolder
  <2> QED BY <1>1, <2>1, <2>2, <2>3 DEF OneHolder
<1>2. ASSUME NEW v \in Workers, info'[v].qid # 0
      PROVE  /\ info'[v].qid \in Given'
             /\ \A x \in Workers : info'[x].qid = info'[v].qid => x = v
  <2>1. CASE v = w
    BY <1>2, <2>1 DEF OneHolder
  <2>2. CASE v # w
    <3>1. info'[v] = info[v] /\ info[v].qid # 0
      BY <1>2, <2>2
    <3>2. info'[w].qid # info'[v].qid
      BY <3>1 DEF OneHolder
    <3> QED BY <3>1, <3>2 DEF OneHolder
  <2> QED BY <2>1, <2>2
<1> QED BY <1>1, <1>2 DEF OneHolder

(* What the queue operations do to the ids given out. *)
LEMMA QueueGiven ==
  ASSUME [Next]_vars, QP!IInv
  PROVE  IF Queue!PopNext
         THEN /\ Given' = Given \cup {Head(items).id}
              /\ Head(items).id \notin Given
         ELSE handed' = handed
<1>1. CASE Queue!PopNext
  <2>1. items \in Seq(QP!Item) /\ items # <<>> /\ handed \in Seq(Nat)
        /\ handed' = Append(handed, Head(items).id)
    BY <1>1 DEF Queue!PopNext, Queue!SaveFail, QP!IInv, QP!TypeOK
  <2>2. Head(items).id \in Nat /\ Head(items) = items[1] /\ 1 \in DOMAIN items
    BY <2>1, HeadItem
  <2>3. Given' = Given \cup {Head(items).id}
    <3>1. \A s \in Seq(Nat), e \in Nat : QP!ToSet(Append(s, e)) = QP!ToSet(s) \cup {e}
      BY QP!AppendSet, QueueConstants
    <3>2. \A s : ToSet(s) = QP!ToSet(s)
      BY DEF ToSet, QP!ToSet
    <3>3. ToSet(handed') = ToSet(handed) \cup {Head(items).id}
      BY <2>1, <2>2, <3>1, <3>2
    <3> QED BY <3>3 DEF Given
  <2>4. Head(items).id \in QP!Ids(items)
    BY <2>2 DEF QP!Ids
  <2>5. Given \cap QP!Ids(items) = {}
    BY DEF QP!IInv, QP!NoResurrection, QP!Settled, Given, ToSet, QP!ToSet
  <2> QED BY <1>1, <2>3, <2>4, <2>5
<1>2. CASE ~Queue!PopNext
  BY <1>2, QueueUse DEF queueVars, Queue!Enqueue, Queue!Clear, Queue!Stop, Queue!Load,
     Queue!RemoveItem
<1> QED BY <1>1, <1>2

LEMMA ThreadHolder ==
  ASSUME ThreadInv, QP!IInv, OneHolder, [Next]_vars, NEW t \in Threads,
         ThreadStep(t) \/ Request(t) \/ Load(t)
  PROVE  OneHolder'
<1>1. /\ ThreadsOK /\ arg \in [Threads -> Arg] /\ arg[t] \in Arg
      /\ info \in [Workers -> Info] /\ pidFile \in Workers \cup {NoWorker}
  BY DEF ThreadInv, ThreadsOK, DataTypes
<1>2. Given \subseteq Given'
  BY QueueGiven DEF Given
<1>3. ASSUME \A u \in Threads : arg'[u].qid \in {0, arg[u].qid}, UNCHANGED info
      PROVE  OneHolder'
  BY <1>2, <1>3, NoTransfer
<1>4. ASSUME NEW a, a.qid \in {0, arg[t].qid}, arg' = [arg EXCEPT ![t] = a]
      PROVE  \A u \in Threads : arg'[u].qid \in {0, arg[u].qid}
  BY <1>1, <1>4
<1>5. ASSUME NEW p, Goto(t, p)
      PROVE  \A u \in Threads : arg'[u].qid \in {0, arg[u].qid}
  BY <1>1, <1>4, <1>5, Idle DEF Goto
<1>6. ASSUME NEW w \in Workers, Spawn(t, w) PROVE OneHolder'
  <2> DEFINE a == [IdleArg EXCEPT !.w = w]
             i == [NoInfo EXCEPT !.root = arg[t].root, !.qid = arg[t].qid,
                                 !.parent = "server"]
  <2>1. a.qid = 0 /\ i.qid = arg[t].qid
    BY DEF IdleArg, NoInfo
  <2>2. /\ arg' = [arg EXCEPT ![t] = a] /\ info' = [info EXCEPT ![w] = i]
        /\ handed' = handed
    BY <1>6 DEF Spawn, queueVars
  <2> HIDE DEF a, i
  <2>3. /\ arg'[t].qid = 0 /\ \A u \in Threads \ {t} : arg'[u] = arg[u]
        /\ info'[w].qid = arg[t].qid /\ \A v \in Workers \ {w} : info'[v] = info[v]
    BY <1>1, <2>1, <2>2
  <2>4. Given' = Given
    BY <2>2 DEF Given
  <2> QED BY <2>3, <2>4, PassItem
<1>7. ASSUME Pop(t) PROVE OneHolder'
  <2> DEFINE a == Popped(Head(items))
  <2>1. UNCHANGED info
    BY <1>7 DEF Pop, workerVars
  <2>2. CASE Goto(t, "idle")
    BY <1>3, <1>5, <2>1, <2>2
  <2>3. CASE Queue!PopNext /\ arg' = [arg EXCEPT ![t] = a]
    <3>1. a.qid = Head(items).id
      BY DEF Popped, IdleArg
    <3> HIDE DEF a
    <3>2. arg'[t] = a /\ \A u \in Threads \ {t} : arg'[u] = arg[u]
      BY <1>1, <2>3
    <3>3. Given' = Given \cup {a.qid} /\ a.qid \notin Given
      BY <2>3, <3>1, QueueGiven
    <3> QED BY <2>1, <3>2, <3>3, TakeItem
  <2> QED BY <1>7, <2>2, <2>3 DEF Pop
<1>8. ASSUME OpenBridge(t) PROVE OneHolder'
  <2> DEFINE a == [arg[t] EXCEPT !.why = "bridge"]
  <2>1. UNCHANGED info
    BY <1>8 DEF OpenBridge, workerVars
  <2>2. a.qid = arg[t].qid
    BY <1>1 DEF Arg
  <2>3. Goto(t, "idle") \/ arg' = [arg EXCEPT ![t] = a]
    BY <1>8 DEF OpenBridge
  <2> HIDE DEF a
  <2> QED BY <1>3, <1>4, <1>5, <2>1, <2>2, <2>3
<1>9. ASSUME Signal(t) PROVE OneHolder'
  <2>1. \A u \in Threads : arg'[u].qid \in {0, arg[u].qid}
    BY <1>5, <1>9 DEF Signal
  <2>2. \A w \in Workers : info'[w].qid = info[w].qid
    BY <1>1, <1>9 DEF Signal, Signalled, workerVars, Info
  <2> QED BY <1>2, <2>1, <2>2, NoTransfer
<1>10. ASSUME Request(t) PROVE OneHolder'
  <2>1. UNCHANGED info
    BY <1>10 DEF Request, StartRequest, ResumeRequest, CancelRequest, ConsumeRequest,
       workerVars
  <2>2. ASSUME NEW root \in Roots, StartRequest(t, root) PROVE OneHolder'
    <3> DEFINE a == [IdleArg EXCEPT !.why = "start", !.root = root]
    <3>1. a.qid = 0 /\ arg' = [arg EXCEPT ![t] = a]
      BY <2>2 DEF StartRequest, IdleArg
    <3> HIDE DEF a
    <3> QED BY <1>3, <1>4, <2>1, <3>1
  <2>3. ASSUME ResumeRequest(t) PROVE OneHolder'
    <3> DEFINE a == [IdleArg EXCEPT !.why = "resume", !.root = scanState]
    <3>1. a.qid = 0 /\ arg' = [arg EXCEPT ![t] = a]
      BY <2>3 DEF ResumeRequest, IdleArg
    <3> HIDE DEF a
    <3> QED BY <1>3, <1>4, <2>1, <3>1
  <2>4. ASSUME CancelRequest(t) PROVE OneHolder'
    <3> DEFINE a == [IdleArg EXCEPT !.why = "cancel"]
    <3>1. a.qid = 0 /\ arg' = [arg EXCEPT ![t] = a]
      BY <2>4 DEF CancelRequest, IdleArg
    <3> HIDE DEF a
    <3> QED BY <1>3, <1>4, <2>1, <3>1
  <2>5. ASSUME ConsumeRequest(t) PROVE OneHolder'
    BY <1>3, <1>5, <2>1, <2>5 DEF ConsumeRequest
  <2> QED BY <1>10, <2>2, <2>3, <2>4, <2>5 DEF Request
<1>11. ASSUME Load(t) PROVE OneHolder'
  BY <1>3, <1>5, <1>11 DEF Load, threadVars, workerVars
<1>12. ASSUME \/ Probe(t) \/ Sweep(t) \/ Enqueue(t) \/ ClearState(t)
              \/ Poll(t) \/ Abort(t)
       PROVE  OneHolder'
  <2>1. UNCHANGED info /\ \E p : Goto(t, p)
    BY <1>12 DEF Probe, Sweep, Enqueue, ClearState, Poll, Abort, workerVars
  <2> QED BY <1>3, <1>5, <2>1
<1>13. ASSUME Closing(t) PROVE OneHolder'
  BY <1>3, <1>4, <1>13, Idle DEF Closing, workerVars
<1> QED BY <1>6, <1>7, <1>8, <1>9, <1>10, <1>11, <1>12, <1>13 DEF ThreadStep

LEMMA NextHolder == ThreadInv /\ QP!IInv /\ OneHolder /\ [Next]_vars => OneHolder'
<1> SUFFICES ASSUME ThreadInv, QP!IInv, OneHolder, [Next]_vars PROVE OneHolder'
  OBVIOUS
<1>1. Given \subseteq Given' /\ info \in [Workers -> Info]
  BY QueueGiven DEF Given, ThreadInv, DataTypes
<1>2. ASSUME NEW w \in Workers, WorkerStep(w) \/ WorkerEvent(w) PROVE OneHolder'
  <2>1. UNCHANGED arg
    BY <1>2 DEF WorkerStep, BootCheck, BootSweep, WritePid, Begin, Finish, WriteFinal,
       Exit, WorkerEvent, BootFail, Report, SaveState, RootFails, ParentGone, HardKill,
       ShellStart, threadVars
  <2>2. \A v \in Workers : info'[v].qid \in {0, info[v].qid}
    <3>1. CASE UNCHANGED info
      BY <3>1
    <3>2. CASE Finish(w) \/ RootFails(w) \/ ParentGone(w)
      BY <1>1, <3>2 DEF Finish, RootFails, ParentGone, Info
    <3>3. ASSUME NEW root \in Roots, ShellStart(w, root)
          PROVE  \A v \in Workers : info'[v].qid \in {0, info[v].qid}
      <4> DEFINE i == [NoInfo EXCEPT !.root = root, !.parent = "shell"]
      <4>1. i.qid = 0 /\ info' = [info EXCEPT ![w] = i]
        BY <3>3 DEF ShellStart, NoInfo
      <4> HIDE DEF i
      <4> QED BY <1>1, <4>1
    <3> QED BY <1>2, <3>1, <3>2, <3>3 DEF WorkerStep, BootCheck, BootSweep, WritePid,
            Begin, WriteFinal, Exit, WorkerEvent, BootFail, Report, SaveState, HardKill,
            workerVars
  <2> QED BY <1>1, <2>1, <2>2, NoTransfer
<1>3. ASSUME Stop PROVE OneHolder'
  <2>1. \A t \in Threads : arg'[t].qid = 0
    BY <1>3, Idle DEF Stop
  <2>2. \A w \in Workers : info'[w].qid = info[w].qid
    BY <1>1, <1>3 DEF Stop, Info
  <2> QED BY <1>1, <2>1, <2>2, NoTransfer
<1>4. ASSUME DismissRequest \/ EditQueue \/ Reap \/ UNCHANGED vars PROVE OneHolder'
  <2>1. UNCHANGED <<arg, info>>
    BY <1>4 DEF DismissRequest, EditQueue, Reap, vars, threadVars, workerVars
  <2> QED BY <1>1, <2>1, NoTransfer
<1> QED BY <1>2, <1>3, <1>4, ThreadHolder DEF Next

(* A queued request is launched at most once. *)
THEOREM LaunchedOnceCorrect == Spec => []LaunchedOnce
<1>1. Init => OneHolder
  BY Idle DEF Init, OneHolder, NoInfo
<1>2. BaseInv /\ OneHolder /\ [Next]_vars => OneHolder'
  BY NextHolder DEF BaseInv
<1>3. BaseInv /\ OneHolder => LaunchedOnce
  <2>1. BaseInv => Given \cap (Queue!Ids(items) \cup Queue!Ids(file)) = {}
    BY DEF BaseInv, QP!IInv, QP!NoResurrection, QP!Settled, QP!Ids, QP!ToSet, Given,
       ToSet, Queue!Ids
  <2> QED BY <2>1 DEF OneHolder, LaunchedOnce
<1> QED BY <1>1, <1>2, <1>3, SpecBaseInv, PTL DEF Spec
-----------------------------------------------------------------------------
(* One worker.  Between its look at worker.pid and its own write to it a   *)
(* worker is entering.  If nobody starts or sweeps meanwhile, the pid file *)
(* names every worker that is held, and nobody enters, or is about to      *)
(* remove the file, while one is.                                          *)
Entering(w) == st[w] \in {"sweep", "init"}
IsHeld(w) == st[w] \in Held
Sweeping(t) == pc[t] = "sweep"

Exclusive ==
  /\ \A w \in Workers : IsHeld(w) => pidFile = w
  /\ \A v, w \in Workers : Entering(v) => ~IsHeld(w) /\ (Entering(w) => v = w)
  /\ \A t \in Threads, w \in Workers : Sweeping(t) => ~IsHeld(w) /\ ~Entering(w)

(* A step that lets nobody in, whatever workers leave. *)
LEMMA NobodyEnters ==
  ASSUME Exclusive, pidFile' = pidFile,
         \A w \in Workers : (IsHeld(w)' => IsHeld(w)) /\ (Entering(w)' => Entering(w)),
         \A t \in Threads : Sweeping(t)' => Sweeping(t)
  PROVE  Exclusive'
BY DEF Exclusive

(* A thread has found the pid of a dead process, and nobody is entering. *)
LEMMA ThreadWillSweep ==
  ASSUME Exclusive, pidFile' = pidFile, ~LivePid,
         \A w \in Workers : ~Entering(w),
         \A w \in Workers : (IsHeld(w)' <=> IsHeld(w)) /\ (Entering(w)' <=> Entering(w))
  PROVE  Exclusive'
<1>1. \A w \in Workers : IsHeld(w) => Alive(w) /\ pidFile = w
  BY DEF Exclusive, IsHeld, Held, Alive
<1>2. \A w \in Workers : ~IsHeld(w)
  <2>1. ServiceAssumption => \A w \in Workers : w # NoWorker
    BY DEF ServiceAssumption
  <2> QED BY <1>1, <2>1, ServiceAssumption DEF LivePid
<1> QED BY <1>2 DEF Exclusive

(* The pid file is removed while nobody is held, whatever it named.        *)
LEMMA NobodyHeld ==
  ASSUME Exclusive, \A w \in Workers : ~IsHeld(w)' /\ (Entering(w)' => Entering(w)),
         \A t \in Threads : Sweeping(t)' => Sweeping(t)
  PROVE  Exclusive'
BY DEF Exclusive

LEMMA StepExclusive ==
  ASSUME ThreadInv, Exclusive, ~BootOverlap, NEW t \in Threads,
         ThreadStep(t) \/ Request(t) \/ Load(t)
  PROVE  Exclusive'
<1>1. /\ pc \in [Threads -> PCs] /\ st \in [Workers -> Stages]
      /\ pidFile \in Workers \cup {NoWorker} /\ Fits(pc[t], arg[t])
  BY DEF ThreadInv, ThreadsOK, DataTypes
<1>2. ASSUME NEW p, p # "sweep", pc' = [pc EXCEPT ![t] = p]
      PROVE  \A u \in Threads : Sweeping(u)' => Sweeping(u) /\ u # t
  BY <1>1, <1>2 DEF Sweeping
<1>3. ASSUME UNCHANGED <<pidFile, st>>,
             UNCHANGED pc \/ \E p : p # "sweep" /\ pc' = [pc EXCEPT ![t] = p]
      PROVE  Exclusive'
  BY <1>2, <1>3, NobodyEnters DEF IsHeld, Entering, Sweeping
<1>4. Quiet => \A w \in Workers : ~Entering(w)
  BY DEF Quiet, Entering
<1>5. ASSUME ~LivePid, Quiet, UNCHANGED <<pidFile, st>> PROVE Exclusive'
  BY <1>4, <1>5, ThreadWillSweep DEF IsHeld, Entering
<1>6. ASSUME Probe(t) PROVE Exclusive'
  <2>1. UNCHANGED <<pidFile, st>> /\ arg[t].why \in Probes
    BY <1>1, <1>6 DEF Probe, ipcVars, workerVars, Fits
  <2>2. CASE StalePid /\ Quiet
    BY <1>5, <2>1, <2>2 DEF StalePid, LivePid
  <2>3. ASSUME NEW p \in {WhenNot[arg[t].why], WhenRunning[arg[t].why]}, Goto(t, p)
        PROVE  Exclusive'
    <3>1. p # "sweep"
      BY <2>1, Answers DEF Probes
    <3> QED BY <1>3, <2>1, <2>3, <3>1 DEF Goto
  <2> QED BY <1>6, <2>2, <2>3 DEF Probe
<1>7. ASSUME Sweep(t) PROVE Exclusive'
  <2>1. UNCHANGED st /\ arg[t].why \in Probes
    BY <1>1, <1>7 DEF Sweep, workerVars, Fits
  <2>2. \A w \in Workers : ~IsHeld(w) /\ ~Entering(w)
    BY <1>7 DEF Sweep, Exclusive, Sweeping
  <2>3. \A w \in Workers : ~IsHeld(w)' /\ ~Entering(w)'
    BY <2>1, <2>2 DEF IsHeld, Entering
  <2> QED BY <2>3 DEF Exclusive
<1>8. ASSUME NEW w \in Workers, Spawn(t, w) PROVE Exclusive'
  <2>1. st' = [Reaped EXCEPT ![w] = "boot"] /\ pidFile' = pidFile
        /\ pc' = [pc EXCEPT ![t] = "open"]
    BY <1>8 DEF Spawn, ipcVars
  <2>2. \A v \in Workers : st'[v] \in {st[v], "off", "boot"}
    BY <1>1, <2>1 DEF Reaped
  <2>3. \A v \in Workers : (IsHeld(v)' => IsHeld(v)) /\ (Entering(v)' => Entering(v))
    BY <2>2 DEF IsHeld, Entering, Held
  <2> QED BY <1>2, <2>1, <2>3, NobodyEnters
<1>9. ASSUME Signal(t) PROVE Exclusive'
  <2>1. pidFile' = pidFile
    BY <1>9 DEF Signal, ipcVars
  <2>2. CASE LivePid /\ Signalled(pidFile) /\ Goto(t, "idle")
    <3>1. \A v \in Workers : st'[v] \in {st[v], "zombie", "off"}
      BY <1>1, <2>2 DEF Signalled, Die, workerVars, LivePid
    <3>2. \A v \in Workers : (IsHeld(v)' => IsHeld(v)) /\ (Entering(v)' => Entering(v))
      BY <3>1 DEF IsHeld, Entering, Held
    <3>3. \A u \in Threads : Sweeping(u)' => Sweeping(u)
      BY <1>2, <2>2 DEF Goto
    <3> QED BY <2>1, <3>2, <3>3, NobodyEnters
  <2>3. CASE ~LivePid /\ Quiet /\ UNCHANGED workerVars
    BY <1>5, <2>1, <2>3 DEF workerVars
  <2> QED BY <1>9, <2>2, <2>3 DEF Signal
<1>10. ASSUME \/ Enqueue(t) \/ ClearState(t) \/ OpenBridge(t) \/ Poll(t) \/ Abort(t)
              \/ Closing(t) \/ Pop(t)
       PROVE  Exclusive'
  <2>1. UNCHANGED <<pidFile, st>> /\ \E p : p # "sweep" /\ pc' = [pc EXCEPT ![t] = p]
    BY <1>10 DEF Enqueue, ClearState, OpenBridge, Poll, Abort, Closing, AfterClosing, Pop,
       Goto, ipcVars, workerVars
  <2> QED BY <1>3, <2>1
<1>11. ASSUME Request(t) PROVE Exclusive'
  <2>1. UNCHANGED <<pidFile, st>> /\ \E p : p # "sweep" /\ pc' = [pc EXCEPT ![t] = p]
    BY <1>11 DEF Request, StartRequest, ResumeRequest, CancelRequest, ConsumeRequest,
       Goto, ipcVars, workerVars
  <2> QED BY <1>3, <2>1
<1>12. ASSUME Load(t) PROVE Exclusive'
  BY <1>3, <1>12 DEF Load, Goto, threadVars, ipcVars, workerVars
<1> QED BY <1>6, <1>7, <1>8, <1>9, <1>10, <1>11, <1>12 DEF ThreadStep

LEMMA WorkerExclusive ==
  ASSUME ThreadInv, Exclusive, ~BootOverlap, NEW w \in Workers,
         WorkerStep(w) \/ WorkerEvent(w)
  PROVE  Exclusive'
<1>1. /\ st \in [Workers -> Stages] /\ pidFile \in Workers \cup {NoWorker}
      /\ NoWorker \notin Workers
  BY ServiceAssumption DEF ThreadInv, DataTypes, ServiceAssumption
<1>2. \A t \in Threads : Sweeping(t)' <=> Sweeping(t)
  BY DEF Sweeping, threadVars, WorkerStep, BootCheck, BootSweep, WritePid, Begin, Finish,
     WriteFinal, Exit, WorkerEvent, BootFail, Report, SaveState, RootFails, ParentGone,
     HardKill, ShellStart
<1>3. ASSUME NEW s, st' = [st EXCEPT ![w] = s]
      PROVE  st'[w] = s /\ \A v \in Workers \ {w} : st'[v] = st[v]
  BY <1>1, <1>3
<1>4. ASSUME pidFile' = pidFile, NEW s, st' = [st EXCEPT ![w] = s],
             s \in Held => IsHeld(w), s \in {"sweep", "init"} => Entering(w)
      PROVE  Exclusive'
  <2>1. \A v \in Workers : (IsHeld(v)' => IsHeld(v)) /\ (Entering(v)' => Entering(v))
    BY <1>3, <1>4 DEF IsHeld, Entering
  <2> QED BY <1>2, <1>4, <2>1, NobodyEnters
<1>5. ASSUME UNCHANGED <<pidFile, st>> PROVE Exclusive'
  BY <1>2, <1>5, NobodyEnters DEF IsHeld, Entering
<1>6. ASSUME BootCheck(w) PROVE Exclusive'
  <2>1. CASE Move(w, "boot", "refused")
    BY <1>4, <1>6, <2>1 DEF BootCheck, Move, ipcVars, Held
  <2>2. CASE ~LivePid /\ Quiet /\ NobodySweeps
    <3>1. PICK s \in {"init", "sweep"} : st' = [st EXCEPT ![w] = s]
      BY <1>6, <2>2 DEF BootCheck, Move
    <3>2. \A v \in Workers : ~IsHeld(v) /\ ~Entering(v)
      BY <1>1, <2>2 DEF Quiet, Entering, Exclusive, IsHeld, Held, LivePid, Alive
    <3>3. \A t \in Threads : ~Sweeping(t)'
      BY <1>2, <2>2 DEF NobodySweeps, Sweeping
    <3>4. \A v \in Workers : ~IsHeld(v)' /\ (Entering(v)' => v = w)
      BY <1>3, <3>1, <3>2 DEF IsHeld, Entering, Held
    <3> QED BY <3>3, <3>4 DEF Exclusive
  <2> QED BY <1>1, <1>6, <2>1, <2>2 DEF BootCheck, LivePid, StalePid
<1>7. ASSUME BootSweep(w) PROVE Exclusive'
  <2>1. Entering(w) /\ st' = [st EXCEPT ![w] = "init"]
    BY <1>7 DEF BootSweep, Move, Entering
  <2>2. \A v \in Workers : ~IsHeld(v)
    BY <2>1 DEF Exclusive
  <2>3. \A v \in Workers : ~IsHeld(v)' /\ (Entering(v)' => Entering(v))
    BY <1>3, <2>1, <2>2 DEF IsHeld, Entering, Held
  <2> QED BY <1>2, <2>3, NobodyHeld
<1>8. ASSUME WritePid(w) PROVE Exclusive'
  <2>1. Entering(w) /\ st' = [st EXCEPT ![w] = "pid"] /\ pidFile' = w
    BY <1>8 DEF WritePid, Move, Entering
  <2>2. \A v \in Workers : ~IsHeld(v) /\ (Entering(v) => v = w)
    BY <2>1 DEF Exclusive
  <2>3. \A v \in Workers : (IsHeld(v)' => v = w) /\ ~Entering(v)'
    BY <1>3, <2>1, <2>2 DEF IsHeld, Entering
  <2>4. \A t \in Threads : ~Sweeping(t)'
    BY <1>2, <2>1 DEF Exclusive
  <2> QED BY <2>1, <2>3, <2>4 DEF Exclusive
<1>9. ASSUME Begin(w) \/ Finish(w) \/ WriteFinal(w) PROVE Exclusive'
  <2>1. PICK s \in Held : st' = [st EXCEPT ![w] = s]
    BY <1>9 DEF Begin, Finish, WriteFinal, Move, Held
  <2>2. IsHeld(w) /\ pidFile' = pidFile
    BY <1>9 DEF Begin, Finish, WriteFinal, Move, IsHeld, Held, ipcVars
  <2> QED BY <1>4, <2>1, <2>2 DEF Held
<1>10. ASSUME Exit(w) PROVE Exclusive'
  <2>1. IsHeld(w) /\ st' = [st EXCEPT ![w] = "off"]
    BY <1>10 DEF Exit, Move, IsHeld, Held
  <2>2. \A v \in Workers : IsHeld(v) => v = w
    BY <2>1 DEF Exclusive
  <2>3. \A v \in Workers : ~IsHeld(v)' /\ (Entering(v)' => Entering(v))
    BY <1>3, <2>1, <2>2 DEF IsHeld, Entering, Held
  <2> QED BY <1>2, <2>3, NobodyHeld
<1>11. ASSUME BootFail(w) PROVE Exclusive'
  BY <1>4, <1>11 DEF BootFail, Move, ipcVars, Held
<1>12. ASSUME HardKill(w) PROVE Exclusive'
  <2>1. PICK s \in {"zombie", "off"} : st' = [st EXCEPT ![w] = s]
    BY <1>12 DEF HardKill, Die
  <2>2. pidFile' = pidFile
    BY <1>12 DEF HardKill, ipcVars
  <2> QED BY <1>4, <2>1, <2>2 DEF Held
<1>13. ASSUME NEW root \in Roots, ShellStart(w, root) PROVE Exclusive'
  BY <1>4, <1>13 DEF ShellStart, ipcVars, Held
<1>14. ASSUME Report(w) \/ SaveState(w) \/ RootFails(w) \/ ParentGone(w)
       PROVE  Exclusive'
  BY <1>5, <1>14 DEF Report, SaveState, RootFails, ParentGone, ipcVars, workerVars
<1> QED BY <1>6, <1>7, <1>8, <1>9, <1>10, <1>11, <1>12, <1>13, <1>14
        DEF WorkerStep, WorkerEvent

LEMMA NextExclusive ==
  ThreadInv /\ Exclusive /\ ~BootOverlap /\ [Next]_vars => Exclusive'
<1> SUFFICES ASSUME ThreadInv, Exclusive, ~BootOverlap, [Next]_vars PROVE Exclusive'
  OBVIOUS
<1>1. st \in [Workers -> Stages]
  BY DEF ThreadInv, DataTypes
<1>2. ASSUME Stop \/ Reap PROVE Exclusive'
  <2>1. st' = Reaped /\ pidFile' = pidFile
    BY <1>2 DEF Stop, Reap, ipcVars
  <2>2. \A v \in Workers : st'[v] \in {st[v], "off"}
    BY <2>1 DEF Reaped
  <2>3. \A v \in Workers : (IsHeld(v)' => IsHeld(v)) /\ (Entering(v)' => Entering(v))
    BY <2>2 DEF IsHeld, Entering, Held
  <2>4. \A t \in Threads : Sweeping(t)' => Sweeping(t)
    BY <1>2 DEF Stop, Reap, Sweeping, threadVars
  <2> QED BY <2>1, <2>3, <2>4, NobodyEnters
<1>3. ASSUME DismissRequest \/ EditQueue \/ UNCHANGED vars PROVE Exclusive'
  BY <1>3, NobodyEnters DEF DismissRequest, EditQueue, vars, ipcVars, workerVars,
     threadVars, IsHeld, Entering, Sweeping
<1> QED BY <1>2, <1>3, StepExclusive, WorkerExclusive DEF Next

(* At most one worker has registered its pid, if nobody starts a scan or   *)
(* sweeps while another worker is between its check and its registration.  *)
THEOREM OneWorkerCorrect == ASSUME ~BootOverlap PROVE Spec => []OneWorker
<1>1. Init => Exclusive
  BY DEF Init, Exclusive, IsHeld, Entering, Sweeping, Held
<1>2. BaseInv /\ Exclusive /\ [Next]_vars => Exclusive'
  BY NextExclusive DEF BaseInv
<1>3. Exclusive => OneWorker
  BY DEF Exclusive, OneWorker, IsHeld
<1> QED BY <1>1, <1>2, <1>3, SpecBaseInv, PTL DEF Spec
-----------------------------------------------------------------------------
(* Pursuit.  A thread holds a queued request only from the moment it pops  *)
(* it to the moment it spawns a worker for it, and no step in between can  *)
(* fail; a worker that was not started holds none, so nothing overwrites   *)
(* the request of another worker.                                          *)
Errands == \A t \in Threads : arg[t].qid # 0 => pc[t] \in {"clear", "spawn"}
Unused == \A w \in Workers : st[w] = "none" => info[w].qid = 0
Pursuit == Errands /\ Unused /\ HandedIsPursued

LEMMA NoRequestZero == QP!IInv => 0 \notin Given
<1> SUFFICES ASSUME QP!IInv PROVE 0 \notin Given
  OBVIOUS
<1>1. QP!Settled \subseteq 1..nextId /\ nextId \in Nat
  BY DEF QP!IInv, QP!TypeOK
<1>2. Given \subseteq QP!Settled
  BY DEF Given, QP!Settled, ToSet, QP!ToSet
<1> QED BY <1>1, <1>2

(* Whoever carries a request goes on carrying it. *)
LEMMA StillPursued ==
  ASSUME QP!IInv, HandedIsPursued, handed' = handed, restarts' = restarts,
         \A t \in Threads : arg[t].qid # 0 => arg'[t].qid = arg[t].qid,
         \A w \in Workers : info[w].qid # 0 => info'[w].qid = info[w].qid
  PROVE  HandedIsPursued'
<1>1. 0 \notin ToSet(handed)
  BY NoRequestZero DEF Given
<1>2. ToSet(handed)' = ToSet(handed)
  BY DEF ToSet
<1> QED BY <1>1, <1>2 DEF HandedIsPursued

(* A worker is not started twice and keeps its request.                    *)
LEMMA WorkerUnused ==
  ASSUME DataTypes, NEW w \in Workers, WorkerStep(w) \/ WorkerEvent(w)
  PROVE  /\ \A v \in Workers : info'[v].qid \in {0, info[v].qid}
         /\ \A v \in Workers : st[v] # "none" => info'[v].qid = info[v].qid
         /\ \A v \in Workers : st'[v] = "none" => st[v] = "none"
<1>1. st \in [Workers -> Stages] /\ info \in [Workers -> Info]
  BY DEF DataTypes
<1>2. \A v \in Workers : st'[v] = "none" => st[v] = "none"
  <2>1. \/ UNCHANGED st
        \/ \E stage \in Stages \ {"none"} : st' = [st EXCEPT ![w] = stage]
    BY DEF WorkerStep, BootCheck, BootSweep, WritePid, Begin, Finish, WriteFinal, Exit,
           WorkerEvent, BootFail, Report, SaveState, RootFails, ParentGone, HardKill,
           ShellStart, Move, Die, workerVars, Stages, Booting, Held
  <2> QED BY <1>1, <2>1
<1>3. CASE \A v \in Workers : info'[v].qid = info[v].qid
  BY <1>2, <1>3
<1>4. CASE Finish(w) \/ RootFails(w) \/ ParentGone(w)
  <2>1. \A v \in Workers : info'[v].qid = info[v].qid
    BY <1>1, <1>4 DEF Finish, RootFails, ParentGone, Info
  <2> QED BY <1>3, <2>1
<1>5. ASSUME NEW root \in Roots, ShellStart(w, root)
      PROVE  /\ \A v \in Workers : info'[v].qid \in {0, info[v].qid}
             /\ \A v \in Workers : st[v] # "none" => info'[v].qid = info[v].qid
  <2> DEFINE i == [NoInfo EXCEPT !.root = root, !.parent = "shell"]
  <2>1. i.qid = 0 /\ info' = [info EXCEPT ![w] = i] /\ st[w] = "none"
    BY <1>5 DEF ShellStart, NoInfo
  <2> HIDE DEF i
  <2> QED BY <1>1, <2>1
<1>6. CASE UNCHANGED info
  BY <1>3, <1>6
<1> QED BY <1>2, <1>4, <1>5, <1>6 DEF WorkerStep, BootCheck, BootSweep, WritePid, Begin,
        WriteFinal, Exit, WorkerEvent, BootFail, Report, SaveState, HardKill, workerVars

(* The steps of a thread that carries nothing, before and after.           *)
LEMMA EmptyHanded ==
  ASSUME ThreadInv, Errands, NEW t \in Threads,
         ThreadStep(t) \/ Request(t) \/ Load(t),
         ~Pop(t), ~ClearState(t), \A w \in Workers : ~Spawn(t, w)
  PROVE  /\ \A u \in Threads \ {t} : pc'[u] = pc[u] /\ arg'[u] = arg[u]
         /\ arg'[t].qid = arg[t].qid /\ (arg[t].qid = 0 \/ UNCHANGED threadVars)
<1>1. /\ pc \in [Threads -> PCs] /\ arg \in [Threads -> Arg] /\ arg[t] \in Arg
      /\ ~up => pc[t] = "idle"
  BY DEF ThreadInv, ThreadsOK
<1>2. CASE UNCHANGED threadVars
  BY <1>2 DEF threadVars
<1>3. CASE ~UNCHANGED threadVars
  <2>1. pc[t] \notin {"clear", "spawn"}
    BY <1>1, <1>3 DEF ThreadStep, Probe, Sweep, Enqueue, OpenBridge, Signal, Poll, Abort,
       Closing, Request, StartRequest, ResumeRequest, CancelRequest, ConsumeRequest, Load,
       Queue!Load
  <2>2. arg[t].qid = 0
    BY <2>1 DEF Errands
  <2>3. ASSUME NEW p, NEW a, pc' = [pc EXCEPT ![t] = p], arg' = [arg EXCEPT ![t] = a],
               a.qid = 0
        PROVE  /\ \A u \in Threads \ {t} : pc'[u] = pc[u] /\ arg'[u] = arg[u]
               /\ arg'[t].qid = 0
    BY <1>1, <2>3
  <2>4. ASSUME NEW p, Goto(t, p)
        PROVE  /\ \A u \in Threads \ {t} : pc'[u] = pc[u] /\ arg'[u] = arg[u]
               /\ arg'[t].qid = 0
    <3>1. CASE p = "idle"
      BY <2>3, <2>4, <3>1, Idle DEF Goto
    <3>2. CASE p # "idle"
      BY <1>1, <2>2, <2>4, <3>2 DEF Goto
    <3> QED BY <3>1, <3>2
  <2> DEFINE Nothing == /\ \A u \in Threads \ {t} : pc'[u] = pc[u] /\ arg'[u] = arg[u]
                        /\ arg'[t].qid = 0
  <2>5. ASSUME NEW root \in Roots, StartRequest(t, root) PROVE Nothing
    <3> DEFINE a == [IdleArg EXCEPT !.why = "start", !.root = root]
               p == IF job = "running" THEN "enqueue" ELSE "probe"
    <3>1. a.qid = 0 /\ pc' = [pc EXCEPT ![t] = p] /\ arg' = [arg EXCEPT ![t] = a]
      BY <2>5 DEF StartRequest, IdleArg
    <3> HIDE DEF a, p
    <3> QED BY <2>3, <3>1
  <2>6. ASSUME ResumeRequest(t) PROVE Nothing
    <3> DEFINE a == [IdleArg EXCEPT !.why = "resume", !.root = scanState]
    <3>1. /\ a.qid = 0 /\ pc' = [pc EXCEPT ![t] = "probe"]
          /\ arg' = [arg EXCEPT ![t] = a]
      BY <2>6 DEF ResumeRequest, IdleArg
    <3> HIDE DEF a
    <3> QED BY <2>3, <3>1
  <2>7. ASSUME CancelRequest(t) PROVE Nothing
    <3> DEFINE a == [IdleArg EXCEPT !.why = "cancel"]
    <3>1. /\ a.qid = 0 /\ pc' = [pc EXCEPT ![t] = "probe"]
          /\ arg' = [arg EXCEPT ![t] = a]
      BY <2>7 DEF CancelRequest, IdleArg
    <3> HIDE DEF a
    <3> QED BY <2>3, <3>1
  <2>8. ASSUME OpenBridge(t) PROVE Nothing
    <3> DEFINE a == [arg[t] EXCEPT !.why = "bridge"]
    <3>1. a.qid = 0
      BY <1>1, <2>2 DEF Arg
    <3>2. \/ pc' = [pc EXCEPT ![t] = "poll"] /\ arg' = [arg EXCEPT ![t] = a]
          \/ Goto(t, "idle")
      BY <2>8 DEF OpenBridge
    <3> HIDE DEF a
    <3> QED BY <2>3, <2>4, <3>1, <3>2
  <2>9. ASSUME Closing(t) PROVE Nothing
    BY <2>3, <2>9, Idle DEF Closing
  <2>10. \/ \E p : Goto(t, p)
         \/ \E root \in Roots : StartRequest(t, root)
         \/ ResumeRequest(t) \/ CancelRequest(t) \/ OpenBridge(t) \/ Closing(t)
    BY <1>3 DEF ThreadStep, Probe, Sweep, Enqueue, Signal, Poll, Abort, Request,
       ConsumeRequest, Load
  <2>11. Nothing
    <3> HIDE DEF Nothing
    <3>1. (\E p : Goto(t, p)) => Nothing
      BY <2>4 DEF Nothing
    <3> QED BY <2>5, <2>6, <2>7, <2>8, <2>9, <2>10, <3>1
  <2> QED BY <2>2, <2>11
<1> QED BY <1>2, <1>3

LEMMA ThreadPursuit ==
  ASSUME ThreadInv, QP!IInv, Pursuit, [Next]_vars, NEW t \in Threads,
         ThreadStep(t) \/ Request(t) \/ Load(t)
  PROVE  Pursuit'
<1>1. /\ pc \in [Threads -> PCs] /\ arg \in [Threads -> Arg]
      /\ st \in [Workers -> Stages] /\ info \in [Workers -> Info]
      /\ pidFile \in Workers \cup {NoWorker} /\ Errands /\ Unused /\ HandedIsPursued
  BY DEF ThreadInv, ThreadsOK, DataTypes, Pursuit
<1>2. restarts' = restarts
  BY DEF ThreadStep, Request, Load, Probe, Sweep, Enqueue, ClearState, Spawn, OpenBridge,
     Signal, Poll, Abort, Closing, Pop, StartRequest, ResumeRequest, CancelRequest,
     ConsumeRequest, serverVars
<1>3. ASSUME NEW w \in Workers, Spawn(t, w) PROVE Pursuit'
  <2> DEFINE a == [IdleArg EXCEPT !.w = w]
             i == [NoInfo EXCEPT !.root = arg[t].root, !.qid = arg[t].qid,
                                 !.parent = "server"]
  <2>1. a.qid = 0 /\ i.qid = arg[t].qid
    BY DEF IdleArg, NoInfo
  <2>2. /\ arg' = [arg EXCEPT ![t] = a] /\ info' = [info EXCEPT ![w] = i]
        /\ pc' = [pc EXCEPT ![t] = "open"] /\ st' = [Reaped EXCEPT ![w] = "boot"]
        /\ st[w] = "none" /\ handed' = handed
    BY <1>3 DEF Spawn, queueVars
  <2> HIDE DEF a, i
  <2>3. /\ arg'[t].qid = 0 /\ \A u \in Threads \ {t} : arg'[u] = arg[u] /\ pc'[u] = pc[u]
        /\ info'[w].qid = arg[t].qid /\ \A v \in Workers \ {w} : info'[v] = info[v]
    BY <1>1, <2>1, <2>2
  <2>4. info[w].qid = 0
    BY <1>1, <2>2 DEF Unused
  <2>5. \A v \in Workers : st'[v] = "none" => v # w /\ st[v] = "none"
    BY <1>1, <2>2 DEF Reaped
  <2>6. Unused'
    BY <1>1, <2>3, <2>5 DEF Unused
  <2>7. Errands'
    BY <1>1, <2>3 DEF Errands
  <2>8. HandedIsPursued'
    <3> SUFFICES ASSUME restarts' = 0, NEW id \in ToSet(handed)'
                 PROVE  \/ \E u \in Threads : arg'[u].qid = id
                        \/ \E v \in Workers : info'[v].qid = id
      BY DEF HandedIsPursued
    <3>1. id \in ToSet(handed) /\ id # 0
      <4>1. ToSet(handed)' = ToSet(handed)
        BY <2>2 DEF ToSet
      <4> QED BY <4>1, NoRequestZero DEF Given
    <3>2. \/ \E u \in Threads : arg[u].qid = id
          \/ \E v \in Workers : info[v].qid = id
      BY <1>1, <1>2, <3>1 DEF HandedIsPursued
    <3>3. ASSUME NEW u \in Threads, arg[u].qid = id
          PROVE  \/ \E x \in Threads : arg'[x].qid = id
                 \/ \E v \in Workers : info'[v].qid = id
      BY <2>3, <3>3
    <3>4. ASSUME NEW v \in Workers, info[v].qid = id
          PROVE  \E x \in Workers : info'[x].qid = id
      BY <2>3, <2>4, <3>1, <3>4
    <3> QED BY <3>2, <3>3, <3>4
  <2> QED BY <2>6, <2>7, <2>8 DEF Pursuit
<1>4. ASSUME Pop(t), Queue!PopNext PROVE Pursuit'
  <2> DEFINE a == Popped(Head(items))
  <2>1. UNCHANGED <<st, info>> /\ pc[t] = "pop" /\ items # <<>>
    BY <1>4 DEF Pop, workerVars, Queue!PopNext
  <2>2. pc' = [pc EXCEPT ![t] = "clear"] /\ arg' = [arg EXCEPT ![t] = a]
    BY <1>4, <2>1 DEF Pop
  <2>3. a.qid = Head(items).id
    BY DEF Popped, IdleArg
  <2> HIDE DEF a
  <2>4. /\ arg'[t] = a /\ pc'[t] = "clear"
        /\ \A u \in Threads \ {t} : arg'[u] = arg[u] /\ pc'[u] = pc[u]
    BY <1>1, <2>2
  <2>5. Given' = Given \cup {a.qid}
    BY <1>4, <2>3, QueueGiven
  <2>6. arg[t].qid = 0 /\ 0 \notin Given
    BY <1>1, <2>1, NoRequestZero DEF Errands
  <2>7. Errands'
    BY <1>1, <2>4 DEF Errands
  <2>8. Unused'
    BY <1>1, <2>1 DEF Unused
  <2>9. HandedIsPursued'
    <3> SUFFICES ASSUME restarts' = 0, NEW id \in Given'
                 PROVE  \/ \E u \in Threads : arg'[u].qid = id
                        \/ \E v \in Workers : info'[v].qid = id
      BY DEF HandedIsPursued, Given
    <3>1. CASE id = a.qid
      BY <2>4, <3>1
    <3>2. CASE id # a.qid
      <4>1. id \in Given /\ id # 0
        BY <2>5, <2>6, <3>2
      <4>2. \/ \E u \in Threads : arg[u].qid = id
            \/ \E v \in Workers : info[v].qid = id
        BY <1>1, <1>2, <4>1 DEF HandedIsPursued, Given
      <4> QED BY <2>1, <2>4, <2>6, <4>1, <4>2
    <3> QED BY <3>1, <3>2
  <2> QED BY <2>7, <2>8, <2>9 DEF Pursuit
<1>5. ASSUME handed' = handed, ~(Pop(t) /\ Queue!PopNext),
             \A w \in Workers : ~Spawn(t, w)
      PROVE  Pursuit'
  <2>1. /\ \A w \in Workers : info'[w].qid = info[w].qid
        /\ \A w \in Workers : st'[w] = "none" => st[w] = "none"
    <3>1. CASE Signal(t)
      BY <1>1, <3>1 DEF Signal, Signalled, Die, workerVars, Info
    <3>2. CASE ~Signal(t)
      <4>1. UNCHANGED workerVars
        BY <1>5, <3>2 DEF ThreadStep, Request, Load, Probe, Sweep, Enqueue, ClearState,
           OpenBridge, Poll, Abort, Closing, Pop, StartRequest, ResumeRequest,
           CancelRequest, ConsumeRequest
      <4> QED BY <4>1 DEF workerVars
    <3> QED BY <3>1, <3>2
  <2>2. Unused'
    BY <1>1, <2>1 DEF Unused
  <2>3. /\ \A u \in Threads : arg'[u].qid = arg[u].qid
        /\ Errands'
    <3>1. CASE ClearState(t)
      <4>1. arg' = arg /\ pc' = [pc EXCEPT ![t] = "spawn"]
        BY <3>1 DEF ClearState, Goto
      <4> QED BY <1>1, <4>1 DEF Errands
    <3>2. CASE Pop(t)
      <4>1. Goto(t, "idle") /\ pc[t] = "pop"
        BY <1>5, <3>2 DEF Pop
      <4>2. arg[t].qid = 0
        BY <1>1, <4>1 DEF Errands
      <4>3. /\ arg'[t] = IdleArg
            /\ \A u \in Threads \ {t} : pc'[u] = pc[u] /\ arg'[u] = arg[u]
        BY <1>1, <4>1 DEF Goto
      <4> QED BY <1>1, <4>2, <4>3, Idle DEF Errands
    <3>3. CASE ~ClearState(t) /\ ~Pop(t)
      <4>1. /\ \A u \in Threads \ {t} : pc'[u] = pc[u] /\ arg'[u] = arg[u]
            /\ arg'[t].qid = arg[t].qid /\ (arg[t].qid = 0 \/ UNCHANGED threadVars)
        BY <1>1, <1>5, <3>3, EmptyHanded
      <4> QED BY <1>1, <4>1 DEF Errands, threadVars
    <3> QED BY <3>1, <3>2, <3>3
  <2>4. HandedIsPursued'
    BY <1>1, <1>2, <1>5, <2>1, <2>3, StillPursued
  <2> QED BY <2>2, <2>3, <2>4 DEF Pursuit
<1>6. ~Pop(t) => handed' = handed
  BY DEF ThreadStep, Probe, Sweep, Enqueue, ClearState, Spawn, OpenBridge, Signal, Poll,
     Abort, Closing, Request, StartRequest, ResumeRequest, CancelRequest, ConsumeRequest,
     Load, Queue!Enqueue, Queue!Load, queueVars
<1>7. ~Queue!PopNext => handed' = handed
  BY QueueGiven
<1> QED BY <1>3, <1>4, <1>5, <1>6, <1>7

LEMMA NextPursuit == ThreadInv /\ QP!IInv /\ Pursuit /\ [Next]_vars => Pursuit'
<1> SUFFICES ASSUME ThreadInv, QP!IInv, Pursuit, [Next]_vars PROVE Pursuit'
  OBVIOUS
<1>1. /\ st \in [Workers -> Stages] /\ info \in [Workers -> Info] /\ restarts \in Nat
      /\ DataTypes /\ Errands /\ Unused /\ HandedIsPursued
  BY DEF ThreadInv, DataTypes, Pursuit
<1>2. ASSUME UNCHANGED <<pc, arg>>, handed' = handed, restarts' = restarts,
             \A v \in Workers : info'[v].qid \in {0, info[v].qid},
             \A v \in Workers : st[v] # "none" => info'[v].qid = info[v].qid,
             \A v \in Workers : st'[v] = "none" => st[v] = "none"
      PROVE  Pursuit'
  <2>1. Errands'
    BY <1>1, <1>2 DEF Errands
  <2>2. Unused'
    BY <1>1, <1>2 DEF Unused
  <2>3. \A v \in Workers : info[v].qid # 0 => info'[v].qid = info[v].qid
    BY <1>1, <1>2 DEF Unused
  <2>4. HandedIsPursued'
    BY <1>1, <1>2, <2>3, StillPursued
  <2> QED BY <2>1, <2>2, <2>4 DEF Pursuit
<1>3. ASSUME NEW w \in Workers, WorkerStep(w) \/ WorkerEvent(w) PROVE Pursuit'
  <2>1. UNCHANGED <<pc, arg>> /\ handed' = handed /\ restarts' = restarts
    BY <1>3 DEF WorkerStep, BootCheck, BootSweep, WritePid, Begin, Finish, WriteFinal,
       Exit, WorkerEvent, BootFail, Report, SaveState, RootFails, ParentGone, HardKill,
       ShellStart, threadVars, queueVars, serverVars
  <2>2. /\ \A v \in Workers : info'[v].qid \in {0, info[v].qid}
        /\ \A v \in Workers : st[v] # "none" => info'[v].qid = info[v].qid
        /\ \A v \in Workers : st'[v] = "none" => st[v] = "none"
    BY <1>1, <1>3, WorkerUnused
  <2> QED BY <1>2, <2>1, <2>2
<1>4. ASSUME DismissRequest \/ EditQueue \/ Reap \/ UNCHANGED vars PROVE Pursuit'
  <2>1. UNCHANGED <<pc, arg, info>> /\ restarts' = restarts
    BY <1>4 DEF DismissRequest, EditQueue, Reap, vars, threadVars, workerVars, serverVars
  <2>2. handed' = handed
    BY <1>4 DEF DismissRequest, EditQueue, Reap, vars, queueVars, Queue!Clear,
       Queue!RemoveItem
  <2>3. \A v \in Workers : st'[v] = "none" => st[v] = "none"
    BY <1>1, <1>4 DEF DismissRequest, EditQueue, Reap, Reaped, vars, workerVars
  <2> QED BY <1>2, <2>1, <2>2, <2>3
<1>5. ASSUME Stop PROVE Pursuit'
  <2>1. restarts' # 0
    BY <1>1, <1>5 DEF Stop
  <2>2. /\ \A t \in Threads : arg'[t].qid = 0
        /\ \A w \in Workers : info'[w].qid = info[w].qid
        /\ st' = Reaped
    BY <1>1, <1>5, Idle DEF Stop, Info
  <2>3. \A w \in Workers : st'[w] = "none" => st[w] = "none"
    BY <1>1, <2>2 DEF Reaped
  <2>4. Unused'
    BY <1>1, <2>2, <2>3 DEF Unused
  <2>5. Errands'
    BY <2>2 DEF Errands
  <2>6. HandedIsPursued'
    BY <2>1 DEF HandedIsPursued
  <2> QED BY <2>4, <2>5, <2>6 DEF Pursuit
<1> QED BY <1>3, <1>4, <1>5, ThreadPursuit DEF Next

(* A popped item is on its way to a worker, or a worker was spawned for    *)
(* it, as long as the server that popped it runs.                          *)
THEOREM HandedIsPursuedCorrect == Spec => []HandedIsPursued
<1>1. Init => Pursuit
  <2>1. Init => Errands
    BY Idle DEF Init, Errands
  <2>2. Init => Unused
    BY DEF Init, Unused, NoInfo
  <2>3. Init => HandedIsPursued
    BY DEF Init, HandedIsPursued, Queue!Init, ToSet
  <2> QED BY <2>1, <2>2, <2>3 DEF Pursuit
<1>2. BaseInv /\ Pursuit /\ [Next]_vars => Pursuit'
  BY NextPursuit DEF BaseInv
<1>3. Pursuit => HandedIsPursued
  BY DEF Pursuit
<1> QED BY <1>1, <1>2, <1>3, SpecBaseInv, PTL DEF Spec
=============================================================================
