----------------------------- MODULE ScanService -----------------------------
(***************************************************************************)
(* The scan service of the web server: the HTTP handlers that start, queue,*)
(* resume and cancel scans, the bridge thread that follows a worker        *)
(* process, the consumer of the scan queue, and the worker processes.      *)
(* Server and workers share nothing but three files: worker.pid,           *)
(* progress.json and scan_state.json.  Every read and every write of a     *)
(* file is a step of its own, because the other processes run in between.  *)
(* Delays (0.5 s, 2 s, 1 s, 15 s, the 60 s parent check) are not timed: a  *)
(* process may be arbitrarily slow against them.                           *)
(***************************************************************************)
EXTENDS Naturals, Sequences, FiniteSets, SequencesExt, ScanOutcome

CONSTANTS
  Threads,       \* threads of the server that can be busy at one time
  Workers,       \* worker processes that are ever started
  Roots,         \* folders, and "__all__"
  AllRoots,      \* the root "__all__", a scan of every enabled folder
  NoRoot, NoWorker,
  MaxQueue, MaxRequests, MaxRestarts,   \* bounds, see ScanQueue
  Offered,       \* the kinds of requests that clients make
  Platforms,     \* on "windows" signal_stop is taskkill /F, on "posix" SIGTERM
  HardKills,     \* a worker may die without its finally block (OOM, kill -9)
  ShellScans,    \* scans may be started from the command line
  BootOverlap    \* FALSE: nobody starts or sweeps while a worker is booting

ASSUME ServiceAssumption ==
  /\ NoRoot \notin Roots /\ NoWorker \notin Workers
  /\ MaxQueue \in Nat /\ MaxRequests \in Nat /\ MaxRestarts \in Nat
  /\ Offered \subseteq {"start", "resume", "cancel", "consume", "dismiss", "edit"}
  /\ Platforms \subseteq {"posix", "windows"}
  /\ {HardKills, ShellScans, BootOverlap} \subseteq BOOLEAN

VARIABLES
  up, items, file, nextId, accepted, handed, withdrawn,  \* the scan queue
  pidFile,       \* worker.pid: the worker it names, or NoWorker
  progress,      \* progress.json: the phase a bridge reads from it
  scanState,     \* scan_state.json: the root it offers to resume
  job,           \* JobManager._jobs["scan"]: its phase, "none" if absent
  pc,            \* where each thread of the server is
  arg,           \* its local variables: [why, root, qid, w]
  st,            \* where each worker process is
  info,          \* its local variables
  platform,      \* the system that everything runs on
  restarts       \* number of server restarts so far

queueVars  == <<up, items, file, nextId, accepted, handed, withdrawn>>
ipcVars    == <<pidFile, progress>>
threadVars == <<pc, arg>>
workerVars == <<st, info>>
serverVars == <<platform, restarts>>
vars == <<queueVars, ipcVars, scanState, job, threadVars, workerVars, serverVars>>

Queue == INSTANCE ScanQueue WITH MaxFailures <- 0, failures <- 0

Arg  == [why : {"none", "start", "resume", "cancel", "queue", "bridge"},
         root : Roots \cup {NoRoot}, qid : Nat, w : Workers \cup {NoWorker}]
Info == [root : Roots \cup {NoRoot}, qid : Nat,
         parent : {"none", "server", "gone", "shell"},
         cancelled : BOOLEAN,         \* FileBasedJob.stop_event
         ended : BOOLEAN,             \* not FileBasedJob.running
         out : Outcomes \cup {"none"}]
IdleArg == [why |-> "none", root |-> NoRoot, qid |-> 0, w |-> NoWorker]
NoInfo  == [root |-> NoRoot, qid |-> 0, parent |-> "none", cancelled |-> FALSE,
            ended |-> FALSE, out |-> "none"]

PCs == {"idle", "probe", "sweep", "enqueue", "signal", "clear", "spawn",
        "open", "poll", "abort", "closing", "pop"}

(* A worker is held from writing its pid to clearing it.                   *)
Held   == {"pid", "scan", "final", "done"}
Booting == {"boot", "sweep", "init"}
Stages == {"none", "refused", "zombie", "off"} \cup Booting \cup Held

(* A thread that is inside the loop of a bridge, still holding its job.    *)
Bridging(t) == \/ pc[t] \in {"poll", "abort"}
               \/ pc[t] \in {"probe", "sweep"} /\ arg[t].why = "bridge"

Init ==
  /\ Queue!Init
  /\ pidFile = NoWorker /\ progress = "none" /\ scanState = NoRoot
  /\ job = "none" /\ platform \in Platforms /\ restarts = 0
  /\ pc = [t \in Threads |-> "idle"] /\ arg = [t \in Threads |-> IdleArg]
  /\ st = [w \in Workers |-> "none"] /\ info = [w \in Workers |-> NoInfo]
-----------------------------------------------------------------------------
(* Wrong variants of definitions below, for the mutation checks.           *)
AliveOwnChild(w) == st[w] \notin {"none", "refused", "off"}
                      /\ info[w].parent = "server"
OpenAnyway == TRUE
ShownRaw(w) == "scanning"
WhenNotWait == [start |-> "clear", resume |-> "spawn", cancel |-> "idle",
                bridge |-> "poll"]
ConsumeOnSuccess == IF job = "complete" THEN "pop" ELSE "idle"
PoppedUnlabelled(item) == [IdleArg EXCEPT !.why = "queue", !.root = item.root]
SweptPidOnly == pidFile' = NoWorker /\ UNCHANGED progress

(***************************************************************************)
(* worker_ipc: the liveness of the process that worker.pid names.  A child *)
(* killed while its server runs stays a zombie, for which os.kill(pid, 0)  *)
(* succeeds, until a later Popen of the server reaps it.                   *)
(***************************************************************************)
Alive(w) == st[w] \notin {"none", "refused", "off"}

StalePid == pidFile # NoWorker /\ ~Alive(pidFile)
LivePid  == pidFile # NoWorker /\ Alive(pidFile)

Goto(t, next) ==
  /\ pc' = [pc EXCEPT ![t] = next]
  /\ arg' = IF next = "idle" THEN [arg EXCEPT ![t] = IdleArg] ELSE arg

(* Room for a request within the bounds of the model.                      *)
Launching == {t \in Threads : arg[t].why \in {"start", "resume", "queue"}}
Room == Cardinality({w \in Workers : st[w] = "none"})
          > Cardinality(Launching) + Len(items)
RoomInQueue == nextId + Cardinality(Launching) < MaxRequests

Quiet == BootOverlap \/ \A w \in Workers : st[w] \notin {"sweep", "init"}
NobodySweeps == BootOverlap \/ \A t \in Threads : pc[t] # "sweep"
-----------------------------------------------------------------------------
(* The requests.  A start request first asks the job manager.              *)
StartRequest(t, root) ==
  /\ "start" \in Offered /\ up /\ pc[t] = "idle" /\ Room /\ RoomInQueue
  /\ pc' = [pc EXCEPT ![t] = IF job = "running" THEN "enqueue" ELSE "probe"]
  /\ arg' = [arg EXCEPT ![t] = [IdleArg EXCEPT !.why = "start", !.root = root]]
  /\ UNCHANGED <<queueVars, ipcVars, scanState, job, workerVars, serverVars>>

(* A resume request needs a saved state and no running job.                *)
ResumeRequest(t) ==
  /\ "resume" \in Offered /\ up /\ pc[t] = "idle" /\ Room
  /\ scanState # NoRoot /\ job # "running"
  /\ pc' = [pc EXCEPT ![t] = "probe"]
  /\ arg' = [arg EXCEPT ![t] = [IdleArg EXCEPT !.why = "resume",
                                               !.root = scanState]]
  /\ UNCHANGED <<queueVars, ipcVars, scanState, job, workerVars, serverVars>>

(* Cancel, from the web or from the command line: both make these calls.   *)
CancelRequest(t) ==
  /\ "cancel" \in Offered /\ up /\ pc[t] = "idle"
  /\ pc' = [pc EXCEPT ![t] = "probe"]
  /\ arg' = [arg EXCEPT ![t] = [IdleArg EXCEPT !.why = "cancel"]]
  /\ UNCHANGED <<queueVars, ipcVars, scanState, job, workerVars, serverVars>>

(* POST /_internal/scan/queue/consume runs the consumer in the handler.    *)
ConsumeRequest(t) ==
  /\ "consume" \in Offered /\ up /\ pc[t] = "idle" /\ items # <<>>
  /\ Goto(t, "pop")
  /\ UNCHANGED <<queueVars, ipcVars, scanState, job, workerVars, serverVars>>

DismissRequest ==
  /\ "dismiss" \in Offered /\ up /\ scanState # NoRoot /\ scanState' = NoRoot
  /\ UNCHANGED <<queueVars, ipcVars, job, threadVars, workerVars, serverVars>>

EditQueue ==
  /\ "edit" \in Offered
  /\ Queue!Clear \/ \E i \in DOMAIN items : Queue!RemoveItem(i)
  /\ UNCHANGED <<ipcVars, scanState, job, threadVars, workerVars, serverVars>>
-----------------------------------------------------------------------------
(* is_worker_running: read the pid and test the process, then remove both  *)
(* files if it is dead; each caller continues according to the answer.     *)
WhenRunning == [start |-> "enqueue", resume |-> "idle", cancel |-> "signal",
                bridge |-> "poll"]
WhenNot == [start |-> "clear", resume |-> "spawn", cancel |-> "idle",
            bridge |-> "abort"]

Probe(t) ==
  /\ pc[t] = "probe"
  /\ \/ pidFile = NoWorker /\ Goto(t, WhenNot[arg[t].why])
     \/ LivePid /\ Goto(t, WhenRunning[arg[t].why])
     \/ StalePid /\ Quiet /\ Goto(t, "sweep")
  /\ UNCHANGED <<queueVars, ipcVars, scanState, job, workerVars, serverVars>>

Swept == pidFile' = NoWorker /\ progress' = "none"

Sweep(t) ==
  /\ pc[t] = "sweep" /\ Swept
  /\ Goto(t, WhenNot[arg[t].why])
  /\ UNCHANGED <<queueVars, scanState, job, workerVars, serverVars>>

(* Already running: 202 if the queue admits the root, 409 if it does not.  *)
Enqueue(t) ==
  /\ pc[t] = "enqueue"
  /\ \/ Queue!Enqueue(arg[t].root)
     \/ ~Queue!Admit(arg[t].root) /\ UNCHANGED queueVars
  /\ Goto(t, "idle")
  /\ UNCHANGED <<ipcVars, scanState, job, workerVars, serverVars>>

(* clear_scan_state before a new scan, then Popen, which reaps children.   *)
ClearState(t) ==
  /\ pc[t] = "clear" /\ Goto(t, "spawn")
  /\ scanState' = NoRoot
  /\ UNCHANGED <<queueVars, ipcVars, job, workerVars, serverVars>>

Reaped == [w \in Workers |-> IF st[w] = "zombie" THEN "off" ELSE st[w]]

Spawn(t, w) ==
  /\ pc[t] = "spawn" /\ st[w] = "none"
  /\ st' = [Reaped EXCEPT ![w] = "boot"]
  /\ info' = [info EXCEPT ![w] = [NoInfo EXCEPT !.root = arg[t].root,
                                   !.qid = arg[t].qid, !.parent = "server"]]
  /\ pc' = [pc EXCEPT ![t] = "open"]
  /\ arg' = [arg EXCEPT ![t] = [IdleArg EXCEPT !.w = w]]
  /\ UNCHANGED <<queueVars, ipcVars, scanState, job, serverVars>>

(* _start_progress_bridge gives up silently if the job runs already.       *)
MayOpen == job # "running"

OpenBridge(t) ==
  /\ pc[t] = "open"
  /\ \/ /\ MayOpen /\ job' = "running"
        /\ pc' = [pc EXCEPT ![t] = "poll"]
        /\ arg' = [arg EXCEPT ![t].why = "bridge"]
     \/ ~MayOpen /\ Goto(t, "idle") /\ UNCHANGED job
  /\ UNCHANGED <<queueVars, ipcVars, scanState, workerVars, serverVars>>

(* signal_stop reads the pid file again.  SIGTERM is a request once the    *)
(* worker has installed its handlers, and kills it before that.            *)
Die(w) == [st EXCEPT ![w] =
             IF info[w].parent = "server" /\ platform = "posix" THEN "zombie" ELSE "off"]

Signalled(w) ==
  CASE st[w] = "zombie" -> UNCHANGED workerVars
    [] st[w] # "zombie" /\ (platform = "windows" \/ st[w] = "pid") ->
         st' = Die(w) /\ UNCHANGED info
    [] OTHER -> info' = [info EXCEPT ![w].cancelled = TRUE] /\ UNCHANGED st

Signal(t) ==
  /\ pc[t] = "signal"
  /\ \/ LivePid /\ Signalled(pidFile) /\ Goto(t, "idle")
     \/ ~LivePid /\ Quiet /\ Goto(t, "sweep") /\ UNCHANGED workerVars
  /\ UNCHANGED <<queueVars, ipcVars, scanState, job, serverVars>>
-----------------------------------------------------------------------------
(* The bridge.  It looks at the pid only when there is no progress file;   *)
(* a progress file of a running scan changes nothing that matters here.    *)
Poll(t) ==
  /\ pc[t] = "poll"
  /\ \/ progress = "none" /\ Goto(t, "probe") /\ UNCHANGED job
     \/ progress \in Outcomes /\ Goto(t, "closing") /\ job' = progress
  /\ UNCHANGED <<queueVars, ipcVars, scanState, workerVars, serverVars>>

Abort(t) ==
  /\ pc[t] = "abort" /\ Goto(t, "closing") /\ job' = "error"
  /\ UNCHANGED <<queueVars, ipcVars, scanState, workerVars, serverVars>>

(* The finally block: remove the progress file, then consume the queue.    *)
AfterClosing == "pop"

Closing(t) ==
  /\ pc[t] = "closing"
  /\ progress' = "none"
  /\ pc' = [pc EXCEPT ![t] = AfterClosing] /\ arg' = [arg EXCEPT ![t] = IdleArg]
  /\ UNCHANGED <<queueVars, pidFile, scanState, job, workerVars, serverVars>>

Popped(item) == [IdleArg EXCEPT !.why = "queue", !.root = item.root, !.qid = item.id]

(* consume_next_queued_scan: the popped item is held by the thread alone   *)
(* through the 2 s delay, then launched without asking what runs.          *)
Pop(t) ==
  /\ pc[t] = "pop"
  /\ \/ items = <<>> /\ Goto(t, "idle") /\ UNCHANGED queueVars
     \/ /\ Queue!PopNext
        /\ pc' = [pc EXCEPT ![t] = "clear"]
        /\ arg' = [arg EXCEPT ![t] = Popped(Head(items))]
  /\ UNCHANGED <<ipcVars, scanState, job, workerVars, serverVars>>
-----------------------------------------------------------------------------
(* The worker.  It looks for another worker, loads its runtime, and only   *)
(* then writes its own pid.                                                *)
Move(w, from, to) == st[w] = from /\ st' = [st EXCEPT ![w] = to]

BootCheck(w) ==
  /\ st[w] = "boot"
  /\ \/ pidFile = NoWorker /\ Quiet /\ NobodySweeps /\ Move(w, "boot", "init")
     \/ LivePid /\ Move(w, "boot", "refused")
     \/ StalePid /\ Quiet /\ NobodySweeps /\ Move(w, "boot", "sweep")
  /\ UNCHANGED <<queueVars, ipcVars, scanState, job, threadVars, info, serverVars>>

BootSweep(w) ==
  /\ Move(w, "sweep", "init") /\ Swept
  /\ UNCHANGED <<queueVars, scanState, job, threadVars, info, serverVars>>

(* No enabled root, or an exception: the process ends before its pid.      *)
BootFail(w) ==
  /\ Move(w, "init", "off")
  /\ UNCHANGED <<queueVars, ipcVars, scanState, job, threadVars, info, serverVars>>

WritePid(w) ==
  /\ Move(w, "init", "pid") /\ pidFile' = w
  /\ UNCHANGED <<queueVars, progress, scanState, job, threadVars, info, serverVars>>

(* Signal handlers and parent monitor installed; the scan begins.          *)
Begin(w) ==
  /\ Move(w, "pid", "scan")
  /\ UNCHANGED <<queueVars, ipcVars, scanState, job, threadVars, info, serverVars>>

(* Every update writes the progress file.                                  *)
Shown(w) == Display(info[w].ended)

Report(w) ==
  /\ st[w] = "scan" /\ progress' = Shown(w)
  /\ UNCHANGED <<queueVars, pidFile, scanState, job, threadVars, workerVars, serverVars>>

(* The state is saved on the way through a folder and cleared at its end,  *)
(* also within a scan of all of them.                                      *)
Folders(root) == FoldersOf(root, AllRoots, Roots)

SaveState(w) ==
  /\ st[w] = "scan" /\ scanState' \in Folders(info[w].root) \cup {NoRoot}
  /\ UNCHANGED <<queueVars, ipcVars, job, threadVars, workerVars, serverVars>>

(* One unreachable remote root of a scan-all fails the job of all of them, *)
(* and the worker goes on with the next root.                              *)
RootFails(w) ==
  /\ st[w] = "scan" /\ info[w].root = AllRoots
  /\ info' = [info EXCEPT ![w].ended = TRUE] /\ progress' = "error"
  /\ UNCHANGED <<queueVars, pidFile, scanState, job, threadVars, st, serverVars>>

(* The scan returns, with or without having cleared the resume state: it   *)
(* stays after a remote failure and when there was nothing to scan.        *)
Result(w) == Promised(info[w].root = AllRoots, info[w].cancelled)

Finish(w) ==
  /\ Move(w, "scan", "final")
  /\ \E out \in Result(w) :
       /\ info' = [info EXCEPT ![w].out = out]
       /\ \/ UNCHANGED scanState
          \/ out # "error" /\ scanState' = NoRoot
  /\ UNCHANGED <<queueVars, ipcVars, job, threadVars, serverVars>>

(* The final progress.                                                     *)
WriteFinal(w) ==
  /\ Move(w, "final", "done")
  /\ progress' = FinalProgress(info[w].ended, progress, info[w].out)
  /\ UNCHANGED <<queueVars, pidFile, scanState, job, threadVars, info, serverVars>>

(* finally: clear_pid, whatever the file names.                            *)
Exit(w) ==
  /\ Move(w, "done", "off")
  /\ pidFile' = NoWorker
  /\ UNCHANGED <<queueVars, progress, scanState, job, threadVars, info, serverVars>>

ParentGone(w) ==
  /\ st[w] = "scan" /\ info[w].parent = "gone"
  /\ ~info[w].ended /\ ~info[w].cancelled
  /\ info' = [info EXCEPT ![w].cancelled = TRUE]
  /\ UNCHANGED <<queueVars, ipcVars, scanState, job, threadVars, st, serverVars>>
-----------------------------------------------------------------------------
(* The environment.                                                        *)
HardKill(w) ==
  /\ HardKills /\ st[w] \in Booting \cup Held
  /\ st' = Die(w)
  /\ UNCHANGED <<queueVars, ipcVars, scanState, job, threadVars, info, serverVars>>

(* Some other part of the server calls Popen.                              *)
Reap ==
  /\ up /\ Reaped # st /\ st' = Reaped
  /\ UNCHANGED <<queueVars, ipcVars, scanState, job, threadVars, info, serverVars>>

ShellStart(w, root) ==
  /\ ShellScans /\ Room /\ st[w] = "none"
  /\ st' = [st EXCEPT ![w] = "boot"]
  /\ info' = [info EXCEPT ![w] = [NoInfo EXCEPT !.root = root, !.parent = "shell"]]
  /\ UNCHANGED <<queueVars, ipcVars, scanState, job, threadVars, serverVars>>

(* The server stops: its threads and its job are gone, its workers lose    *)
(* their parent.                                                           *)
Stop ==
  /\ restarts < MaxRestarts /\ restarts' = restarts + 1
  /\ Queue!Stop
  /\ job' = "none" /\ st' = Reaped
  /\ pc' = [t \in Threads |-> "idle"] /\ arg' = [t \in Threads |-> IdleArg]
  /\ info' = [w \in Workers |-> IF info[w].parent = "server"
                                THEN [info[w] EXCEPT !.parent = "gone"] ELSE info[w]]
  /\ UNCHANGED <<ipcVars, scanState, platform>>

(* init_scan_queue: the queue is loaded; the call that would reconnect to  *)
(* a running worker imports a module that does not exist, the ImportError  *)
(* is logged; a thread consumes the queue after 15 s if it is not empty.   *)
Load(t) ==
  /\ Queue!Load
  /\ IF file # <<>> THEN Goto(t, "pop") ELSE UNCHANGED threadVars
  /\ UNCHANGED <<ipcVars, scanState, job, workerVars, serverVars>>

ThreadStep(t) ==
  \/ Probe(t) \/ Sweep(t) \/ Enqueue(t) \/ ClearState(t) \/ OpenBridge(t)
  \/ \E w \in Workers : Spawn(t, w)
  \/ Signal(t) \/ Poll(t) \/ Abort(t) \/ Closing(t) \/ Pop(t)

Request(t) ==
  \/ \E root \in Roots : StartRequest(t, root)
  \/ ResumeRequest(t) \/ CancelRequest(t) \/ ConsumeRequest(t)

(* The steps a worker takes unless it is killed ...                        *)
WorkerStep(w) ==
  \/ BootCheck(w) \/ BootSweep(w) \/ WritePid(w) \/ Begin(w)
  \/ Finish(w) \/ WriteFinal(w) \/ Exit(w)

(* ... and those it may take.                                              *)
WorkerEvent(w) ==
  \/ BootFail(w) \/ Report(w) \/ SaveState(w) \/ RootFails(w)
  \/ ParentGone(w) \/ HardKill(w) \/ \E root \in Roots : ShellStart(w, root)

Next ==
  \/ \E t \in Threads : ThreadStep(t) \/ Request(t) \/ Load(t)
  \/ \E w \in Workers : WorkerStep(w) \/ WorkerEvent(w)
  \/ DismissRequest \/ EditQueue \/ Reap \/ Stop

Spec == Init /\ [][Next]_vars

(* Threads and processes are scheduled; a scan, being a pass over finitely *)
(* many files, returns; the other parts of the server keep starting child  *)
(* processes.  Requests, kills and restarts are not fair.                  *)
Fairness ==
  /\ \A t \in Threads : WF_vars(ThreadStep(t))
  /\ \A w \in Workers : WF_vars(WorkerStep(w))
  /\ WF_vars(Reap)
FairSpec == Spec /\ Fairness

(* A user who keeps pressing cancel while the job is shown as running.     *)
CancelledSpec == FairSpec /\ WF_vars(job = "running" /\ \E t \in Threads : CancelRequest(t))
-----------------------------------------------------------------------------
TypeOK ==
  /\ Queue!TypeOK
  /\ pidFile \in Workers \cup {NoWorker}
  /\ progress \in Outcomes \cup {"none", "running"}
  /\ scanState \in Roots \cup {NoRoot}
  /\ job \in Outcomes \cup {"none", "running"}
  /\ pc \in [Threads -> PCs] /\ arg \in [Threads -> Arg]
  /\ st \in [Workers -> Stages] /\ info \in [Workers -> Info]
  /\ platform \in Platforms /\ restarts \in Nat

(* The job "scan" runs exactly as long as one bridge thread holds it: a    *)
(* second bridge never starts on it, and no path out of the loop of the    *)
(* bridge leaves a running job that nobody would ever finish.              *)
JobHasBridge ==
  /\ job = "running" <=> \E t \in Threads : Bridging(t)
  /\ \A t, u \in Threads : Bridging(t) /\ Bridging(u) => t = u

(* A queued request is launched at most once, by whatever bridges, consume *)
(* requests and restarts: the item a thread holds is in no queue, held by  *)
(* no other thread and was given to no worker, and no two workers run it.  *)
LaunchedOnce ==
  /\ \A t \in Threads : arg[t].qid # 0 =>
       /\ arg[t].qid \notin Queue!Ids(items) \cup Queue!Ids(file)
       /\ \A u \in Threads : arg[u].qid = arg[t].qid => u = t
       /\ \A w \in Workers : info[w].qid # arg[t].qid
  /\ \A v, w \in Workers : info[v].qid # 0 /\ info[v].qid = info[w].qid => v = w

(* "Multiple workers cannot run simultaneously" (docs/en/help/user/scan.md *)
(* line 71): of all processes at most one has registered its pid.          *)
OneWorker == \A v, w \in Workers : st[v] \in Held /\ st[w] \in Held => v = w

(* A popped item is on its way to a worker until one is spawned for it, as *)
(* long as the server that popped it runs.                                 *)
HandedIsPursued ==
  restarts = 0 =>
    \A id \in ToSet(handed) : \/ \E t \in Threads : arg[t].qid = id
                              \/ \E w \in Workers : info[w].qid = id

(* Requests wait "for sequential execution" (CHANGELOG.en.md line 11224):  *)
(* no worker launched from the queue is turned away because another runs.  *)
NoItemRefused == \A w \in Workers : st[w] = "refused" => info[w].qid = 0

(* "Worker has no PID file either -> abnormal termination" (ops_worker.py  *)
(* line 145): a bridge gives up only on a worker that is not running.      *)
AbnormalMeansDead ==
  \A t \in Threads : pc[t] = "abort" => st[arg[t].w] \notin Booting \cup Held

(* The bridge ends the job "when worker finishes" (ops_worker.py line 207),*)
(* not on the progress of a worker that another request started.           *)
FinishedMeansFinished ==
  [][\A t \in Threads : pc[t] = "poll" /\ pc'[t] = "closing"
       => info[arg[t].w].out # "none"]_vars

(* "When the WebUI is restarted, it automatically detects running workers  *)
(* and reconnects to their progress" (scan.md line 43).                    *)
Reconnects ==
  [][~up /\ up' /\ (\E w \in Workers : pidFile = w /\ st[w] = "scan")
       => job' = "running"]_vars

(* "Scans are not interrupted when web_ui is restarted" (scan.md line 36): *)
(* only a cancel request makes a worker stop before its end.               *)
CancelledOnRequest ==
  [][\A w \in Workers : info'[w].cancelled /\ ~info[w].cancelled
       => \E t \in Threads : pc[t] = "signal"]_vars

(* A running job ends.                                                     *)
JobEnds == job = "running" ~> job # "running"

(* A request queued behind a running job leaves the queue.                 *)
ServedAfterJob ==
  \A id \in 1..MaxRequests :
    (id \in Queue!Ids(items) /\ job = "running") ~> id \notin Queue!Ids(items)

(* Folders added to the queue "will be processed automatically in order"   *)
(* (docs/en/help/user/performance-tuning.md line 30).                      *)
Served ==
  \A id \in 1..MaxRequests :
    (id \in Queue!Ids(items)) ~> id \notin Queue!Ids(items)
=============================================================================
