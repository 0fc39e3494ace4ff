---------------------------- MODULE InferenceBridge ----------------------------
(***************************************************************************)
(* core/inference_worker: a worker process, the monitor thread that reads   *)
(* its results and restarts it when it is dead, the stop of the bridge, and *)
(* one stream of tokens: worker, result queue, monitor, callbacks of the    *)
(* event loop, a bounded queue, and the reader, who may leave at any time.  *)
(* The model begins when start has returned.                                *)
(***************************************************************************)
EXTENDS Naturals, Sequences

CONSTANTS N,             \* tokens of a full answer; the terminal token follows
          Cap,           \* of the asyncio queue
          MaxCrashes     \* bound

ASSUME BridgeAssumption == N \in Nat /\ Cap \in Nat \ {0} /\ MaxCrashes \in Nat

VARIABLES running,       \* _running
          proc,          \* the worker process that _process refers to
          open,          \* _queue is not None
          monitor,       \* where the monitor thread is
          stop,          \* how far stop has come
          raced,         \* history: stop began while the monitor was restarting
          task,          \* the task of the stream
          sent,          \* tokens that the worker has put
          flag,          \* _cancel_flags of the task
          cancel,        \* a cancel message is in the control queue
          results,       \* the result queue
          calls,         \* callbacks scheduled on the event loop
          buffer,        \* the queue of the stream
          registered,    \* it is in _streaming_queues
          reader, got,   \* the reader of the stream, and what it was given
          missed,        \* history: a token was put into the full queue
          crashes

life == <<running, proc, open, monitor, stop, raced>>
worker == <<task, sent, flag, cancel>>
stream == <<calls, buffer, registered, reader, got, missed>>
vars == <<life, worker, results, stream, crashes>>

Final == N + 1           \* the terminal token of a full answer
Cut == N + 2             \* of one that was cancelled or failed
Overflow == N + 3        \* the sentinel of the bridge
Terminal(x) == x > N
Tokens == 1..Overflow
Callbacks == [act : {"put", "drain", "pop"}, token : Tokens]

Init ==
  /\ running = TRUE /\ proc = "alive" /\ open = TRUE /\ monitor = "watch"
  /\ stop = "no" /\ raced = FALSE
  /\ task = "new" /\ sent = 0 /\ flag = "none" /\ cancel = FALSE
  /\ results = <<>> /\ calls = <<>> /\ buffer = <<>> /\ registered = FALSE
  /\ reader = "new" /\ got = <<>> /\ missed = FALSE /\ crashes = 0

(* Wrong variants of the definitions below, for the mutation checks.       *)
NoSentinel == <<>>
Untested == open
NeverAgain == FALSE
PutAnyway(x) == buffer' = Append(buffer, x) /\ UNCHANGED missed

-----------------------------------------------------------------------------
(* The reader.  register_stream, submit_task and the look at the queue in    *)
(* iter_stream are one step of the event loop.                              *)
IsRunning == running /\ proc = "alive"

Submit ==
  /\ reader = "new"
  /\ \/ /\ IsRunning /\ open
        /\ task' = "queued" /\ reader' = "reading" /\ registered' = TRUE
     \/ /\ ~(IsRunning /\ open)
        /\ reader' = "refused" /\ UNCHANGED <<task, registered>>
  /\ UNCHANGED <<life, sent, flag, cancel, results, calls, buffer, got, missed, crashes>>

Get ==
  /\ reader = "reading" /\ buffer # <<>>
  /\ got' = Append(got, Head(buffer)) /\ buffer' = Tail(buffer)
  /\ \/ Terminal(Head(buffer)) /\ reader' = "ended" /\ registered' = FALSE
     \/ ~Terminal(Head(buffer)) /\ UNCHANGED <<reader, registered>>
  /\ UNCHANGED <<life, worker, results, calls, missed, crashes>>

(* After a timeout the stream is no longer registered, and aclose does not   *)
(* send a cancel.                                                           *)
Expire ==
  /\ reader = "reading" /\ buffer = <<>>
  /\ reader' = "expired" /\ registered' = FALSE
  /\ UNCHANGED <<life, worker, results, calls, buffer, got, missed, crashes>>

Leave ==
  /\ reader = "reading" /\ reader' = "left" /\ registered' = FALSE
  /\ cancel' = (registered /\ open)
  /\ UNCHANGED <<life, task, sent, flag, results, calls, buffer, got, missed, crashes>>

-----------------------------------------------------------------------------
(* The worker.  Between taking a task and registering its flag it announces  *)
(* the task; a cancel that comes before the flag finds no task.             *)
Take ==
  /\ proc = "alive" /\ task = "queued" /\ task' = "starting"
  /\ UNCHANGED <<life, sent, flag, cancel, results, stream, crashes>>

Register ==
  /\ proc = "alive" /\ task = "starting" /\ task' = "running" /\ flag' = "clear"
  /\ UNCHANGED <<life, sent, cancel, results, stream, crashes>>

HandleCancel ==
  /\ proc = "alive" /\ cancel /\ cancel' = FALSE
  /\ flag' = IF flag = "none" THEN "none" ELSE "set"
  /\ UNCHANGED <<life, task, sent, results, stream, crashes>>

(* A token, or the end: of the whole answer, or of one that was cancelled or *)
(* failed, be it for a busy device or at the load of the model.             *)
LastTokens == {Cut} \cup (IF sent = N THEN {Final} ELSE {})

Emit ==
  /\ proc = "alive" /\ task = "running"
  /\ \/ /\ flag = "clear" /\ sent < N
        /\ sent' = sent + 1 /\ results' = Append(results, sent + 1)
        /\ UNCHANGED <<task, flag>>
     \/ /\ task' = "over" /\ flag' = "none" /\ UNCHANGED sent
        /\ \E last \in LastTokens : results' = Append(results, last)
  /\ UNCHANGED <<life, cancel, stream, crashes>>

(* The process ends: by a crash, or because stop has told it to.  Its task   *)
(* and its control messages are lost; results that are in the pipe are not. *)
Die ==
  /\ proc = "alive" /\ proc' = "dead"
  /\ \/ stop # "no" /\ UNCHANGED crashes
     \/ crashes < MaxCrashes /\ crashes' = crashes + 1
  /\ task' = IF task \in {"queued", "starting", "running"} THEN "lost" ELSE task
  /\ flag' = "none" /\ cancel' = FALSE
  /\ UNCHANGED <<running, open, monitor, stop, raced, sent, results, stream>>

-----------------------------------------------------------------------------
(* The monitor.                                                             *)
Goto(place) == monitor' = place

(* The test of the loop, and that of a dead worker.  _restart_count is zero  *)
(* at every test, as each restart sets it back, so that _max_restarts is     *)
(* never reached.                                                           *)
Supervised == running /\ open

Watch ==
  /\ monitor = "watch"
  /\ Goto(IF ~Supervised THEN "ended"
          ELSE IF proc = "alive" THEN "read" ELSE "backoff")
  /\ UNCHANGED <<running, proc, open, stop, raced, worker, results, stream, crashes>>

(* _on_streaming_token: the queue is looked at here and filled by the event  *)
(* loop.                                                                    *)
Full == Len(buffer) = Cap

Callback(a, x) == [act |-> a, token |-> x]

Dispatch(x) ==
  calls' = calls \o <<Callback(IF Full THEN "drain" ELSE "put", x)>>
                 \o (IF Terminal(x) THEN <<Callback("pop", x)>> ELSE <<>>)

Read ==
  /\ monitor = "read"
  /\ \/ ~open /\ Goto("ended") /\ UNCHANGED <<results, calls>>
     \/ open /\ results = <<>> /\ Goto("watch") /\ UNCHANGED <<results, calls>>
     \/ /\ open /\ results # <<>> /\ Goto("watch")
        /\ results' = Tail(results)
        /\ IF registered THEN Dispatch(Head(results)) ELSE UNCHANGED calls
  /\ UNCHANGED <<running, proc, open, stop, raced, worker, buffer, registered, reader,
                 got, missed, crashes>>

(* _running is false while the thread of the control responses ends, and     *)
(* true afterwards, whatever stop has done meanwhile.                       *)
Halt ==
  /\ monitor = "backoff" /\ Goto("join") /\ running' = FALSE
  /\ UNCHANGED <<proc, open, stop, raced, worker, results, stream, crashes>>

Again == TRUE

Rejoin ==
  /\ monitor = "join" /\ Goto("spawn") /\ running' = Again
  /\ results' = <<>>
  /\ UNCHANGED <<proc, open, stop, raced, worker, stream, crashes>>

(* A start that fails may have made the queue and the process object.        *)
Spawn ==
  /\ monitor = "spawn"
  /\ \/ Goto("watch") /\ proc' = "alive" /\ open' = TRUE
     \/ Goto("failed") /\ proc' \in {proc, "dead"} /\ open' \in {open, TRUE}
  /\ UNCHANGED <<running, stop, raced, worker, results, stream, crashes>>

-----------------------------------------------------------------------------
(* The event loop runs its callbacks in order.  put_nowait raises when the   *)
(* queue is full; the loop logs that.                                       *)
Sentinel == <<Overflow>>

Put(x) ==
  IF Full THEN missed' = TRUE /\ UNCHANGED buffer
          ELSE buffer' = Append(buffer, x) /\ UNCHANGED missed

RunCall ==
  /\ calls # <<>> /\ calls' = Tail(calls)
  /\ \/ /\ Head(calls).act = "pop"
        /\ registered' = FALSE /\ UNCHANGED <<buffer, missed>>
     \/ /\ Head(calls).act = "drain"
        /\ buffer' = Sentinel /\ UNCHANGED <<registered, missed>>
     \/ /\ Head(calls).act = "put"
        /\ Put(Head(calls).token) /\ UNCHANGED registered
  /\ UNCHANGED <<life, worker, results, reader, got, crashes>>

(* stop: first _running, then the wait for the process, which is terminated  *)
(* after a timeout, then the rest.                                          *)
StopBegins ==
  /\ stop = "no" /\ stop' = "begun" /\ running' = FALSE
  /\ raced' = (monitor \in {"backoff", "join", "spawn"})
  /\ UNCHANGED <<proc, open, monitor, worker, results, stream, crashes>>

StopEnds ==
  /\ stop = "begun" /\ stop' = "done"
  /\ proc' = "none" /\ open' = FALSE /\ registered' = FALSE
  /\ task' = IF task \in {"queued", "starting", "running"} THEN "lost" ELSE task
  /\ flag' = "none" /\ cancel' = FALSE /\ results' = <<>>
  /\ UNCHANGED <<running, monitor, raced, sent, calls, buffer, reader, got, missed, crashes>>

Work == Take \/ Register \/ HandleCancel \/ Emit
Monitor == Watch \/ Read \/ Halt \/ Rejoin \/ Spawn

Next ==
  \/ Submit \/ Get \/ Expire \/ Leave
  \/ Work \/ Die \/ Monitor \/ RunCall
  \/ StopBegins \/ StopEnds

Spec == Init /\ [][Next]_vars

(* Threads, the event loop and the worker are scheduled.                    *)
FairSpec ==
  Spec /\ WF_vars(Work) /\ WF_vars(Monitor) /\ WF_vars(RunCall) /\ WF_vars(Get)
       /\ WF_vars(StopEnds)
-----------------------------------------------------------------------------
BridgePlaces ==
  /\ running \in BOOLEAN /\ proc \in {"alive", "dead", "none"} /\ open \in BOOLEAN
  /\ monitor \in {"watch", "read", "backoff", "join", "spawn", "ended", "failed"}
  /\ stop \in {"no", "begun", "done"} /\ raced \in BOOLEAN

TaskPlaces ==
  /\ task \in {"new", "queued", "starting", "running", "over", "lost"}
  /\ flag \in {"none", "clear", "set"} /\ cancel \in BOOLEAN

ReaderPlaces ==
  /\ reader \in {"new", "reading", "ended", "expired", "left", "refused"}
  /\ registered \in BOOLEAN /\ missed \in BOOLEAN

Places == BridgePlaces /\ TaskPlaces /\ ReaderPlaces

Traffic ==
  /\ sent \in 0..N /\ crashes \in 0..MaxCrashes
  /\ results \in Seq(Tokens) /\ calls \in Seq(Callbacks) /\ got \in Seq(Tokens)
  /\ buffer \in Seq(Tokens) /\ Len(buffer) <= Cap

(* The variables have their types, and the queue of a stream its capacity.   *)
TypeOK == Places /\ Traffic

(* Whatever crashes, restarts, stops and overflows: a reader is given tokens *)
(* of the answer in their order, none twice, and nothing after an end.       *)
InOrder ==
  \A i, j \in 1..Len(got) : i < j => got[i] < got[j] /\ ~Terminal(got[i])

(* A reader that was given the last token of a full answer has been given    *)
(* all of it if no token was put into the full queue: crashes, restarts,     *)
(* stops and overflows end a stream otherwise, and never look like a         *)
(* complete answer.  Any other stream is in order, with gaps.               *)
WholeAnswer ==
  /\ InOrder
  /\ Final \in {got[i] : i \in 1..Len(got)} /\ ~missed => got = [i \in 1..Final |-> i]

(* When stop has returned no worker runs, if the monitor was not restarting  *)
(* one as stop began.                                                       *)
StopHolds == stop = "done" /\ ~raced => proc = "none" /\ ~running

(* A dead worker is replaced, unless the bridge is stopped or the new one    *)
(* cannot be started.                                                       *)
Revived == proc = "dead" ~> proc = "alive" \/ stop # "no" \/ monitor = "failed"

(* A reader who stays gets to an end without a timeout, be it an overflow,   *)
(* unless the worker crashes, the bridge stops or a token was put into the   *)
(* full queue.                                                              *)
Calm == crashes = 0 /\ stop = "no" /\ ~missed
StreamEnds == reader = "reading" ~> reader # "reading" \/ ~Calm

(* Does not hold: "If queue is full, drain and insert overflow sentinel"     *)
(* (bridge.py:333).  The look at the queue is in the monitor, the put later. *)
NoSilentGap == Final \in {got[i] : i \in 1..Len(got)} => got = [i \in 1..Final |-> i]

(* Does not hold: "Stop the worker process." (bridge.py:115).               *)
StopStops == stop = "done" => proc = "none"
=============================================================================
