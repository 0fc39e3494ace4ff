---------------------------- MODULE CircuitBreaker ----------------------------
(***************************************************************************)
(* core/agent_safety/circuit_breaker.py in one process, used by calls that  *)
(* run at the same time: check before a call, record after it, trip by the  *)
(* anomaly detection, reset by the administrator.  Each of these is done    *)
(* under the lock; the row that shows the state to others (shared_state.py) *)
(* is written after the lock is released.                                   *)
(* trials and errors count up to the number they are compared with.         *)
(***************************************************************************)
EXTENDS Naturals

CONSTANTS Calls,         \* threads that make calls, one after the other
          Admin, None,
          TrialLimit,    \* probes that must have been let through to close
          MaxErrors,     \* max_consecutive_errors
          MaxRestarts    \* bound

ASSUME BreakerAssumption ==
  /\ Admin \notin Calls /\ None \notin Calls \cup {Admin}
  /\ None \notin {"closed", "open", "half_open"}
  /\ TrialLimit \in Nat \ {0} /\ MaxErrors \in Nat \ {0} /\ MaxRestarts \in Nat

VARIABLES state, trials, errors,
          cooled,        \* cooldown_seconds have passed since _opened_at
          pc,            \* idle, recorded, or the kind of tool that runs
          todo,          \* the row that a thread is about to write
          row,           \* agent_circuit_breaker_state of this process
          latest,        \* history: who began the latest write
          lagging,       \* history: the row is not that of the latest write
          restarts

breaker == <<state, trials, errors, cooled>>
writes == <<todo, latest>>
vars == <<breaker, pc, writes, row, lagging, restarts>>

Actors == Calls \cup {Admin}
States == {"closed", "open", "half_open"}
Kinds == {"read", "write"}

Init ==
  /\ state = "closed" /\ trials = 0 /\ errors = 0 /\ cooled = FALSE
  /\ pc = [c \in Calls |-> "idle"]
  /\ todo = [a \in Actors |-> None] /\ latest = None
  /\ row = "closed" /\ lagging = FALSE /\ restarts = 0

(* Wrong variants of the definitions below, for the mutation checks.       *)
AnyKind(k) == TRUE
ForgetTrial(k) == trials
KeepErrors == errors
NoteOpenOnly(a, s) ==
  IF s = "open" THEN todo' = [todo EXCEPT ![a] = s] /\ latest' = a
  ELSE UNCHANGED <<todo, latest>>
Decayed == errors - 1

(* A thread that has a row to write does that before anything else.         *)
Ready(a) == todo[a] = None
Note(a, s) == todo' = [todo EXCEPT ![a] = s] /\ latest' = a
Goto(c, place) == pc' = [pc EXCEPT ![c] = place]

(* check: what is let through while half open, and how it is counted.       *)
MayProbe(k) == k = "read"
Counted(k) ==
  IF k = "read" /\ trials < TrialLimit THEN trials + 1 ELSE trials
FirstTrial(k) == IF k = "read" THEN 1 ELSE 0

Running(c) == pc[c] \in Kinds

CheckClosed(c, k) ==
  /\ pc[c] = "idle" /\ Ready(c) /\ state = "closed"
  /\ Goto(c, k)
  /\ UNCHANGED <<breaker, writes, row, lagging, restarts>>

CheckHalfOpen(c, k) ==
  /\ pc[c] = "idle" /\ Ready(c) /\ state = "half_open" /\ MayProbe(k)
  /\ trials' = Counted(k)
  /\ Goto(c, k)
  /\ UNCHANGED <<state, errors, cooled, writes, row, lagging, restarts>>

(* The first check after the cooldown, by a call that may itself be refused. *)
CheckOpen(c, k) ==
  /\ pc[c] = "idle" /\ Ready(c) /\ state = "open" /\ cooled
  /\ state' = "half_open" /\ trials' = FirstTrial(k)
  /\ Note(c, "half_open")
  /\ IF MayProbe(k) THEN Goto(c, k) ELSE UNCHANGED pc
  /\ UNCHANGED <<errors, cooled, row, lagging, restarts>>

(* The call is refused by a later check or by the user, or its error is one *)
(* of the infrastructure: it is not recorded.                               *)
Drop(c) ==
  /\ Running(c) /\ Ready(c) /\ Goto(c, "idle")
  /\ UNCHANGED <<breaker, writes, row, lagging, restarts>>

Tripped == state' = "open" /\ cooled' = FALSE

(* record.  The other patterns of _detect_anomaly, rates and repetitions in *)
(* the last hundred actions, may be found at any time.                      *)
Cleared == 0

Succeed(c) ==
  /\ Running(c) /\ Ready(c) /\ Goto(c, "recorded")
  /\ errors' = Cleared
  /\ \/ /\ state = "half_open" /\ trials >= TrialLimit
        /\ state' = "closed" /\ Note(c, "closed") /\ UNCHANGED cooled
     \/ /\ state = "closed"
        /\ Tripped /\ Note(c, "open")
     \/ /\ state # "half_open" \/ trials < TrialLimit
        /\ UNCHANGED <<state, cooled, writes>>
  /\ UNCHANGED <<trials, row, lagging, restarts>>

OneMore == IF errors < MaxErrors THEN errors + 1 ELSE errors

Fail(c) ==
  /\ Running(c) /\ Ready(c) /\ Goto(c, "recorded")
  /\ errors' = OneMore
  /\ \/ /\ state \in {"half_open", "closed"}
        /\ Tripped /\ Note(c, "open")
     \/ /\ state = "open" \/ (state = "closed" /\ errors' < MaxErrors)
        /\ UNCHANGED <<state, cooled, writes>>
  /\ UNCHANGED <<trials, row, lagging, restarts>>

(* run_anomaly_detection, in the thread of the call after record: a critical *)
(* alert trips the breaker, open or not, and its cooldown begins anew.      *)
Escalate(c) ==
  /\ pc[c] = "recorded" /\ Ready(c) /\ Goto(c, "idle")
  /\ Tripped /\ Note(c, "open")
  /\ UNCHANGED <<trials, errors, row, lagging, restarts>>

Leave(c) ==
  /\ pc[c] = "recorded" /\ Ready(c) /\ Goto(c, "idle")
  /\ UNCHANGED <<breaker, writes, row, lagging, restarts>>

(* reset: a closed breaker is not written.                                  *)
Reset ==
  /\ Ready(Admin)
  /\ state' = "closed" /\ cooled' = FALSE /\ errors' = Cleared /\ trials' = 0
  /\ IF state # "closed" THEN Note(Admin, "closed") ELSE UNCHANGED writes
  /\ UNCHANGED <<pc, row, lagging, restarts>>

(* write_cb_state swallows a failure.                                       *)
Store(a) ==
  /\ todo[a] # None /\ todo' = [todo EXCEPT ![a] = None]
  /\ \/ row' = todo[a] /\ lagging' = (a # latest)
     \/ row' = row /\ lagging' = (lagging \/ a = latest)
  /\ UNCHANGED <<breaker, pc, latest, restarts>>

Cool ==
  /\ state = "open" /\ ~cooled /\ cooled' = TRUE
  /\ UNCHANGED <<state, trials, errors, pc, writes, row, lagging, restarts>>

(* The process ends; the next one starts closed and does not read the row.  *)
Restart ==
  /\ restarts < MaxRestarts /\ restarts' = restarts + 1
  /\ state' = "closed" /\ trials' = 0 /\ errors' = 0 /\ cooled' = FALSE
  /\ pc' = [c \in Calls |-> "idle"]
  /\ todo' = [a \in Actors |-> None] /\ latest' = None
  /\ lagging' = (row # "closed")
  /\ UNCHANGED row

(* What the thread of a call does by itself.                                *)
Proceed(c) == Drop(c) \/ Succeed(c) \/ Fail(c) \/ Escalate(c) \/ Leave(c)

Check(c, k) == CheckClosed(c, k) \/ CheckHalfOpen(c, k) \/ CheckOpen(c, k)

Next ==
  \/ \E c \in Calls : Proceed(c) \/ \E k \in Kinds : Check(c, k)
  \/ \E a \in Actors : Store(a)
  \/ Reset \/ Cool \/ Restart

Spec == Init /\ [][Next]_vars

(* Threads go on, time passes, and the agents keep calling tools that read. *)
FairSpec ==
  /\ Spec /\ WF_vars(Cool) /\ WF_vars(\E c \in Calls : Check(c, "read"))
  /\ \A c \in Calls : WF_vars(Proceed(c))
  /\ \A a \in Actors : WF_vars(Store(a))
-----------------------------------------------------------------------------
TypeOK ==
  /\ state \in States /\ row \in States
  /\ trials \in 0..TrialLimit /\ errors \in 0..MaxErrors
  /\ cooled \in BOOLEAN /\ lagging \in BOOLEAN /\ restarts \in 0..MaxRestarts
  /\ pc \in [Calls -> Kinds \cup {"idle", "recorded"}]
  /\ todo \in [Actors -> States \cup {None}] /\ latest \in Actors \cup {None}

(* Whatever is recorded while the breaker is open or half open, and however *)
(* it is closed, a closed breaker never carries as many consecutive errors  *)
(* as would open it: the next error would reopen it at once.                *)
ErrorsNoticed == state = "closed" => errors < MaxErrors

(* The row shows the state, if the thread that changed it last has written   *)
(* it and no other write overtook or followed that one.                     *)
RowAgrees ==
  ~lagging /\ (\A a \in Actors : todo[a] = None) => row = state

(* From the trip to the close no call that writes is let through: those     *)
(* that run were running before.                                            *)
Writing == {c \in Calls : pc[c] = "write"}
WritesDrain ==
  [][state # "closed" /\ state' # "closed" => Writing' \subseteq Writing]_vars

(* A breaker cannot stay open or half open for ever while calls that read   *)
(* are made, let through by the later checks and succeed.                   *)
Setback ==
  \/ \E c \in Calls : Drop(c) \/ Fail(c) \/ Escalate(c)
  \/ state = "closed" /\ state' = "open"
Recovers == []<><<Setback>>_vars \/ []<>(state = "closed")

(* Does not hold: "Return to closed after 5 successes"                      *)
(* (circuit_breaker.py:155).  The calls that were let through are counted.  *)
(* One success closes, also of a call from before the trip.                 *)
ClosedByProbe ==
  [][state = "half_open" /\ state' = "closed" =>
       \/ Reset \/ Restart
       \/ \E c \in Calls : Succeed(c) /\ pc[c] = "read"]_vars

(* Does not hold: with all writes done the row shows the state.  Writes of  *)
(* two threads may change places, and a restarted process leaves the row.   *)
RowTruth == (\A a \in Actors : todo[a] = None) => row = state
=============================================================================
