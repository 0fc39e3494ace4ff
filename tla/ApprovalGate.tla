---------------------------- MODULE ApprovalGate ----------------------------
(***************************************************************************)
(* core/agent_safety/approval_gate.py: the gate that holds a tool call     *)
(* until the user has answered.  The caller waits on an event in one       *)
(* thread, answers and the list of pending requests are served by others;  *)
(* the lock covers each access to the list but not the wait between them.  *)
(***************************************************************************)
EXTENDS FiniteSets

CONSTANTS Requests,
          Answers,       \* allow, always_allow, deny
          Timeout, None

Distinct == Timeout \notin Answers /\ None \notin Answers /\ None # Timeout

VARIABLES stage,         \* where the caller of a request is
          pending,       \* ApprovalGate._pending
          decision,      \* ApprovalRequest.decision; its event is set with it
          late,          \* requests whose timeout has passed
          result,        \* what wait_for_decision has returned
          acked          \* history: the answer for which respond returned True

vars == <<stage, pending, decision, late, result, acked>>

Stages == {"new", "waiting", "woken", "timedOut", "returned", "lost"}

Init ==
  /\ stage = [r \in Requests |-> "new"]
  /\ pending = {} /\ late = {}
  /\ decision = [r \in Requests |-> None]
  /\ result = [r \in Requests |-> None]
  /\ acked = [r \in Requests |-> None]

(* Wrong variants of the definitions below, for the mutation checks.       *)
AnswerAgain(r) == r \in pending
AllPending == pending
StaleResult(r) == IF stage[r] = "timedOut" THEN Timeout ELSE acked[r]

Move(r, place) == stage' = [stage EXCEPT ![r] = place]

Create(r) ==
  /\ stage[r] = "new" /\ Move(r, "waiting")
  /\ pending' = pending \cup {r}
  /\ UNCHANGED <<decision, late, result, acked>>

(* The time counts from the creation of the request.                       *)
Elapse(r) ==
  /\ stage[r] \in {"waiting", "woken"} /\ r \notin late
  /\ late' = late \cup {r}
  /\ UNCHANGED <<stage, pending, decision, result, acked>>

MayAnswer(r) == r \in pending /\ decision[r] = None

Respond(r, a) ==
  /\ MayAnswer(r)
  /\ decision' = [decision EXCEPT ![r] = a]
  /\ acked' = [acked EXCEPT ![r] = a]
  /\ UNCHANGED <<stage, pending, late, result>>

(* get_pending drops what is overdue, answered or not, and wakes its waiter. *)
Overdue == pending \cap late

GetPending ==
  /\ Overdue # {}
  /\ pending' = pending \ Overdue
  /\ decision' = [r \in Requests |-> IF r \in Overdue THEN Timeout ELSE decision[r]]
  /\ UNCHANGED <<stage, late, result, acked>>

(* The wait for the event ends, in a thread of the executor.               *)
Wake(r) ==
  /\ stage[r] = "waiting" /\ decision[r] # None /\ Move(r, "woken")
  /\ UNCHANGED <<pending, decision, late, result, acked>>

TimeOut(r) ==
  /\ stage[r] = "waiting" /\ decision[r] = None /\ r \in late
  /\ Move(r, "timedOut")
  /\ UNCHANGED <<pending, decision, late, result, acked>>

(* The rest of wait_for_decision: once the request is out of the list       *)
(* nobody else changes it.  An answer that came after the wait had timed    *)
(* out is overwritten.                                                      *)
Outcome(r) == IF stage[r] = "timedOut" THEN Timeout ELSE decision[r]

Return(r) ==
  /\ stage[r] \in {"woken", "timedOut"} /\ Move(r, "returned")
  /\ pending' = pending \ {r}
  /\ decision' = [decision EXCEPT ![r] = Outcome(r)]
  /\ result' = [result EXCEPT ![r] = Outcome(r)]
  /\ UNCHANGED <<late, acked>>

(* The process ends.                                                       *)
Crash ==
  /\ stage' = [r \in Requests |->
                 IF stage[r] \in {"waiting", "woken", "timedOut"} THEN "lost" ELSE stage[r]]
  /\ pending' = {}
  /\ UNCHANGED <<decision, late, result, acked>>

Next ==
  \/ \E r \in Requests :
       \/ Create(r) \/ Elapse(r) \/ Wake(r) \/ TimeOut(r) \/ Return(r)
       \/ \E a \in Answers : Respond(r, a)
  \/ GetPending \/ Crash

Spec == Init /\ [][Next]_vars
-----------------------------------------------------------------------------
TypeOK ==
  /\ stage \in [Requests -> Stages]
  /\ pending \subseteq Requests /\ late \subseteq Requests
  /\ decision \in [Requests -> Answers \cup {Timeout, None}]
  /\ result \in [Requests -> Answers \cup {Timeout, None}]
  /\ acked \in [Requests -> Answers \cup {None}]
  /\ \A r \in Requests : result[r] = None <=> stage[r] # "returned"

(* The gate keeps the promise of OneDecision.                              *)
Decision == INSTANCE OneDecision WITH
              answer <- acked, expired <- late, outcome <- result
IsOneDecision == Decision!Spec

(* Does not hold: the accepted answer is what the caller is told.  Not if   *)
(* it comes between the end of the wait and the removal of the request.     *)
AnswerStands ==
  \A r \in Requests : stage[r] = "returned" /\ acked[r] # None => result[r] = acked[r]
=============================================================================
