------------------------- MODULE ApprovalGateProofs -------------------------
(***************************************************************************)
(* The approval gate keeps its types and the promise of OneDecision, for   *)
(* any requests and answers.                                               *)
(***************************************************************************)
EXTENDS ApprovalGate, TLAPS

Open == {"waiting", "woken", "timedOut"}

(* What wakes a waiter is its accepted answer, or the timeout of a request  *)
(* whose time is up.                                                        *)
Justified(r) == decision[r] = acked[r] \/ (decision[r] = Timeout /\ r \in late)

GateInv ==
  /\ \A r \in Requests :
       stage[r] \in {"waiting", "woken"} /\ decision[r] # None => Justified(r)
  /\ \A r \in Requests : stage[r] = "new" => decision[r] = None
  /\ \A r \in Requests : stage[r] = "woken" => decision[r] # None
  /\ \A r \in Requests : stage[r] = "timedOut" => r \in late
  /\ \A r \in pending : stage[r] \in Open
  /\ \A r \in Requests : decision[r] = None => acked[r] = None
  /\ \A r \in Requests : result[r] \in {None, Timeout, acked[r]}

IInv == TypeOK /\ GateInv

LEMMA InitInv == ASSUME Distinct PROVE Init => IInv
  BY DEF Init, IInv, TypeOK, GateInv, Stages, Distinct

(* Every step keeps the types: a request that returns is told something.    *)
LEMMA StepTypes ==
  ASSUME Distinct, IInv, [Next]_vars
  PROVE  TypeOK'
<1> USE DEF IInv, TypeOK, Stages, Move
<1>1. ASSUME NEW r \in Requests, Create(r) PROVE TypeOK'
  BY <1>1 DEF Create
<1>2. ASSUME NEW r \in Requests, Elapse(r) PROVE TypeOK'
  BY <1>2 DEF Elapse
<1>3. ASSUME NEW r \in Requests, NEW a \in Answers, Respond(r, a) PROVE TypeOK'
  BY <1>3 DEF Respond
<1>4. CASE GetPending
  BY <1>4 DEF GetPending, Overdue
<1>5. ASSUME NEW r \in Requests, Wake(r) PROVE TypeOK'
  BY <1>5 DEF Wake
<1>6. ASSUME NEW r \in Requests, TimeOut(r) PROVE TypeOK'
  BY <1>6 DEF TimeOut
<1>7. ASSUME NEW r \in Requests, Return(r) PROVE TypeOK'
  <2>1. Outcome(r) \in Answers \cup {Timeout}
    BY <1>7 DEF Return, Outcome, GateInv, Distinct
  <2>2. Outcome(r) # None
    BY <2>1 DEF Distinct
  <2> QED  BY <1>7, <2>1, <2>2 DEF Return
<1>8. CASE Crash
  BY <1>8 DEF Crash
<1>9. CASE UNCHANGED vars
  BY <1>9 DEF vars
<1> QED
  BY <1>1, <1>2, <1>3, <1>4, <1>5, <1>6, <1>7, <1>8, <1>9 DEF Next

(* Every step keeps the reasons for what is decided.                        *)
LEMMA StepGate ==
  ASSUME Distinct, IInv, [Next]_vars
  PROVE  GateInv'
<1> USE DEF IInv, TypeOK, GateInv, Justified, Move, Open, Stages
<1>1. ASSUME NEW r \in Requests, Create(r) PROVE GateInv'
  BY <1>1 DEF Create
<1>2. ASSUME NEW r \in Requests, Elapse(r) PROVE GateInv'
  BY <1>2 DEF Elapse
<1>3. ASSUME NEW r \in Requests, NEW a \in Answers, Respond(r, a) PROVE GateInv'
  <2>1. r \in pending /\ decision[r] = None /\ stage[r] \in {"waiting", "timedOut"}
    BY <1>3 DEF Respond, MayAnswer
  <2>2. decision'[r] = a /\ acked'[r] = a /\ a # None
    BY <1>3 DEF Respond, Distinct
  <2>3. \A q \in Requests \ {r} : decision'[q] = decision[q] /\ acked'[q] = acked[q]
    BY <1>3 DEF Respond
  <2>4. stage' = stage /\ late' = late /\ pending' = pending
    BY <1>3 DEF Respond
  <2>5. \A q \in Requests : stage[q] \in {"waiting", "woken"} /\ decision'[q] # None
                              => Justified(q)'
    <3>1. Justified(r)'
      BY <2>2 DEF Justified
    <3>2. ASSUME NEW q \in Requests \ {r}, stage[q] \in {"waiting", "woken"}, decision'[q] # None
          PROVE  Justified(q)'
      BY <2>3, <2>4, <3>2 DEF Justified
    <3> QED  BY <3>1, <3>2
  <2>6. \A q \in Requests : stage[q] = "new" => decision'[q] = None
    BY <2>1, <2>3
  <2>7. \A q \in Requests : stage[q] = "woken" => decision'[q] # None
    BY <2>2, <2>3
  <2>8. \A q \in Requests : decision'[q] = None => acked'[q] = None
    BY <2>2, <2>3
  <2>9. \A q \in Requests : result'[q] \in {None, Timeout, acked'[q]}
    BY <1>3, <2>1, <2>3 DEF Respond
  <2> QED  BY <2>4, <2>5, <2>6, <2>7, <2>8, <2>9
<1>4. CASE GetPending
  BY <1>4 DEF GetPending, Overdue, Distinct
<1>5. ASSUME NEW r \in Requests, Wake(r) PROVE GateInv'
  BY <1>5 DEF Wake
<1>6. ASSUME NEW r \in Requests, TimeOut(r) PROVE GateInv'
  BY <1>6 DEF TimeOut
<1>7. ASSUME NEW r \in Requests, Return(r) PROVE GateInv'
  BY <1>7 DEF Return, Outcome, Distinct
<1>8. CASE Crash
  BY <1>8 DEF Crash
<1>9. CASE UNCHANGED vars
  BY <1>9 DEF vars
<1> QED
  BY <1>1, <1>2, <1>3, <1>4, <1>5, <1>6, <1>7, <1>8, <1>9 DEF Next

(* The reasons are an invariant of the gate.                                *)
THEOREM GateInvariant == ASSUME Distinct PROVE Spec => []IInv
<1>1. IInv /\ [Next]_vars => IInv'
  BY StepTypes, StepGate DEF IInv
<1> QED  BY <1>1, InitInv, PTL DEF Spec

(* Every step of the gate is a step of OneDecision or leaves it alone.      *)
LEMMA StepDecides ==
  ASSUME Distinct, IInv, [Next]_vars
  PROVE  [Decision!Next]_(Decision!vars)
<1> USE DEF IInv, TypeOK, Decision!vars
<1>1. ASSUME NEW r \in Requests, Create(r) PROVE UNCHANGED Decision!vars
  BY <1>1 DEF Create
<1>2. ASSUME NEW r \in Requests, Elapse(r) PROVE Decision!Next
  BY <1>2 DEF Elapse, Decision!Next, Decision!Expire
<1>3. ASSUME NEW r \in Requests, NEW a \in Answers, Respond(r, a) PROVE Decision!Next
  <2>1. acked[r] = None /\ result[r] = None
    BY <1>3 DEF Respond, MayAnswer, GateInv, Open
  <2>2. Decision!Accept(r, a)
    BY <1>3, <2>1 DEF Respond, Decision!Accept
  <2> QED  BY <2>2 DEF Decision!Next
<1>4. CASE GetPending
  BY <1>4 DEF GetPending
<1>5. ASSUME NEW r \in Requests, Wake(r) PROVE UNCHANGED Decision!vars
  BY <1>5 DEF Wake
<1>6. ASSUME NEW r \in Requests, TimeOut(r) PROVE UNCHANGED Decision!vars
  BY <1>6 DEF TimeOut
<1>7. ASSUME NEW r \in Requests, Return(r) PROVE Decision!Next
  <2>1. result[r] = None
    BY <1>7 DEF Return
  <2>2. CASE stage[r] = "timedOut"
    <3>1. Decision!Return(r)
      BY <1>7, <2>1, <2>2 DEF Return, Outcome, GateInv, Decision!Return
    <3> QED  BY <3>1 DEF Decision!Next
  <2>3. CASE stage[r] = "woken"
    <3>1. Justified(r) /\ decision[r] # None
      BY <2>3 DEF GateInv
    <3>2. result' = [result EXCEPT ![r] = decision[r]]
      BY <1>7, <2>3 DEF Return, Outcome
    <3>3. CASE decision[r] = acked[r]
      <4>1. acked[r] # None /\ result' = [result EXCEPT ![r] = acked[r]]
        BY <3>1, <3>2, <3>3, Zenon
      <4>2. late' = late /\ acked' = acked
        BY <1>7 DEF Return
      <4> QED  BY <2>1, <4>1, <4>2 DEF Decision!Return, Decision!Next
    <3>4. CASE decision[r] = Timeout /\ r \in late
      <4>1. result' = [result EXCEPT ![r] = Timeout]
        BY <3>2, <3>4, Zenon
      <4>2. late' = late /\ acked' = acked
        BY <1>7 DEF Return
      <4> QED  BY <2>1, <3>4, <4>1, <4>2 DEF Decision!Return, Decision!Next
    <3> QED  BY <3>1, <3>3, <3>4 DEF Justified
  <2> QED  BY <1>7, <2>2, <2>3 DEF Return
<1>8. CASE Crash
  BY <1>8 DEF Crash
<1>9. CASE UNCHANGED vars
  BY <1>9 DEF vars
<1> QED
  BY <1>1, <1>2, <1>3, <1>4, <1>5, <1>6, <1>7, <1>8, <1>9 DEF Next

(* The gate implements OneDecision: whatever the callers, the answers, the  *)
(* lists of pending requests and the clock do, at most one answer of a      *)
(* request is accepted, and the request returns that answer or, when its    *)
(* time is up, a timeout.                                                   *)
THEOREM GateIsOneDecision == ASSUME Distinct PROVE Spec => IsOneDecision
<1>1. Init => Decision!Init
  BY DEF Init, Decision!Init
<1>2. IInv /\ [Next]_vars => [Decision!Next]_(Decision!vars)
  BY StepDecides
<1> QED
  BY <1>1, <1>2, GateInvariant, PTL DEF Spec, IsOneDecision, Decision!Spec
=============================================================================
