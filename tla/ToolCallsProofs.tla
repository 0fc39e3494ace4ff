--------------------------- MODULE ToolCallsProofs ---------------------------
(***************************************************************************)
(* What holds of the calls of a process, for any number of calls, tools,    *)
(* threads and events: types, the kill switch, the approvals, the overrun   *)
(* of the budget, and that the gate keeps its promise in this use.          *)
(***************************************************************************)
EXTENDS ToolCalls, FiniteSetTheorems, TLAPS

G == INSTANCE ApprovalGateProofs WITH Requests <- Calls

LEMMA GateConstants == G!Distinct
  BY CallAssumption DEF G!Distinct

(* What a step of a call does to the gate is a step of the gate.            *)
LEMMA GateStep == [Next]_vars => [G!Next]_(G!vars)
<1> SUFFICES ASSUME [Next]_vars PROVE [G!Next]_(G!vars)
  OBVIOUS
<1> USE DEF gate
<1>1. ASSUME NEW c \in Calls, Start(c) PROVE [G!Next]_(G!vars)
  BY <1>1 DEF Start, G!vars
<1>2. ASSUME NEW c \in Calls, CheckBudget(c) PROVE [G!Next]_(G!vars)
  BY <1>2 DEF CheckBudget, G!vars
<1>3. ASSUME NEW c \in Calls, EnterGate(c) PROVE [G!Next]_(G!vars)
  BY <1>3 DEF EnterGate, Gate!Create, G!Create, Gate!Move, G!Move, G!Next, G!vars
<1>4. ASSUME NEW c \in Calls, Waiting(c) PROVE [G!Next]_(G!vars)
  BY <1>4 DEF Waiting, Gate!Wake, G!Wake, Gate!TimeOut, G!TimeOut, Gate!Return, G!Return,
              Gate!Outcome, G!Outcome, Gate!Move, G!Move, G!Next
<1>5. ASSUME NEW c \in Calls, Clock(c) PROVE [G!Next]_(G!vars)
  BY <1>5 DEF Clock, Gate!Elapse, G!Elapse, G!Next
<1>6. ASSUME NEW c \in Calls, Heed(c) PROVE [G!Next]_(G!vars)
  BY <1>6 DEF Heed, G!vars
<1>7. ASSUME NEW c \in Calls, Run(c) PROVE [G!Next]_(G!vars)
  BY <1>7 DEF Run, G!vars
<1>8. ASSUME NEW c \in Calls, Charge(c) PROVE [G!Next]_(G!vars)
  BY <1>8 DEF Charge, G!vars
<1>9. ASSUME NEW c \in Calls, NEW a \in Answers, Answer(c, a) PROVE [G!Next]_(G!vars)
  BY <1>9 DEF Answer, Gate!Respond, G!Respond, Gate!MayAnswer, G!MayAnswer, G!Next
<1>10. ASSUME NEW c \in Calls, NEW t \in Tools, Arrive(c, t) PROVE [G!Next]_(G!vars)
  BY <1>10 DEF Arrive, G!vars
<1>11. ASSUME NEW t \in Tools, RemoveRule(t) PROVE [G!Next]_(G!vars)
  BY <1>11 DEF RemoveRule, G!vars
<1>12. CASE ListPending
  BY <1>12 DEF ListPending, Gate!GetPending, G!GetPending, Gate!Overdue, G!Overdue, G!Next
<1>13. CASE ResetBudget
  BY <1>13 DEF ResetBudget, G!vars
<1>14. CASE KillHere
  BY <1>14 DEF KillHere, G!vars
<1>15. CASE KillStored
  BY <1>15 DEF KillStored, G!vars
<1>16. CASE KillElsewhere
  BY <1>16 DEF KillElsewhere, G!vars
<1>17. CASE ResumeHere
  BY <1>17 DEF ResumeHere, G!vars
<1>18. CASE ResumeStored
  BY <1>18 DEF ResumeStored, G!vars
<1>19. CASE ResumeElsewhere
  BY <1>19 DEF ResumeElsewhere, G!vars
<1>20. CASE Restart
  BY <1>20 DEF Restart, Gate!Crash, G!Crash, G!Next
<1>21. CASE UNCHANGED vars
  BY <1>21 DEF vars, G!vars
<1> QED
  BY <1>1, <1>2, <1>3, <1>4, <1>5, <1>6, <1>7, <1>8, <1>9, <1>10, <1>11, <1>12, <1>13, <1>14, <1>15, <1>16, <1>17, <1>18, <1>19, <1>20, <1>21 DEF Next, Step

(* The invariant of the gate holds in this use of it.                       *)
THEOREM GateInvariant == Spec => []G!IInv
<1>1. Init => G!IInv
  <2>1. Init => G!Init
    BY DEF Init, Gate!Init, G!Init
  <2> QED  BY <2>1, GateConstants, G!InitInv
<1>2. G!IInv /\ [Next]_vars => G!IInv'
  <2> SUFFICES ASSUME G!IInv, [Next]_vars PROVE G!IInv'
    OBVIOUS
  <2>1. [G!Next]_(G!vars)
    BY GateStep
  <2> QED  BY <2>1, GateConstants, G!StepTypes, G!StepGate DEF G!IInv
<1> QED  BY <1>1, <1>2, PTL DEF Spec

(* The gate implements OneDecision in this use of it.                       *)
THEOREM GateInUse == Spec => IsOneDecision
<1> DEFINE DNext == Gate!Decision!Next
           DVars == Gate!Decision!vars
<1>1. Init => Gate!Decision!Init
  BY DEF Init, Gate!Init, Gate!Decision!Init
<1>2. G!IInv /\ [Next]_vars => [DNext]_DVars
  <2> SUFFICES ASSUME G!IInv, [Next]_vars PROVE [DNext]_DVars
    OBVIOUS
  <2>1. [G!Decision!Next]_(G!Decision!vars)
    BY GateStep, GateConstants, G!StepDecides
  <2> QED
    BY <2>1 DEF G!Decision!Next, G!Decision!vars, Gate!Decision!Next, Gate!Decision!vars,
         G!Decision!Accept, G!Decision!Expire, G!Decision!Return,
         Gate!Decision!Accept, Gate!Decision!Expire, Gate!Decision!Return
<1> QED
  BY <1>1, <1>2, GateInvariant, PTL
     DEF Spec, IsOneDecision, Gate!IsOneDecision, Gate!Decision!Spec

(* Every step keeps the types, if the gate keeps its own.                   *)
LEMMA StepTypes ==
  ASSUME TypeOK, Gate!TypeOK', [Next]_vars
  PROVE  TypeOK'
<1> USE CallAssumption DEF TypeOK, PCs, Ends, InPool, Goto, switch, ghosts
<1>1. ASSUME NEW c \in Calls, Start(c) PROVE TypeOK'
  BY <1>1 DEF Start, At, IsKilled
<1>2. ASSUME NEW c \in Calls, CheckBudget(c) PROVE TypeOK'
  BY <1>2 DEF CheckBudget, At
<1>3. ASSUME NEW c \in Calls, EnterGate(c) PROVE TypeOK'
  BY <1>3 DEF EnterGate, At
<1>4. ASSUME NEW c \in Calls, Waiting(c) PROVE TypeOK'
  BY <1>4 DEF Waiting
<1>5. ASSUME NEW c \in Calls, Clock(c) PROVE TypeOK'
  BY <1>5 DEF Clock
<1>6. ASSUME NEW c \in Calls, Heed(c) PROVE TypeOK'
  BY <1>6 DEF Heed, At
<1>7. ASSUME NEW c \in Calls, Run(c) PROVE TypeOK'
  BY <1>7 DEF Run, At
<1>8. ASSUME NEW c \in Calls, Charge(c) PROVE TypeOK'
  BY <1>8 DEF Charge, At
<1>9. ASSUME NEW c \in Calls, NEW a \in Answers, Answer(c, a) PROVE TypeOK'
  BY <1>9 DEF Answer
<1>10. ASSUME NEW c \in Calls, NEW t \in Tools, Arrive(c, t) PROVE TypeOK'
  BY <1>10 DEF Arrive, At
<1>11. ASSUME NEW t \in Tools, RemoveRule(t) PROVE TypeOK'
  BY <1>11 DEF RemoveRule
<1>12. CASE ListPending
  BY <1>12 DEF ListPending
<1>13. CASE ResetBudget
  BY <1>13 DEF ResetBudget
<1>14. CASE KillHere
  BY <1>14 DEF KillHere
<1>15. CASE KillStored
  BY <1>15 DEF KillStored
<1>16. CASE KillElsewhere
  BY <1>16 DEF KillElsewhere
<1>17. CASE ResumeHere
  BY <1>17 DEF ResumeHere
<1>18. CASE ResumeStored
  BY <1>18 DEF ResumeStored
<1>19. CASE ResumeElsewhere
  BY <1>19 DEF ResumeElsewhere
<1>20. CASE Restart
  BY <1>20 DEF Restart, Latch, Ends, InPool
<1>21. CASE UNCHANGED vars
  BY <1>21 DEF vars
<1> QED
  BY <1>1, <1>2, <1>3, <1>4, <1>5, <1>6, <1>7, <1>8, <1>9, <1>10, <1>11, <1>12, <1>13, <1>14, <1>15, <1>16, <1>17, <1>18, <1>19, <1>20, <1>21 DEF Next, Step

(* The variables keep their types.                                          *)
THEOREM TypeCorrect == Spec => []TypeOK
<1>1. Init /\ G!IInv => TypeOK
  <2> SUFFICES ASSUME Init, G!IInv PROVE TypeOK
    OBVIOUS
  <2>1. Gate!TypeOK
    BY DEF G!IInv, G!TypeOK, Gate!TypeOK, G!Stages, Gate!Stages
  <2>2. tool \in [Calls -> Tools \cup {None}] /\ pc \in [Calls -> PCs]
    BY DEF Init, PCs
  <2>3. \A c \in Calls : pc[c] = "new"
    BY DEF Init
  <2> QED  BY <2>1, <2>2, <2>3 DEF Init, TypeOK
<1>2. TypeOK /\ G!IInv' /\ [Next]_vars => TypeOK'
  <2> SUFFICES ASSUME TypeOK, G!IInv', [Next]_vars PROVE TypeOK'
    OBVIOUS
  <2>1. Gate!TypeOK'
    BY DEF G!IInv, G!TypeOK, Gate!TypeOK, G!Stages, Gate!Stages
  <2> QED  BY <2>1, StepTypes
<1> QED  BY <1>1, <1>2, GateInvariant, PTL DEF Spec

-----------------------------------------------------------------------------
(* While a kill holds the file is there, and a call that came after it has   *)
(* not passed the test in Start.                                            *)
KillInv ==
  /\ halted => flag
  /\ barred # {} => halted
  /\ \A c \in barred : pc[c] \in {"queued", "blocked", "lost"}
  /\ \A c \in ran : pc[c] \in {"charge", "done", "lost"}
  /\ KillHolds

(* Every step keeps it: a call is started only when nothing is killed.      *)
LEMMA StepKill ==
  ASSUME TypeOK, KillInv, [Next]_vars
  PROVE  KillInv'
<1> USE DEF TypeOK, KillInv, KillHolds, Goto, switch, ghosts
<1>1. ASSUME NEW c \in Calls, Start(c) PROVE KillInv'
  BY <1>1 DEF Start, At, IsKilled
<1>2. ASSUME NEW c \in Calls, CheckBudget(c) PROVE KillInv'
  BY <1>2 DEF CheckBudget, At
<1>3. ASSUME NEW c \in Calls, EnterGate(c) PROVE KillInv'
  BY <1>3 DEF EnterGate, At
<1>4. ASSUME NEW c \in Calls, Waiting(c) PROVE KillInv'
  BY <1>4 DEF Waiting
<1>5. ASSUME NEW c \in Calls, Clock(c) PROVE KillInv'
  BY <1>5 DEF Clock
<1>6. ASSUME NEW c \in Calls, Heed(c) PROVE KillInv'
  BY <1>6 DEF Heed, At
<1>7. ASSUME NEW c \in Calls, Run(c) PROVE KillInv'
  BY <1>7 DEF Run, At
<1>8. ASSUME NEW c \in Calls, Charge(c) PROVE KillInv'
  BY <1>8 DEF Charge, At
<1>9. ASSUME NEW c \in Calls, NEW a \in Answers, Answer(c, a) PROVE KillInv'
  BY <1>9 DEF Answer
<1>10. ASSUME NEW c \in Calls, NEW t \in Tools, Arrive(c, t) PROVE KillInv'
  BY <1>10 DEF Arrive, At
<1>11. ASSUME NEW t \in Tools, RemoveRule(t) PROVE KillInv'
  BY <1>11 DEF RemoveRule
<1>12. CASE ListPending
  BY <1>12 DEF ListPending
<1>13. CASE ResetBudget
  BY <1>13 DEF ResetBudget
<1>14. CASE KillHere
  BY <1>14 DEF KillHere
<1>15. CASE KillStored
  BY <1>15 DEF KillStored
<1>16. CASE KillElsewhere
  BY <1>16 DEF KillElsewhere
<1>17. CASE ResumeHere
  BY <1>17 DEF ResumeHere
<1>18. CASE ResumeStored
  BY <1>18 DEF ResumeStored
<1>19. CASE ResumeElsewhere
  BY <1>19 DEF ResumeElsewhere
<1>20. CASE Restart
  BY <1>20 DEF Restart, Ends
<1>21. CASE UNCHANGED vars
  BY <1>21 DEF vars
<1> QED
  BY <1>1, <1>2, <1>3, <1>4, <1>5, <1>6, <1>7, <1>8, <1>9, <1>10, <1>11, <1>12, <1>13, <1>14, <1>15, <1>16, <1>17, <1>18, <1>19, <1>20, <1>21 DEF Next, Step

(* A call that arrives after a kill has returned never runs its tool,        *)
(* restarts included, unless a resume begins.                               *)
THEOREM KillHoldsCorrect == Spec => []KillHolds
<1>1. Init => KillInv
  BY DEF Init, KillInv, KillHolds
<1>2. TypeOK /\ KillInv /\ [Next]_vars => KillInv'
  BY StepKill
<1>3. KillInv => KillHolds
  BY DEF KillInv
<1> QED  BY <1>1, <1>2, <1>3, TypeCorrect, PTL DEF Spec

-----------------------------------------------------------------------------
(* A call of a tool of level 2 is approved before it runs.                  *)
ApproveInv ==
  /\ \A c \in Calls : pc[c] = "run" /\ tool[c] \in Level2 => Approved(c)
  /\ \A c \in ran : pc[c] \in {"charge", "done", "lost"}
  /\ ApprovedOnly

(* An accepted answer is never replaced.                                    *)
LEMMA AnswerStays ==
  ASSUME G!IInv, [Next]_vars
  PROVE  \A c \in Calls : acked[c] # None => acked'[c] = acked[c]
<1>1. [G!Decision!Next]_(G!Decision!vars)
  BY GateStep, GateConstants, G!StepDecides
<1> QED
  BY <1>1 DEF G!Decision!Next, G!Decision!vars, G!Decision!Accept, G!Decision!Expire,
              G!Decision!Return, G!IInv, G!TypeOK

(* An approval is not taken back.                                           *)
LEMMA ApprovalStays ==
  ASSUME G!IInv, [Next]_vars, covered \subseteq covered', NEW c \in Calls, Approved(c)
  PROVE  Approved(c)'
  BY AnswerStays, CallAssumption DEF Approved

(* Every step keeps it: only a granting answer or a rule leads to the tool.  *)
LEMMA StepApprove ==
  ASSUME TypeOK, G!IInv, ApproveInv, [Next]_vars
  PROVE  ApproveInv'
<1> USE DEF TypeOK, ApproveInv, ApprovedOnly, Goto, switch, ghosts
<1>a. \A c \in Calls : covered \subseteq covered' /\ Approved(c) => Approved(c)'
  BY ApprovalStays
<1>1. ASSUME NEW c \in Calls, Start(c) PROVE ApproveInv'
  BY <1>1, <1>a DEF Start, At
<1>2. ASSUME NEW c \in Calls, CheckBudget(c) PROVE ApproveInv'
  BY <1>2, <1>a DEF CheckBudget, At
<1>3. ASSUME NEW c \in Calls, EnterGate(c) PROVE ApproveInv'
  <2>1. covered \subseteq covered'
    BY <1>3 DEF EnterGate
  <2>2. pc'[c] = "run" /\ tool[c] \in Level2 => c \in covered'
    BY <1>3 DEF EnterGate, HasRule
  <2> QED  BY <1>3, <1>a, <2>1, <2>2 DEF EnterGate, At, Approved
<1>4. ASSUME NEW c \in Calls, Waiting(c) PROVE ApproveInv'
  BY <1>4, <1>a DEF Waiting
<1>5. ASSUME NEW c \in Calls, Clock(c) PROVE ApproveInv'
  BY <1>5, <1>a DEF Clock
<1>6. ASSUME NEW c \in Calls, Heed(c) PROVE ApproveInv'
  <2>1. result[c] \in {Allow, AlwaysAllow} => acked[c] = result[c]
    BY CallAssumption DEF G!IInv, G!GateInv
  <2>2. pc'[c] = "run" => acked'[c] \in {Allow, AlwaysAllow}
    BY <1>6, <2>1 DEF Heed, Granting, gate
  <2> QED  BY <1>6, <1>a, <2>2 DEF Heed, At, Approved
<1>7. ASSUME NEW c \in Calls, Run(c) PROVE ApproveInv'
  <2>1. \A d \in Calls \ {c} : pc'[d] = pc[d]
    BY <1>7 DEF Run
  <2> QED  BY <1>7, <1>a, <2>1 DEF Run, At
<1>8. ASSUME NEW c \in Calls, Charge(c) PROVE ApproveInv'
  BY <1>8, <1>a DEF Charge, At
<1>9. ASSUME NEW c \in Calls, NEW a \in Answers, Answer(c, a) PROVE ApproveInv'
  BY <1>9, <1>a DEF Answer
<1>10. ASSUME NEW c \in Calls, NEW t \in Tools, Arrive(c, t) PROVE ApproveInv'
  BY <1>10, <1>a DEF Arrive, At
<1>11. ASSUME NEW t \in Tools, RemoveRule(t) PROVE ApproveInv'
  BY <1>11, <1>a DEF RemoveRule
<1>12. CASE ListPending
  BY <1>12, <1>a DEF ListPending
<1>13. CASE ResetBudget
  BY <1>13, <1>a DEF ResetBudget
<1>14. CASE KillHere
  BY <1>14, <1>a DEF KillHere
<1>15. CASE KillStored
  BY <1>15, <1>a DEF KillStored
<1>16. CASE KillElsewhere
  BY <1>16, <1>a DEF KillElsewhere
<1>17. CASE ResumeHere
  BY <1>17, <1>a DEF ResumeHere
<1>18. CASE ResumeStored
  BY <1>18, <1>a DEF ResumeStored
<1>19. CASE ResumeElsewhere
  BY <1>19, <1>a DEF ResumeElsewhere
<1>20. CASE Restart
  BY <1>20, <1>a DEF Restart, Ends
<1>21. CASE UNCHANGED vars
  BY <1>21, <1>a DEF vars
<1> QED
  BY <1>1, <1>2, <1>3, <1>4, <1>5, <1>6, <1>7, <1>8, <1>9, <1>10, <1>11, <1>12, <1>13, <1>14, <1>15, <1>16, <1>17, <1>18, <1>19, <1>20, <1>21 DEF Next, Step

(* A tool of level 2 runs only by an accepted granting answer to its own     *)
(* request or by a rule for the tool.                                       *)
THEOREM ApprovedOnlyCorrect == Spec => []ApprovedOnly
<1>1. Init => ApproveInv
  BY DEF Init, ApproveInv, ApprovedOnly
<1>2. TypeOK /\ G!IInv /\ ApproveInv /\ [Next]_vars => ApproveInv'
  BY StepApprove
<1>3. ApproveInv => ApprovedOnly
  BY DEF ApproveInv
<1> QED  BY <1>1, <1>2, <1>3, TypeCorrect, GateInvariant, PTL DEF Spec

-----------------------------------------------------------------------------
(* Calls that the budget has let through and not yet been charged for.      *)
Admitted == {c \in Calls : pc[c] \in {"gate", "ask", "run", "charge"}}

BudgetInv ==
  serves => /\ Cardinality(Running) <= threads
            /\ used + Cardinality(Admitted) <= Limit + threads - 1

LEMMA Sizes ==
  ASSUME NEW S \in SUBSET Calls, NEW T \in SUBSET Calls, S \subseteq T
  PROVE  /\ Cardinality(S) \in Nat /\ Cardinality(T) \in Nat
         /\ Cardinality(S) <= Cardinality(T)
  BY CallAssumption, FS_Subset, FS_CardinalityType

(* A step in which no call enters the pool or passes the budget and nothing *)
(* is charged keeps the bounds.                                             *)
LEMMA Quiet ==
  ASSUME TypeOK, BudgetInv, threads' = threads, used' = used,
         Running' \subseteq Running, Admitted' \subseteq Admitted
  PROVE  BudgetInv'
<1>1. Running \subseteq Calls /\ Admitted \subseteq Calls
  BY DEF Running, Admitted
<1>2. /\ Cardinality(Running') <= Cardinality(Running)
      /\ Cardinality(Running') \in Nat /\ Cardinality(Running) \in Nat
  BY <1>1, Sizes
<1>3. /\ Cardinality(Admitted') <= Cardinality(Admitted)
      /\ Cardinality(Admitted') \in Nat /\ Cardinality(Admitted) \in Nat
  BY <1>1, Sizes
<1> QED  BY <1>2, <1>3, CallAssumption DEF BudgetInv, TypeOK, serves

(* Every step keeps the bounds.  When the budget lets a call through, the    *)
(* charges so far are below the limit and the open ones fit the threads.    *)
LEMMA StepBudget ==
  ASSUME TypeOK, BudgetInv, [Next]_vars
  PROVE  BudgetInv'
<1> USE DEF TypeOK
<1>1. ASSUME NEW c \in Calls, Start(c) PROVE BudgetInv'
  <2>1. CASE serves
    <3>1. Running' \subseteq Running \cup {c} /\ c \notin Running
      BY <1>1 DEF Start, At, Goto, Running, InPool
    <3>2. IsFiniteSet(Running) /\ Cardinality(Running \cup {c}) = Cardinality(Running) + 1
      BY <3>1, CallAssumption, FS_Subset, FS_AddElement DEF Running
    <3>3. Cardinality(Running') <= Cardinality(Running) + 1
      <4>1. Running' \in SUBSET Calls /\ Running \cup {c} \in SUBSET Calls
        BY DEF Running
      <4> QED  BY <3>1, <3>2, <4>1, Sizes
    <3>4. /\ Cardinality(Running) \in Nat /\ Cardinality(Running') \in Nat
          /\ Cardinality(Running) < threads
      <4>1. Running' \in SUBSET Calls /\ Running \in SUBSET Calls
        BY DEF Running
      <4> QED  BY <1>1, <2>1, <4>1, Sizes DEF Start, HasThread
    <3>5. Admitted' = Admitted /\ used' = used /\ threads' = threads
      BY <1>1 DEF Start, At, Goto, Admitted
    <3> QED  BY <2>1, <3>3, <3>4, <3>5, CallAssumption DEF BudgetInv, serves
  <2>2. CASE ~serves
    BY <1>1, <2>2 DEF Start, BudgetInv, serves
  <2> QED  BY <2>1, <2>2
<1>2. ASSUME NEW c \in Calls, CheckBudget(c) PROVE BudgetInv'
  <2>1. CASE WithinBudget /\ Goto(c, "gate")
    <3>1. Running' = Running /\ Admitted' \subseteq Running' /\ Running' \in SUBSET Calls
      BY <1>2, <2>1 DEF CheckBudget, At, Goto, Running, Admitted, InPool
    <3>2. /\ Cardinality(Admitted') <= Cardinality(Running)
          /\ Cardinality(Admitted') \in Nat /\ Cardinality(Running) \in Nat
      BY <3>1, Sizes
    <3>3. used < Limit /\ used' = used /\ threads' = threads
      BY <1>2, <2>1 DEF CheckBudget, WithinBudget
    <3> QED  BY <3>1, <3>2, <3>3, CallAssumption DEF BudgetInv, serves
  <2>2. CASE Goto(c, "blocked")
    BY <1>2, <2>2, Quiet DEF CheckBudget, At, Goto, Running, Admitted, InPool
  <2> QED  BY <1>2, <2>1, <2>2 DEF CheckBudget
<1>3. ASSUME NEW c \in Calls, EnterGate(c) PROVE BudgetInv'
  BY <1>3, Quiet DEF EnterGate, At, Goto, Running, Admitted, InPool
<1>4. ASSUME NEW c \in Calls, Waiting(c) PROVE BudgetInv'
  BY <1>4, Quiet DEF Waiting, Running, Admitted, InPool
<1>5. ASSUME NEW c \in Calls, Clock(c) PROVE BudgetInv'
  BY <1>5, Quiet DEF Clock, Running, Admitted, InPool
<1>6. ASSUME NEW c \in Calls, Heed(c) PROVE BudgetInv'
  BY <1>6, Quiet DEF Heed, At, Goto, Running, Admitted, InPool
<1>7. ASSUME NEW c \in Calls, Run(c) PROVE BudgetInv'
  BY <1>7, Quiet DEF Run, At, Goto, Running, Admitted, InPool
<1>8. ASSUME NEW c \in Calls, Charge(c) PROVE BudgetInv'
  <2>1. Running' \subseteq Running /\ Admitted' = Admitted \ {c} /\ c \in Admitted
    BY <1>8 DEF Charge, At, Goto, Running, Admitted, InPool
  <2>2. IsFiniteSet(Admitted) /\ Cardinality(Admitted') = Cardinality(Admitted) - 1
    <3>1. IsFiniteSet(Admitted)
      BY CallAssumption, FS_Subset DEF Admitted
    <3>2. Cardinality(Admitted \ {c}) = Cardinality(Admitted) - 1
      BY <2>1, <3>1, FS_RemoveElement
    <3> QED  BY <2>1, <3>1, <3>2
  <2>3. /\ Cardinality(Running') <= Cardinality(Running) /\ Cardinality(Admitted) \in Nat
        /\ Cardinality(Running') \in Nat /\ Cardinality(Running) \in Nat
    <3>1. Running \in SUBSET Calls /\ Running' \in SUBSET Calls /\ Admitted \in SUBSET Calls
      BY DEF Running, Admitted
    <3> QED  BY <2>1, <3>1, Sizes
  <2>4. used' = used + 1 /\ threads' = threads
    BY <1>8 DEF Charge
  <2> QED  BY <2>2, <2>3, <2>4, CallAssumption DEF BudgetInv, TypeOK, serves
<1>9. ASSUME NEW c \in Calls, NEW a \in Answers, Answer(c, a) PROVE BudgetInv'
  BY <1>9, Quiet DEF Answer, Running, Admitted, InPool
<1>10. ASSUME NEW c \in Calls, NEW t \in Tools, Arrive(c, t) PROVE BudgetInv'
  BY <1>10, Quiet DEF Arrive, At, Goto, Running, Admitted, InPool
<1>11. ASSUME NEW t \in Tools, RemoveRule(t) PROVE BudgetInv'
  BY <1>11, Quiet DEF RemoveRule, Running, Admitted, InPool
<1>12. CASE ListPending
  BY <1>12, Quiet DEF ListPending, Running, Admitted, InPool
<1>13. CASE ResetBudget
  <2>1. Running' = Running /\ Admitted' \subseteq Running' /\ Running' \in SUBSET Calls
    BY <1>13 DEF ResetBudget, Running, Admitted, InPool
  <2>2. /\ Cardinality(Admitted') <= Cardinality(Running)
        /\ Cardinality(Admitted') \in Nat /\ Cardinality(Running) \in Nat
    BY <2>1, Sizes
  <2>3. used' = 0 /\ threads' = threads
    BY <1>13 DEF ResetBudget
  <2> QED  BY <2>1, <2>2, <2>3, CallAssumption DEF BudgetInv, TypeOK, serves
<1>14. CASE KillHere
  BY <1>14, Quiet DEF KillHere, Running, Admitted, InPool
<1>15. CASE KillStored
  BY <1>15, Quiet DEF KillStored, Running, Admitted, InPool
<1>16. CASE KillElsewhere
  BY <1>16, Quiet DEF KillElsewhere, Running, Admitted, InPool
<1>17. CASE ResumeHere
  BY <1>17, Quiet DEF ResumeHere, Running, Admitted, InPool
<1>18. CASE ResumeStored
  BY <1>18, Quiet DEF ResumeStored, Running, Admitted, InPool
<1>19. CASE ResumeElsewhere
  BY <1>19, Quiet DEF ResumeElsewhere, Running, Admitted, InPool
<1>20. CASE Restart
  <2>1. Running' = {} /\ Admitted' = {}
    BY <1>20 DEF Restart, Running, Admitted, InPool, Ends
  <2>2. used' = 0 /\ threads' = threads
    BY <1>20 DEF Restart
  <2> QED  BY <2>1, <2>2, CallAssumption, FS_EmptySet DEF BudgetInv, TypeOK, serves
<1>21. CASE UNCHANGED vars
  BY <1>21, Quiet DEF vars, Running, Admitted, InPool
<1> QED
  BY <1>1, <1>2, <1>3, <1>4, <1>5, <1>6, <1>7, <1>8, <1>9, <1>10, <1>11, <1>12, <1>13, <1>14, <1>15, <1>16, <1>17, <1>18, <1>19, <1>20, <1>21 DEF Next, Step

(* The web server charges at most one action per thread beyond the limit,    *)
(* less one.                                                                *)
THEOREM BoundedOverrunCorrect == Spec => []BoundedOverrun
<1>1. Init => BudgetInv
  <2> SUFFICES ASSUME Init PROVE BudgetInv
    OBVIOUS
  <2>1. Running = {} /\ Admitted = {}
    BY DEF Init, Running, Admitted, InPool
  <2> QED  BY <2>1, CallAssumption, FS_EmptySet DEF Init, BudgetInv, serves
<1>2. TypeOK /\ BudgetInv /\ [Next]_vars => BudgetInv'
  BY StepBudget
<1>3. TypeOK /\ BudgetInv => BoundedOverrun
  <2>1. Admitted \in SUBSET Calls
    BY DEF Admitted
  <2>2. Cardinality(Admitted) \in Nat
    BY <2>1, Sizes
  <2> QED  BY <2>2, CallAssumption DEF BudgetInv, BoundedOverrun, TypeOK, serves
<1> QED  BY <1>1, <1>2, <1>3, TypeCorrect, PTL DEF Spec
=============================================================================
