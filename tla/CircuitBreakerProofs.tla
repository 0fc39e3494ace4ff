------------------------- MODULE CircuitBreakerProofs -------------------------
(***************************************************************************)
(* The safety properties of the circuit breaker, for any threads, limits    *)
(* and restarts.                                                            *)
(***************************************************************************)
EXTENDS CircuitBreaker, TLAPS

(* The latest write carries the state, and so does the row once it is done. *)
RowInv ==
  /\ latest # None /\ todo[latest] # None => todo[latest] = state
  /\ (latest = None \/ todo[latest] = None) /\ ~lagging => row = state

LEMMA InitInv == Init => TypeOK /\ ErrorsNoticed /\ RowInv
<1> SUFFICES ASSUME Init PROVE TypeOK /\ ErrorsNoticed /\ RowInv
  OBVIOUS
<1>1. 0 \in 0..TrialLimit /\ 0 \in 0..MaxErrors /\ 0 \in 0..MaxRestarts /\ 0 < MaxErrors
  BY BreakerAssumption
<1>2. TypeOK
  BY <1>1 DEF Init, TypeOK, States
<1> QED  BY <1>1, <1>2 DEF Init, ErrorsNoticed, RowInv

(* Every step keeps the types; the counters stop at what they are compared  *)
(* with.                                                                    *)
LEMMA StepTypes ==
  ASSUME TypeOK, [Next]_vars
  PROVE  TypeOK'
<1>0. 0 \in 0..TrialLimit /\ 0 \in 0..MaxErrors
  BY BreakerAssumption
<1> USE BreakerAssumption DEF TypeOK, States, Kinds, Actors, breaker, writes, Note, Goto,
        Tripped, Cleared
<1>1. ASSUME NEW c \in Calls, NEW k \in Kinds, CheckClosed(c, k) PROVE TypeOK'
  BY <1>1 DEF CheckClosed
<1>2. ASSUME NEW c \in Calls, NEW k \in Kinds, CheckHalfOpen(c, k) PROVE TypeOK'
  BY <1>2 DEF CheckHalfOpen, Counted
<1>3. ASSUME NEW c \in Calls, NEW k \in Kinds, CheckOpen(c, k) PROVE TypeOK'
  BY <1>3 DEF CheckOpen, FirstTrial
<1>4. ASSUME NEW c \in Calls, Drop(c) PROVE TypeOK'
  BY <1>4 DEF Drop
<1>5. ASSUME NEW c \in Calls, Succeed(c) PROVE TypeOK'
  <2>1. state' \in States /\ cooled' \in BOOLEAN
    BY <1>5 DEF Succeed
  <2>2. todo' \in [Actors -> States \cup {None}] /\ latest' \in Actors \cup {None}
    BY <1>5 DEF Succeed
  <2> QED  BY <1>0, <1>5, <2>1, <2>2 DEF Succeed
<1>6. ASSUME NEW c \in Calls, Fail(c) PROVE TypeOK'
  <2>1. OneMore \in 0..MaxErrors
    BY DEF OneMore
  <2>2. state' \in States /\ cooled' \in BOOLEAN
    BY <1>6 DEF Fail
  <2>3. todo' \in [Actors -> States \cup {None}] /\ latest' \in Actors \cup {None}
    BY <1>6 DEF Fail
  <2> QED  BY <1>6, <2>1, <2>2, <2>3 DEF Fail
<1>7. ASSUME NEW c \in Calls, Escalate(c) PROVE TypeOK'
  BY <1>7 DEF Escalate
<1>8. ASSUME NEW c \in Calls, Leave(c) PROVE TypeOK'
  BY <1>8 DEF Leave
<1>9. ASSUME NEW a \in Actors, Store(a) PROVE TypeOK'
  BY <1>9 DEF Store
<1>10. CASE Reset
  <2>1. todo' \in [Actors -> States \cup {None}] /\ latest' \in Actors \cup {None}
    BY <1>10 DEF Reset
  <2> QED  BY <1>0, <1>10, <2>1 DEF Reset
<1>11. CASE Cool
  BY <1>11 DEF Cool
<1>12. CASE Restart
  <2>1. restarts' \in 0..MaxRestarts
    BY <1>12 DEF Restart
  <2> QED  BY <1>0, <1>12, <2>1 DEF Restart
<1>13. CASE UNCHANGED vars
  BY <1>13 DEF vars
<1> QED
  BY <1>1, <1>2, <1>3, <1>4, <1>5, <1>6, <1>7, <1>8, <1>9, <1>10, <1>11, <1>12, <1>13 DEF Next, Proceed, Check

(* The variables keep their types.                                          *)
THEOREM TypeCorrect == Spec => []TypeOK
<1>1. TypeOK /\ [Next]_vars => TypeOK'
  BY StepTypes
<1> QED  BY <1>1, InitInv, PTL DEF Spec

-----------------------------------------------------------------------------
(* Every step that closes has cleared the errors, and an error that reaches  *)
(* the limit opens.                                                         *)
LEMMA StepErrors ==
  ASSUME TypeOK, ErrorsNoticed, [Next]_vars
  PROVE  ErrorsNoticed'
<1> USE BreakerAssumption DEF TypeOK, ErrorsNoticed, breaker, Tripped, Cleared
<1>1. ASSUME NEW c \in Calls, NEW k \in Kinds, CheckClosed(c, k) PROVE ErrorsNoticed'
  BY <1>1 DEF CheckClosed
<1>2. ASSUME NEW c \in Calls, NEW k \in Kinds, CheckHalfOpen(c, k) PROVE ErrorsNoticed'
  BY <1>2 DEF CheckHalfOpen
<1>3. ASSUME NEW c \in Calls, NEW k \in Kinds, CheckOpen(c, k) PROVE ErrorsNoticed'
  BY <1>3 DEF CheckOpen
<1>4. ASSUME NEW c \in Calls, Drop(c) PROVE ErrorsNoticed'
  BY <1>4 DEF Drop
<1>5. ASSUME NEW c \in Calls, Succeed(c) PROVE ErrorsNoticed'
  BY <1>5 DEF Succeed
<1>6. ASSUME NEW c \in Calls, Fail(c) PROVE ErrorsNoticed'
  BY <1>6 DEF Fail, OneMore
<1>7. ASSUME NEW c \in Calls, Escalate(c) PROVE ErrorsNoticed'
  BY <1>7 DEF Escalate
<1>8. ASSUME NEW c \in Calls, Leave(c) PROVE ErrorsNoticed'
  BY <1>8 DEF Leave
<1>9. ASSUME NEW a \in Actors, Store(a) PROVE ErrorsNoticed'
  BY <1>9 DEF Store
<1>10. CASE Reset
  BY <1>10 DEF Reset
<1>11. CASE Cool
  BY <1>11 DEF Cool
<1>12. CASE Restart
  BY <1>12 DEF Restart
<1>13. CASE UNCHANGED vars
  BY <1>13 DEF vars
<1> QED
  BY <1>1, <1>2, <1>3, <1>4, <1>5, <1>6, <1>7, <1>8, <1>9, <1>10, <1>11, <1>12, <1>13 DEF Next, Proceed, Check

(* A closed breaker never has as many consecutive errors as would open it.  *)
THEOREM ErrorsNoticedCorrect == Spec => []ErrorsNoticed
<1>1. TypeOK /\ ErrorsNoticed /\ [Next]_vars => ErrorsNoticed'
  BY StepErrors
<1> QED  BY <1>1, InitInv, TypeCorrect, PTL DEF Spec

-----------------------------------------------------------------------------
(* A step that notes a row notes the new state; any other leaves the state.  *)
LEMMA Noted ==
  ASSUME TypeOK, NEW a \in Actors, NEW s \in States,
         Note(a, s), state' = s
  PROVE  RowInv'
<1>1. latest' = a /\ todo'[a] = s /\ s # None
  BY BreakerAssumption DEF Note, TypeOK, States
<1> QED  BY <1>1, BreakerAssumption DEF RowInv, Actors

LEMMA StepRow ==
  ASSUME TypeOK, RowInv, [Next]_vars
  PROVE  RowInv'
<1> USE BreakerAssumption DEF breaker, writes
<1>1. ASSUME NEW c \in Calls, NEW k \in Kinds, CheckClosed(c, k) PROVE RowInv'
  BY <1>1 DEF CheckClosed, RowInv
<1>2. ASSUME NEW c \in Calls, NEW k \in Kinds, CheckHalfOpen(c, k) PROVE RowInv'
  BY <1>2 DEF CheckHalfOpen, RowInv
<1>3. ASSUME NEW c \in Calls, NEW k \in Kinds, CheckOpen(c, k) PROVE RowInv'
  BY <1>3, Noted DEF CheckOpen, Actors, States
<1>4. ASSUME NEW c \in Calls, Drop(c) PROVE RowInv'
  BY <1>4 DEF Drop, RowInv
<1>5. ASSUME NEW c \in Calls, Succeed(c) PROVE RowInv'
  <2>1. CASE state' = "closed" /\ Note(c, "closed")
    BY <2>1, Noted DEF Actors, States
  <2>2. CASE state' = "open" /\ Note(c, "open")
    BY <2>2, Noted DEF Actors, States
  <2>3. CASE UNCHANGED <<state, writes>>
    BY <1>5, <2>3 DEF Succeed, RowInv
  <2> QED  BY <1>5, <2>1, <2>2, <2>3 DEF Succeed, Tripped
<1>6. ASSUME NEW c \in Calls, Fail(c) PROVE RowInv'
  <2>1. CASE state' = "open" /\ Note(c, "open")
    BY <2>1, Noted DEF Actors, States
  <2>2. CASE UNCHANGED <<state, writes>>
    BY <1>6, <2>2 DEF Fail, RowInv
  <2> QED  BY <1>6, <2>1, <2>2 DEF Fail, Tripped
<1>7. ASSUME NEW c \in Calls, Escalate(c) PROVE RowInv'
  BY <1>7, Noted DEF Escalate, Tripped, Actors, States
<1>8. ASSUME NEW c \in Calls, Leave(c) PROVE RowInv'
  BY <1>8 DEF Leave, RowInv
<1>9. ASSUME NEW a \in Actors, Store(a) PROVE RowInv'
  <2>1. CASE a = latest
    <3>1. a # None /\ todo[a] = state /\ todo'[a] = None
      BY <1>9, <2>1 DEF Store, RowInv, TypeOK, Actors
    <3>2. lagging' \/ row' = state
      BY <1>9, <2>1, <3>1 DEF Store
    <3> QED  BY <1>9, <2>1, <3>1, <3>2 DEF Store, RowInv
  <2>2. CASE a # latest
    BY <1>9, <2>2 DEF Store, RowInv, TypeOK
  <2> QED  BY <2>1, <2>2
<1>10. CASE Reset
  <2>1. CASE state # "closed"
    BY <1>10, <2>1, Noted DEF Reset, Actors, States
  <2>2. CASE state = "closed"
    BY <1>10, <2>2 DEF Reset, RowInv
  <2> QED  BY <2>1, <2>2
<1>11. CASE Cool
  BY <1>11 DEF Cool, RowInv
<1>12. CASE Restart
  BY <1>12 DEF Restart, RowInv
<1>13. CASE UNCHANGED vars
  BY <1>13 DEF vars, RowInv
<1> QED
  BY <1>1, <1>2, <1>3, <1>4, <1>5, <1>6, <1>7, <1>8, <1>9, <1>10, <1>11, <1>12, <1>13 DEF Next, Proceed, Check

(* The row shows the state when the latest write is done and no other write *)
(* was done after it.                                                       *)
THEOREM RowAgreesCorrect == Spec => []RowAgrees
<1>1. TypeOK /\ RowInv /\ [Next]_vars => RowInv'
  BY StepRow
<1>2. TypeOK /\ RowInv => RowAgrees
  BY DEF TypeOK, RowInv, RowAgrees
<1> QED  BY <1>1, <1>2, InitInv, TypeCorrect, PTL DEF Spec

-----------------------------------------------------------------------------
LEMMA StepDrain ==
  ASSUME TypeOK, [Next]_vars, state # "closed", state' # "closed"
  PROVE  Writing' \subseteq Writing
<1> USE DEF TypeOK, Writing, breaker, Goto, Kinds
<1>1. ASSUME NEW c \in Calls, NEW k \in Kinds, CheckClosed(c, k) PROVE Writing' \subseteq Writing
  BY <1>1 DEF CheckClosed
<1>2. ASSUME NEW c \in Calls, NEW k \in Kinds, CheckHalfOpen(c, k) PROVE Writing' \subseteq Writing
  BY <1>2 DEF CheckHalfOpen, MayProbe
<1>3. ASSUME NEW c \in Calls, NEW k \in Kinds, CheckOpen(c, k) PROVE Writing' \subseteq Writing
  BY <1>3 DEF CheckOpen, MayProbe
<1>4. ASSUME NEW c \in Calls, Drop(c) PROVE Writing' \subseteq Writing
  BY <1>4 DEF Drop, Running
<1>5. ASSUME NEW c \in Calls, Succeed(c) PROVE Writing' \subseteq Writing
  BY <1>5 DEF Succeed, Running
<1>6. ASSUME NEW c \in Calls, Fail(c) PROVE Writing' \subseteq Writing
  BY <1>6 DEF Fail, Running
<1>7. ASSUME NEW c \in Calls, Escalate(c) PROVE Writing' \subseteq Writing
  BY <1>7 DEF Escalate
<1>8. ASSUME NEW c \in Calls, Leave(c) PROVE Writing' \subseteq Writing
  BY <1>8 DEF Leave
<1>9. ASSUME NEW a \in Actors, Store(a) PROVE Writing' \subseteq Writing
  BY <1>9 DEF Store
<1>10. CASE Reset
  BY <1>10 DEF Reset
<1>11. CASE Cool
  BY <1>11 DEF Cool
<1>12. CASE Restart
  BY <1>12 DEF Restart
<1>13. CASE UNCHANGED vars
  BY <1>13 DEF vars
<1> QED
  BY <1>1, <1>2, <1>3, <1>4, <1>5, <1>6, <1>7, <1>8, <1>9, <1>10, <1>11, <1>12, <1>13 DEF Next, Proceed, Check

(* No call that writes is let through from the trip to the close.           *)
THEOREM WritesDrainCorrect == Spec => WritesDrain
<1>1. TypeOK /\ [Next]_vars =>
        [state # "closed" /\ state' # "closed" => Writing' \subseteq Writing]_vars
  BY StepDrain
<1> QED  BY <1>1, TypeCorrect, PTL DEF Spec, WritesDrain
=============================================================================
