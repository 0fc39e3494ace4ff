----------------------------- MODULE OneDecision -----------------------------
(***************************************************************************)
(* What an approval gate promises, without locks, lists and events: for    *)
(* every request at most one answer is accepted, and the request returns   *)
(* once.  It returns the accepted answer; only a request whose time is up  *)
(* may return a timeout instead.                                           *)
(***************************************************************************)
CONSTANTS Requests, Answers, Timeout, None

VARIABLES answer,     \* the answer whose giver was told that it counts
          expired,    \* requests whose time is up
          outcome     \* what the asker was told

vars == <<answer, expired, outcome>>

Init ==
  /\ answer = [r \in Requests |-> None]
  /\ outcome = [r \in Requests |-> None]
  /\ expired = {}

Accept(r, a) ==
  /\ answer[r] = None /\ outcome[r] = None
  /\ answer' = [answer EXCEPT ![r] = a]
  /\ UNCHANGED <<expired, outcome>>

Expire(r) ==
  /\ expired' = expired \cup {r}
  /\ UNCHANGED <<answer, outcome>>

Return(r) ==
  /\ outcome[r] = None
  /\ \/ answer[r] # None /\ outcome' = [outcome EXCEPT ![r] = answer[r]]
     \/ r \in expired /\ outcome' = [outcome EXCEPT ![r] = Timeout]
  /\ UNCHANGED <<answer, expired>>

Next ==
  \E r \in Requests : Expire(r) \/ Return(r) \/ \E a \in Answers : Accept(r, a)

Spec == Init /\ [][Next]_vars
=============================================================================
