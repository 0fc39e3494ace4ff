---------------------------- MODULE DurableQueue ----------------------------
(***************************************************************************)
(* What the scan queue promises.  While it is intact, accepted requests    *)
(* are kept in order, each is handed out once, from the front, and nothing *)
(* but an explicit withdrawal removes one.  Once a save has failed it may  *)
(* lose requests and bring back old ones, but still hands out none twice   *)
(* and keeps none that was handed out or withdrawn.  There is no notion of *)
(* a process here, so a restart of the server has to be a stuttering step. *)
(***************************************************************************)
EXTENDS Naturals, Sequences, FiniteSets, SequencesExt

CONSTANT MaxQueue        \* most requests kept at any time

VARIABLES pending,       \* ids of the accepted requests, oldest first
          handed,        \* ids handed out so far, in order
          withdrawn,     \* ids the user took back
          intact         \* no save has failed so far

vars == <<pending, handed, withdrawn, intact>>

Settled == ToSet(handed) \cup withdrawn

Init == pending = <<>> /\ handed = <<>> /\ withdrawn = {} /\ intact = TRUE

(* A request is accepted under an id that was never used. *)
Accept ==
  /\ Len(pending) < MaxQueue
  /\ \E id \in ToSet(pending') \ (ToSet(pending) \cup Settled) :
       pending' = Append(pending, id)
  /\ UNCHANGED <<handed, withdrawn>>

(* The oldest request is handed to whoever runs the scans. *)
HandOut ==
  /\ pending # <<>>
  /\ pending' = Tail(pending)
  /\ handed' = Append(handed, Head(pending))
  /\ UNCHANGED withdrawn

(* The user withdraws some requests, the others keep their order. *)
Withdraw ==
  /\ \/ \E i \in DOMAIN pending :
          /\ pending' = RemoveAt(pending, i)
          /\ withdrawn' = withdrawn \cup {pending[i]}
     \/ /\ pending' = <<>>
        /\ withdrawn' = withdrawn \cup ToSet(pending)
  /\ UNCHANGED handed

(* What is left of the promise when a save has failed. *)
Degraded ==
  /\ Len(pending') <= MaxQueue
  /\ \/ UNCHANGED handed
     \/ \E id \in ToSet(handed') \ Settled : handed' = Append(handed, id)
  /\ withdrawn \subseteq withdrawn'
  /\ ToSet(pending') \cap Settled' = {}

Next ==
  \/ intact /\ intact' /\ (Accept \/ HandOut \/ Withdraw)
  \/ ~intact' /\ Degraded

Spec == Init /\ [][Next]_vars
=============================================================================
