------------------------------ MODULE ScanQueue ------------------------------
(***************************************************************************)
(* core/scan_core/scan_queue.py: the queue of scan requests that waits     *)
(* while a scan is running.  The list lives in the server's memory, every  *)
(* operation rewrites the JSON file under the lock, and a new server loads *)
(* the file.  The file is replaced atomically, so an operation has either  *)
(* saved or raised OSError; in the second case the change made to the list *)
(* in memory is NOT undone, and the caller sees the exception.             *)
(***************************************************************************)
EXTENDS Naturals, Sequences, FiniteSets, SequencesExt

CONSTANTS Roots,         \* folders that can be queued; "__all__" is one of them
          MaxQueue,      \* MAX_QUEUE_SIZE
          MaxRequests,   \* bound on the number of requests of a behaviour
          MaxFailures    \* bound on the saves that raise (disk full, permissions)

ASSUME QueueAssumption ==
  /\ MaxQueue \in Nat
  /\ MaxRequests \in Nat
  /\ MaxFailures \in Nat

VARIABLES up,            \* the server runs
          items,         \* ScanQueue._items, a sequence of [id, root]
          file,          \* what data/scan_queue.json holds
          nextId,        \* queue_id's issued so far (uuid4 in the code)
          failures,      \* history: saves that raised
          accepted,      \* history: ids whose enqueue returned
          handed,        \* history: ids returned by pop_next, in order
          withdrawn      \* history: ids whose remove or clear returned

vars == <<up, items, file, nextId, failures, accepted, handed, withdrawn>>

Item == [id : Nat, root : Roots]
Ids(s) == {s[i].id : i \in DOMAIN s}
RootsOf(s) == {s[i].root : i \in DOMAIN s}

Init ==
  /\ up = TRUE /\ items = <<>> /\ file = <<>> /\ nextId = 0 /\ failures = 0
  /\ accepted = {} /\ handed = <<>> /\ withdrawn = {}

(* Wrong variants of the definitions below, for the mutation checks.       *)
AdmitDuplicate(root) == Len(items) < MaxQueue
LoadEmpty == <<>>
LoadIds == [i \in DOMAIN file |-> [file[i] EXCEPT !.root = file[i].id]]
PopUnsaved ==
  /\ up /\ items # <<>>
  /\ items' = Tail(items) /\ handed' = Append(handed, Head(items).id)
  /\ UNCHANGED <<up, file, nextId, failures, accepted, withdrawn>>

(* _save writes the list just computed, or raises and leaves the file.     *)
SaveOk   == file' = items' /\ UNCHANGED failures
SaveFail == failures < MaxFailures /\ failures' = failures + 1 /\ UNCHANGED file

(* enqueue refuses a root that is queued already and a full queue.         *)
Admit(root) == root \notin RootsOf(items) /\ Len(items) < MaxQueue

Enqueue(root) ==
  /\ up /\ nextId < MaxRequests
  /\ Admit(root)
  /\ nextId' = nextId + 1
  /\ items' = Append(items, [id |-> nextId + 1, root |-> root])
  /\ \/ SaveOk /\ accepted' = accepted \cup {nextId + 1}
     \/ SaveFail /\ UNCHANGED accepted
  /\ UNCHANGED <<up, handed, withdrawn>>

PopNext ==
  /\ up /\ items # <<>>
  /\ items' = Tail(items)
  /\ \/ SaveOk /\ handed' = Append(handed, Head(items).id)
     \/ SaveFail /\ UNCHANGED handed
  /\ UNCHANGED <<up, nextId, accepted, withdrawn>>

(* remove drops the one item that has this queue_id. *)
RemoveItem(i) ==
  /\ up /\ i \in DOMAIN items
  /\ items' = RemoveAt(items, i)
  /\ \/ SaveOk /\ withdrawn' = withdrawn \cup {items[i].id}
     \/ SaveFail /\ UNCHANGED withdrawn
  /\ UNCHANGED <<up, nextId, accepted, handed>>

Clear ==
  /\ up /\ items # <<>>
  /\ items' = <<>>
  /\ \/ SaveOk /\ withdrawn' = withdrawn \cup Ids(items)
     \/ SaveFail /\ UNCHANGED withdrawn
  /\ UNCHANGED <<up, nextId, accepted, handed>>

(* The server stops or crashes: the list in memory is gone. *)
Stop ==
  /\ up /\ up' = FALSE /\ items' = <<>>
  /\ UNCHANGED <<file, nextId, failures, accepted, handed, withdrawn>>

(* __init__ of the singleton, when the next server imports the module. *)
Loaded == file

Load ==
  /\ ~up /\ up' = TRUE /\ items' = Loaded
  /\ UNCHANGED <<file, nextId, failures, accepted, handed, withdrawn>>

Next ==
  \/ \E root \in Roots : Enqueue(root)
  \/ \E i \in DOMAIN items : RemoveItem(i)
  \/ PopNext \/ Clear \/ Stop \/ Load

Spec == Init /\ [][Next]_vars
-----------------------------------------------------------------------------
TypeOK ==
  /\ up \in BOOLEAN
  /\ items \in Seq(Item) /\ file \in Seq(Item)
  /\ nextId \in Nat /\ failures \in Nat
  /\ accepted \subseteq Nat /\ handed \in Seq(Nat) /\ withdrawn \subseteq Nat

(* No folder waits twice and the queue never exceeds its size, in memory   *)
(* and in the file a later server will load, whatever saves failed.        *)
NoDuplicateWait ==
  \A s \in {items, file} :
    /\ Len(s) <= MaxQueue
    /\ \A i, j \in DOMAIN s : i # j => s[i].root # s[j].root

(* An item that pop_next or a removal has returned never comes back, not   *)
(* even from the file after a restart that follows failed saves.           *)
Settled == ToSet(handed) \cup withdrawn
NoResurrection ==
  /\ Settled \cap (Ids(items) \cup Ids(file)) = {}
  /\ \A i, j \in DOMAIN handed : i # j => handed[i] # handed[j]

(* "Queue contents are preserved across server restarts" (the docstring,    *)
(* line 4), as long as every save succeeds: what was accepted is waiting,   *)
(* handed out or withdrawn, also while the server is down.                  *)
Preserved ==
  failures = 0 => accepted \subseteq Settled \cup Ids(IF up THEN items ELSE file)

(* The queue implements the promise of DurableQueue: while the server is    *)
(* down its content is the file.                                            *)
IdSeq(s) == [i \in DOMAIN s |-> s[i].id]
Durable == INSTANCE DurableQueue WITH
             pending <- IdSeq(IF up THEN items ELSE file),
             intact <- failures = 0
IsDurable == Durable!Spec
=============================================================================
