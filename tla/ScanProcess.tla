----------------------------- MODULE ScanProcess -----------------------------
(***************************************************************************)
(* What a scan worker promises the server that started it, without files,  *)
(* rows and roots: which phases progress.json may show and when, which root*)
(* scan_state.json may name, and how a scan may end.  One process runs at a*)
(* time.  ScanService uses the same rules for the workers it starts;       *)
(* ScanRun, which looks inside the worker, implements this module.         *)
(***************************************************************************)
EXTENDS ScanOutcome

CONSTANTS
  Roots,         \* the folders
  All, None      \* the scan of all folders, and no root

VARIABLES
  busy,          \* a process scans
  root,          \* what it was asked to scan
  cancelled,     \* it was asked to stop
  failed,        \* one root of all has failed the job of all of them
  progress,      \* the phase that progress.json shows
  saved          \* the root that scan_state.json offers to resume

vars == <<busy, root, cancelled, failed, progress, saved>>

Init ==
  /\ ~busy /\ ~cancelled /\ ~failed
  /\ root \in Roots \cup {All} /\ saved = None
  /\ progress \in Outcomes

(* Whoever starts a scan afresh has cleared the saved state.               *)
Start ==
  /\ ~busy /\ busy' = TRUE /\ root' \in Roots \cup {All}
  /\ cancelled' = FALSE /\ failed' = FALSE
  /\ progress' = "running" /\ saved' \in {saved, None}

(* Progress is reported, and the state saved or cleared.                   *)
Work ==
  /\ busy /\ progress' \in {progress, Display(failed)}
  /\ saved' \in {saved, None} \cup FoldersOf(root, All, Roots)
  /\ UNCHANGED <<busy, root, cancelled, failed>>

RootFails ==
  /\ busy /\ root = All /\ failed' = TRUE /\ progress' = "error"
  /\ UNCHANGED <<busy, root, cancelled, saved>>

End ==
  /\ busy /\ busy' = FALSE /\ failed' = FALSE
  /\ \E out \in Promised(root = All, cancelled) :
       progress' = FinalProgress(failed, progress, out)
  /\ saved' \in {saved, None}
  /\ UNCHANGED <<root, cancelled>>

(* A process that is killed leaves both files as they are.                 *)
Die ==
  /\ busy /\ busy' = FALSE /\ failed' = FALSE
  /\ UNCHANGED <<root, cancelled, progress, saved>>

Cancel ==
  /\ cancelled' = TRUE
  /\ UNCHANGED <<busy, root, failed, progress, saved>>

Next == Start \/ Work \/ RootFails \/ End \/ Die \/ Cancel

Spec == Init /\ [][Next]_vars
=============================================================================
