----------------------------- MODULE ScanOutcome -----------------------------
(***************************************************************************)
(* The rules by which a scan worker and its server understand one another, *)
(* shared by the modules that look at a worker from the outside and from   *)
(* the inside.                                                             *)
(***************************************************************************)

(* The phases in which a bridge takes the worker for finished.             *)
Outcomes == {"complete", "cancelled", "error"}

(* A bridge takes any phase that is neither "error" nor "cancelled" for    *)
(* "complete" if running is false.                                         *)
Display(ended) == IF ended THEN "complete" ELSE "running"

(* The ways in which the scan may return: an exception may always end it,  *)
(* and scan-all does not ask whether its last root was cancelled.          *)
Promised(all, cancelled) ==
  IF ~cancelled THEN {"complete", "error"}
  ELSE IF all THEN Outcomes ELSE {"cancelled", "error"}

(* A job that has ended already is left as it is, except by                *)
(* complete_cancelled.                                                     *)
FinalProgress(ended, progress, out) ==
  IF ended /\ out # "cancelled" THEN progress ELSE out

(* The resume state names a folder, also within a scan of all of them.     *)
FoldersOf(root, all, roots) == IF root = all THEN roots \ {all} ELSE {root}
=============================================================================
