----------------------------- MODULE MCScanRun -----------------------------
(* The scan worker on small libraries.  Files are numbers, an archive of    *)
(* four members is read in chunks of two.                                   *)
EXTENDS ScanRun

TwoRoots  == << <<1, 2>>, <<3>> >>
MixedRoot == << <<1, 2, 3, 4, 5>> >>

(* Every file but the first is a member of archive 1. *)
OneArchive == [f \in 1..5 |-> IF f = 1 THEN 0 ELSE 1]
=============================================================================
