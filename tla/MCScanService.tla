--------------------------- MODULE MCScanService ---------------------------
(* The scan service on small instances: t1, t2, t3 are threads of the       *)
(* server, w1, w2 the processes it starts.  Threads are interchangeable,    *)
(* and so are processes.                                                    *)
EXTENDS ScanService, TLC

Symmetry == Permutations(Threads) \cup Permutations(Workers)
=============================================================================
