----------------------------- MODULE MCNpuLock -----------------------------
(* Two users of the NPU in two processes: the server and the inference      *)
(* worker.                                                                  *)
EXTENDS NpuLock

CONSTANTS u1, u2, p1, p2

TwoUsers == {u1, u2}
TwoProcs == {p1, p2}
Homes == [u \in TwoUsers |-> IF u = u1 THEN p1 ELSE p2]
=============================================================================
