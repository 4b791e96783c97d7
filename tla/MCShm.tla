------------------------------- MODULE MCShm -------------------------------
(* Shm for TLC: t1 and t2 are threads of p1, t3 is the thread of p2.       *)
EXTENDS Shm, TLC

CONSTANTS p1, p2, t1, t2, t3

Procs == (t1 :> p1) @@ (t2 :> p1) @@ (t3 :> p2)
ShmSymmetry == Permutations({t1, t2})
=============================================================================
