------------------------------- MODULE MCFutex -------------------------------
(* Futex for TLC: threads and entries are model values.                    *)
EXTENDS Futex, TLC

CONSTANTS a1, a2

FutexSymmetry == Permutations(Thread) \cup Permutations(Entry)

\* Three threads wait on and wake one word; or one thread waits on two words,
\* one of them a clear_child_tid, and one wakes and requeues.
MCWorkload ==
    {[sleepers |-> Thread, wakers |-> Thread, words |-> {a1}, vals |-> {0, 1},
      wakes |-> {1}, moves |-> {}, waiters |-> 2]}
      \cup {[sleepers |-> {t}, wakers |-> {u}, words |-> {a1, a2}, vals |-> {0},
              wakes |-> {0, 1}, moves |-> {1}, waiters |-> 1] :
                t \in Thread, u \in Thread}
=============================================================================
