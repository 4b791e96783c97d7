------------------------------ MODULE MCIoMpx ------------------------------
(* IoMpx for TLC.                                                          *)
EXTENDS IoMpx, TLC

CONSTANTS u1, u2, w1, c1, p1

MCTask == {u1, u2, w1, c1, p1}

Calls(u, v, w, c, p) ==
    [t \in MCTask |-> CASE t = u1 -> u [] t = u2 -> v [] t = w1 -> w [] t = c1 -> c [] t = p1 -> p]

\* Two tasks at an eventfd; two and a poller; one that calls once or twice, an
\* epoll_wait and one or two epoll_ctl; one, an epoll_ctl and a poller.
MCWorkload ==
    {Calls(2, 2, 0, 0, 0), Calls(1, 1, 0, 0, 1), Calls(1, 0, 1, 2, 0),
     Calls(2, 0, 1, 1, 0), Calls(1, 0, 0, 1, 1)}

MCMask == {{"IN"}}
MCSymmetry == Permutations(Entry)
=============================================================================
