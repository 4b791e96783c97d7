----------------------------- MODULE MCProcess -----------------------------
(* A small system of processes for TLC.                                    *)
EXTENDS SignalFd, TLC

Does(n, kinds) == [here |-> TRUE, mask |-> {}, calls |-> n, kinds |-> kinds,
                   sends |-> {"KILL", "USR"}]
Later(n, kinds) == [Does(n, kinds) EXCEPT !.here = FALSE]
Sends(n, kinds) == [Does(n, kinds) EXCEPT !.sends = {"USR"}]
Masked(n, kinds) == [Sends(n, kinds) EXCEPT !.mask = {"USR"}]

CONSTANTS t1, t2, t3, p1, p2

\* A thread that waits for signals, and one that sends n of them.
Signalling(calls, n, send) ==
    t1 :> Does(2, calls) @@ t2 :> Does(n, send) @@ t3 :> Later(0, {})

MCWorkload ==
    { Signalling({"sigaction", "suspend"}, 1, {"tkill"}),
      \* a second signal, during the first one's handler perhaps
      t1 :> Does(2, {"sigaction", "suspend"}) @@ t2 :> Sends(2, {"tkill"}) @@ t3 :> Later(0, {}),
      Signalling({"sigmask", "timedwait"}, 1, {"kill", "tkill"}),
      Signalling({"sigmask", "ppoll"}, 1, {"tkill"}),
      Signalling({"sigmask", "fault"}, 1, {"kill"}),
      \* exit_group against clone and exit
      t1 :> Does(1, {"exit_group"}) @@ t2 :> Does(2, {"clone", "exit"}) @@ t3 :> Later(0, {}),
      t1 :> Does(1, {"exit_group"}) @@ t2 :> Does(1, {"clone", "execve"}) @@ t3 :> Later(1, {"exit"}),
      \* two threads wait for a child that exits
      t1 :> Does(2, {"fork", "wait"}) @@ t2 :> Does(1, {"wait"}) @@ t3 :> Later(1, {"exit"}),
      \* waitpid, with a handler perhaps, and a child that may send a signal first
      t1 :> Does(3, {"fork", "wait", "sigaction"}) @@ t2 :> Later(1, {"exit", "execve", "kill"})
        @@ t3 :> Later(0, {}),
      \* a signal through a pidfd, to a child that may be gone
      t1 :> Does(2, {"fork", "pidfd"}) @@ t2 :> Later(1, {"exit"}) @@ t3 :> Later(0, {}),
      \* two readers of a signalfd, and one whose mask changes
      t1 :> Masked(2, {"signalfd", "sfdread"}) @@ t2 :> Masked(3, {"kill", "tkill", "sfdread"})
        @@ t3 :> Later(0, {}),
      t1 :> Masked(2, {"signalfd", "sfdread"}) @@ t2 :> Masked(2, {"signalfd", "tkill"})
        @@ t3 :> Later(0, {}) }
=============================================================================
