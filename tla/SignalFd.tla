----------------------------- MODULE SignalFd ------------------------------
(***************************************************************************)
(* Signals through descriptors, over Process: a signalfd                   *)
(* (api/src/file/signalfd.rs, syscall/fs/signalfd.rs) that the threads     *)
(* read, and the signals sent through a pidfd (api/src/file/pidfd.rs,      *)
(* syscall/fs/pidfd.rs).                                                   *)
(*                                                                         *)
(* Nobody who sends a signal wakes the readers: they hear of one that is   *)
(* not blocked by the interrupt, and of others only from each other and    *)
(* from a new mask.                                                        *)
(***************************************************************************)
EXTENDS Process

VARIABLES
    sfd_mask,   \* the mask of the signalfd, or None before it is made
    poll_rx,    \* the threads with a waker in its PollSet
    late        \* history: the signals that came since a sleeping reader looked, and
                \* that no other reader of its process has left in the queue since

sfdVars == <<sfd_mask, poll_rx>>
svars == <<vars, sfdVars, late>>

SfdInit ==
    /\ Init
    /\ sfd_mask = None
    /\ poll_rx = {}
    /\ late = [t \in Thread |-> {}]

\* What a read by t would find: Signalfd::has_pending_signals.
HasPending(t) == (pending[t] \cup shared[process[t]]) \cap sfd_mask

\* A step of a reader that leaves the signals and the processes alone.
SfdStep == UNCHANGED <<threadVars, ret, procVars, waits, child_exit, announced, seen, todo, targets,
                       blocked, actions, interrupted, block_next, maskVars, missed>>

\* poll_rx.wake()
WakeReaders == woken' = woken \cup poll_rx /\ poll_rx' = {}

\* sys_signalfd4: a new signalfd, or a new mask for it, and then the readers are woken.
Signalfd4(t, m) ==
    /\ pc[t] = "user"
    /\ sfd_mask' = m
    /\ Goto(t, "sfdUpdated")
    /\ SfdStep /\ UNCHANGED <<pending, shared, woken, poll_rx>>

UpdateMask(t) ==
    /\ pc[t] = "sfdUpdated"
    /\ WakeReaders
    /\ Goto(t, "post")
    /\ SfdStep /\ UNCHANGED <<pending, shared, sfd_mask>>

SfdRead(t) ==
    /\ pc[t] = "user"
    /\ sfd_mask # None
    /\ Goto(t, "sfdRead")
    /\ SfdStep /\ UNCHANGED <<pending, shared, woken, sfdVars>>

\* dequeue_signal; without one, a signalfd with O_NONBLOCK says so and another has the
\* waker left, and a second look.
SfdDequeue(t) ==
    /\ pc[t] \in {"sfdRead", "sfdAgain"}
    /\ IF HasPending(t) = {}
       THEN /\ \/ Goto(t, IF pc[t] = "sfdRead" THEN "sfdRegister" ELSE "sfdAsleep")
               \/ pc[t] = "sfdRead" /\ Goto(t, "post")
            /\ UNCHANGED <<pending, shared>>
       ELSE /\ \E s \in HasPending(t) :
                IF s \in pending[t]
                THEN pending' = [pending EXCEPT ![t] = @ \ {s}] /\ UNCHANGED shared
                ELSE shared' = [shared EXCEPT ![process[t]] = @ \ {s}] /\ UNCHANGED pending
            /\ Goto(t, "sfdMore")
    /\ SfdStep /\ UNCHANGED <<woken, sfdVars>>

\* Mutant: a reader keeps what is left to itself.
SfdMoreQuietly(t) ==
    /\ pc[t] = "sfdMore"
    /\ Goto(t, "post")
    /\ SfdStep /\ UNCHANGED <<pending, shared, woken, sfdVars>>

\* The other readers are woken if there are more; the call returns.
SfdMore(t) ==
    /\ pc[t] = "sfdMore"
    /\ IF HasPending(t) # {} THEN WakeReaders ELSE UNCHANGED <<woken, poll_rx>>
    /\ Goto(t, "post")
    /\ SfdStep /\ UNCHANGED <<pending, shared, sfd_mask>>

SfdRegister(t) ==
    /\ pc[t] = "sfdRegister"
    /\ poll_rx' = poll_rx \cup {t}
    /\ Goto(t, "sfdAgain")
    /\ SfdStep /\ UNCHANGED <<pending, shared, woken, sfd_mask>>

\* The future is polled again: for the waker, or to see the interrupt.
SfdResume(t) ==
    /\ pc[t] = "sfdAsleep"
    /\ \/ t \in woken /\ woken' = woken \ {t} /\ Goto(t, "sfdRead") /\ UNCHANGED poll_rx
       \/ t \in interrupted /\ poll_rx' = poll_rx \ {t} /\ Goto(t, "post") /\ UNCHANGED woken
    /\ SfdStep /\ UNCHANGED <<pending, shared, sfd_mask>>

\* PidFd::process_data: the Weak reference of a pidfd leads to the process while it has
\* a thread.
ProcessData(p) == \E u \in Living : process[u] = p

\* sys_pidfd_send_signal: the process is looked up, then the signal sent by its pid.
PidfdSendSignal(t, p, s) ==
    IF ProcessData(p) THEN Kill(t, p, s)
    ELSE /\ pc[t] = "user"
         /\ Goto(t, "post")
         /\ UNCHANGED <<ret, threadVars, sigVars, block_next, maskVars, missed>>

-----------------------------------------------------------------------------
\* What came while a reader slept; a reader of the same process that is done with the
\* queue has told the others.
Late ==
    late' = [t \in Thread |->
        IF {pc[t], pc'[t]} # {"sfdAsleep"} THEN {}
        ELSE ((late[t] \ IF \E u \in Thread : pc[u] = "sfdMore" /\ pc'[u] = "post" /\ process[u] = process[t]
                         THEN shared[process[t]] ELSE {})
                 \cup ((pending'[t] \cup shared'[process[t]]) \ (pending[t] \cup shared[process[t]])))
              \cap (pending'[t] \cup shared'[process[t]])]

SfdCall(t) ==
    \/ \E m \in SUBSET {"USR"} : May(t, "signalfd") /\ Signalfd4(t, m)
    \/ May(t, "sfdread") /\ SfdRead(t)
    \/ \E p \in Proc, s \in load[t].sends :
        /\ state[p] # "none" /\ May(t, "pidfd")
        /\ PidfdSendSignal(t, p, s) /\ UNCHANGEDProc /\ UNCHANGED sfdVars

SfdKernel(t) ==
    /\ UpdateMask(t) \/ SfdDequeue(t) \/ SfdMore(t) \/ SfdRegister(t) \/ SfdResume(t)
    /\ UNCHANGED load

SfdNext ==
    /\ (Next /\ UNCHANGED sfdVars) \/ \E t \in Thread : SfdCall(t) \/ SfdKernel(t)
    /\ Late

\* The kernel is scheduled, and the timer interrupts user code; a thread need not
\* make any call.
SfdFairness == \A t \in Thread : WF_vars(KernelStep(t)) /\ WF_vars(SfdKernel(t))

SfdSpec == SfdInit /\ [][SfdNext]_svars /\ SfdFairness

-----------------------------------------------------------------------------
(* Properties.                                                             *)

\* A reader of a signalfd does not sleep on a signal it could take, but for one that
\* came after it looked (no sender wakes it): not on one that another reader of its
\* process left in the queue, nor on one that a new mask lets in.
SfdReaderTold ==
    \A t \in Thread :
        (pc[t] = "sfdAsleep" /\ t \notin woken /\ \A u \in Thread : pc[u] \notin {"sfdUpdated", "sfdMore"})
            => HasPending(t) \subseteq late[t]
=============================================================================
