------------------------------ MODULE Signals ------------------------------
(***************************************************************************)
(* Threads and their signals: the run loop of a user task (api/src/task.rs *)
(* and api/src/signal.rs), sending (core/src/task.rs), and the signal      *)
(* system calls (api/src/syscall/signal.rs) with the waits among them.     *)
(*                                                                         *)
(* The queues of pending signals, the choice of a thread for a signal of   *)
(* the process, and what a disposition means belong to the starry-signal   *)
(* crate; interrupt, clear_interrupt and poll_interrupt to axtask.         *)
(***************************************************************************)
EXTENDS Naturals, Sequences, FiniteSets

CONSTANTS
    Thread,     \* tids
    Proc,       \* pids
    MaxFrames,  \* the depth of nested handlers (a bound)
    None

Sig == {"KILL", "USR", "CHLD"}
Maskable == Sig \ {"KILL"}

VARIABLES
    process,      \* the process of each thread, or None before clone makes it
    threads,      \* Process::threads
    task_table,   \* the threads in TASK_TABLE
    pc,           \* where a thread is
    ret,          \* where do_exit goes back to
    exit,         \* the threads that are ready to exit
    pending,      \* of each thread
    shared,       \* pending of each process
    blocked,      \* the mask of each thread
    actions,      \* the disposition of each signal, per process
    interrupted,  \* the threads interrupt() was called on
    block_next,   \* BLOCK_NEXT_SIGNAL_CHECK
    frames,       \* the masks saved in a thread's signal frames, last one first
    old,          \* old_blocked of the call a thread is in
    mask,         \* history: the mask the thread has asked for
    stale,        \* history: the threads whose mask ppoll did not put back
    missed        \* history: the threads that threw an interrupt away, or let
                  \* in a signal that nobody will interrupt them for

sigVars == <<pending, shared, blocked, actions, interrupted>>
maskVars == <<frames, old, mask, stale>>
threadVars == <<process, threads, task_table, exit>>

\* SignalOSAction of the default disposition is Terminate, but for SIGCHLD.
Ignored(p, s) == actions[p][s] = "Ignore" \/ (actions[p][s] = "Default" /\ s = "CHLD")

\* The signals check_signals would find for t.
Deliverable(t) == (pending[t] \cup shared[process[t]]) \ blocked[t]

Goto(t, l) == pc' = [pc EXCEPT ![t] = l]

-----------------------------------------------------------------------------
(* core/src/task.rs: sending.                                              *)

\* send_signal_thread_inner: a signal that is blocked waits without an interrupt.
ToThread(t, s) ==
    IF Ignored(process[t], s)
    THEN UNCHANGED <<pending, interrupted>>
    ELSE /\ pending' = [pending EXCEPT ![t] = @ \cup {s}]
         /\ interrupted' = IF s \in blocked[t] THEN interrupted ELSE interrupted \cup {t}

\* Mutant: the thread is not interrupted.
SendThreadQuietly(t, s) ==
    IF t \in task_table /\ ~Ignored(process[t], s)
    THEN /\ pending' = [pending EXCEPT ![t] = @ \cup {s}]
         /\ UNCHANGED interrupted
    ELSE UNCHANGED <<pending, interrupted>>

\* send_signal_to_thread: NoSuchProcess if the table does not have the thread.
SendThread(t, s) ==
    IF t \in task_table THEN ToThread(t, s) ELSE UNCHANGED <<pending, interrupted>>

\* The first thread of p whose manager does not block s: any, from their order.
Takers(p, s) == {t \in Thread : process[t] = p /\ pc[t] # "gone" /\ s \notin blocked[t]}

\* send_signal_to_process: a taker is interrupted, if the table has it.
SendProcess(p, s) ==
    IF Ignored(p, s) \/ \A t \in task_table : process[t] # p
    THEN UNCHANGED <<shared, interrupted>>
    ELSE /\ shared' = [shared EXCEPT ![p] = @ \cup {s}]
         /\ IF Takers(p, s) = {}
            THEN UNCHANGED interrupted
            ELSE \E t \in Takers(p, s) : interrupted' = interrupted \cup ({t} \cap task_table)

-----------------------------------------------------------------------------
(* The run loop.                                                           *)

\* raise_signal_fatal, for an exception or a page fault nobody handles: a signal of
\* the process, which ends when no thread of the table takes it.
Fault(t) ==
    /\ pc[t] = "user"
    /\ LET p == process[t]
           takers == IF Ignored(p, "USR") THEN {} ELSE Takers(p, "USR")
       IN  /\ shared' = [shared EXCEPT ![p] = IF Ignored(p, "USR") THEN @ ELSE @ \cup {"USR"}]
           /\ \/ \E u \in takers \cap task_table :
                    /\ interrupted' = interrupted \cup {u}
                    /\ Goto(t, "post") /\ UNCHANGED ret
              \/ /\ takers = {} \/ takers \ task_table # {}
                 /\ Goto(t, "exitGroup") /\ ret' = [ret EXCEPT ![t] = "post"]
                 /\ UNCHANGED interrupted
    /\ UNCHANGED <<threadVars, pending, blocked, actions, block_next, maskVars, missed>>

\* unblock_next_signal: whoever comes first takes the one flag.  From user space, it
\* is a timer interrupt, a page fault that is handled, or a call of no interest here.
Post(t) ==
    /\ pc[t] \in {"user", "post"}
    /\ Goto(t, IF block_next THEN "clear" ELSE "check")
    /\ block_next' = FALSE
    /\ UNCHANGED <<ret, threadVars, sigVars, maskVars, missed>>

\* check_signals takes one signal off the queues; `saved` is the mask a handler's
\* frame gets, `back` where it goes on.
Take(t, s, saved, back) ==
    /\ IF s \in pending[t]
       THEN pending' = [pending EXCEPT ![t] = @ \ {s}] /\ UNCHANGED shared
       ELSE shared' = [shared EXCEPT ![process[t]] = @ \ {s}] /\ UNCHANGED pending
    /\ IF actions[process[t]][s] = "Handler"
       THEN /\ Len(frames[t]) < MaxFrames
            /\ frames' = [frames EXCEPT ![t] = <<saved>> \o @]
            /\ blocked' = [blocked EXCEPT ![t] = @ \cup {s}]
            /\ Goto(t, back) /\ UNCHANGED ret
       ELSE /\ IF Ignored(process[t], s)
               THEN Goto(t, pc[t]) /\ UNCHANGED ret
               ELSE Goto(t, "exitGroup") /\ ret' = [ret EXCEPT ![t] = back]
            /\ UNCHANGED <<frames, blocked>>

\* while check_signals(thr, uctx, None) {}
Check(t) ==
    /\ pc[t] = "check"
    /\ IF Deliverable(t) = {}
       THEN Goto(t, "clear") /\ UNCHANGED <<ret, pending, shared, frames, blocked>>
       ELSE \E s \in Deliverable(t) : Take(t, s, blocked[t], "check")
    /\ UNCHANGED <<threadVars, actions, interrupted, block_next, old, mask, stale, missed>>

\* clear_interrupt, then back to user space, unless the thread is to exit.
Clear(t) ==
    /\ pc[t] = "clear"
    /\ interrupted' = interrupted \ {t}
    /\ missed' = IF Deliverable(t) # {} THEN missed \cup {t} ELSE missed \ {t}
    /\ IF t \in exit
       THEN Goto(t, "gone") /\ task_table' = task_table \ {t}
       ELSE Goto(t, "user") /\ UNCHANGED task_table
    /\ UNCHANGED <<ret, process, threads, exit, pending, shared, blocked, actions,
                   block_next, maskVars>>

-----------------------------------------------------------------------------
(* The system calls, all made from user space.                             *)

\* sys_kill, of one process; a group or -1 is this for each process in turn.
Kill(t, p, s) ==
    /\ pc[t] = "user"
    /\ SendProcess(p, s)
    /\ Goto(t, "post")
    /\ UNCHANGED <<ret, threadVars, pending, blocked, actions, block_next, maskVars, missed>>

\* sys_tkill and sys_tgkill.
Tkill(t, u, s) ==
    /\ pc[t] = "user"
    /\ SendThread(u, s)
    /\ Goto(t, "post")
    /\ UNCHANGED <<ret, threadVars, shared, blocked, actions, block_next, maskVars, missed>>

\* sys_rt_sigprocmask, whatever `how`.
Sigprocmask(t, m) ==
    /\ pc[t] = "user"
    /\ frames[t] = <<>>
    /\ blocked' = [blocked EXCEPT ![t] = m]
    /\ mask' = [mask EXCEPT ![t] = m]
    /\ stale' = stale \ {t}
    /\ Goto(t, "post")
    /\ UNCHANGED <<ret, threadVars, pending, shared, actions, interrupted, block_next,
                   frames, old, missed>>

\* sys_rt_sigaction; not for SIGKILL.
Sigaction(t, s, a) ==
    /\ pc[t] = "user"
    /\ s \in Maskable
    /\ actions' = [actions EXCEPT ![process[t]][s] = a]
    /\ Goto(t, "post")
    /\ UNCHANGED <<ret, threadVars, pending, shared, blocked, interrupted, block_next,
                   maskVars, missed>>

\* sys_execve: refused to a process of several threads; the handlers go with the
\* old image, and the frames on its stack.
Execve(t) ==
    /\ pc[t] = "user"
    /\ IF Cardinality(threads[process[t]]) > 1
       THEN UNCHANGED <<actions, frames, mask>>
       ELSE /\ actions' = [actions EXCEPT ![process[t]] = [s \in Sig |-> "Default"]]
            /\ frames' = [frames EXCEPT ![t] = <<>>]
            /\ mask' = [mask EXCEPT ![t] = blocked[t]]
    /\ Goto(t, "post")
    /\ UNCHANGED <<ret, threadVars, pending, shared, blocked, interrupted, block_next,
                   old, stale, missed>>

\* sys_rt_sigreturn, called by the trampoline of a handler: the flag, then the
\* mask of the frame.
Sigreturn(t) ==
    /\ pc[t] = "user"
    /\ frames[t] # <<>>
    /\ block_next' = TRUE
    /\ blocked' = [blocked EXCEPT ![t] = Head(frames[t])]
    /\ frames' = [frames EXCEPT ![t] = Tail(@)]
    /\ Goto(t, "post")
    /\ UNCHANGED <<ret, threadVars, pending, shared, actions, interrupted, old, mask,
                   stale, missed>>

\* sys_rt_sigsuspend and sys_rt_sigtimedwait swap the mask, as does the ppoll of
\* with_replacen_blocked, each to what `kind` tells.  ppoll then looks at no signal
\* that waits.
Swap(t, kind, m) ==
    /\ pc[t] = "user"
    /\ old' = [old EXCEPT ![t] = blocked[t]]
    /\ blocked' = [blocked EXCEPT ![t] = IF kind = "timedwait" THEN @ \ m ELSE m]
    /\ missed' = IF kind = "ppoll" /\ (pending[t] \cup shared[process[t]]) \ m # {}
                 THEN missed \cup {t} ELSE missed
    /\ Goto(t, kind)
    /\ UNCHANGED <<ret, threadVars, pending, shared, actions, interrupted, block_next,
                   frames, mask, stale>>

\* sigtimedwait: a signal of the set is the result of the call.
Dequeue(t, m) ==
    /\ pc[t] = "timedwait"
    /\ \E s \in m \cap (pending[t] \cup shared[process[t]]) :
        IF s \in pending[t]
        THEN pending' = [pending EXCEPT ![t] = @ \ {s}] /\ UNCHANGED shared
        ELSE shared' = [shared EXCEPT ![process[t]] = @ \ {s}] /\ UNCHANGED pending
    /\ blocked' = [blocked EXCEPT ![t] = old[t]]
    /\ Goto(t, "post")
    /\ UNCHANGED <<ret, threadVars, actions, interrupted, block_next, maskVars, missed>>

\* check_signals with the old mask for the handler's frame.
WaitCheck(t) ==
    /\ pc[t] \in {"suspend", "timedwait"}
    /\ IF Deliverable(t) = {}
       THEN /\ Goto(t, IF pc[t] = "suspend" THEN "suspendPoll" ELSE "timedwaitPoll")
            /\ UNCHANGED <<ret, pending, shared, frames, blocked>>
       ELSE \E s \in Deliverable(t) : Take(t, s, old[t], "post")
    /\ UNCHANGED <<threadVars, actions, interrupted, block_next, old, mask, stale, missed>>

\* poll_interrupt leaves the waker; what it returns is not looked at.
WaitPoll(t) ==
    /\ pc[t] \in {"suspendPoll", "timedwaitPoll"}
    /\ missed' = IF t \in interrupted THEN missed \cup {t} ELSE missed
    /\ interrupted' = interrupted \ {t}
    /\ Goto(t, IF pc[t] = "suspendPoll" THEN "suspended" ELSE "timedwaiting")
    /\ UNCHANGED <<ret, threadVars, pending, shared, blocked, actions, block_next, maskVars>>

\* Mutant: sigsuspend leaves no waker.
WaitResumeTimed(t) ==
    /\ pc[t] = "timedwaiting"
    /\ t \in interrupted
    /\ Goto(t, "timedwait")
    /\ UNCHANGED <<ret, threadVars, sigVars, block_next, maskVars, missed>>

WaitResume(t) ==
    /\ pc[t] \in {"suspended", "timedwaiting"}
    /\ t \in interrupted
    /\ Goto(t, IF pc[t] = "suspended" THEN "suspend" ELSE "timedwait")
    /\ UNCHANGED <<ret, threadVars, sigVars, block_next, maskVars, missed>>

\* The timeout of sigtimedwait.
WaitTimeout(t) ==
    /\ pc[t] = "timedwaiting"
    /\ blocked' = [blocked EXCEPT ![t] = old[t]]
    /\ Goto(t, "post")
    /\ UNCHANGED <<ret, threadVars, pending, shared, actions, interrupted, block_next,
                   maskVars, missed>>

\* ppoll, pselect6, epoll_pwait: asleep until the interrupt flag is seen ...
PpollInterrupted(t) ==
    /\ pc[t] = "ppoll"
    /\ t \in interrupted
    /\ stale' = IF blocked[t] # old[t] THEN stale \cup {t} ELSE stale
    /\ Goto(t, "post")
    /\ UNCHANGED <<ret, threadVars, sigVars, block_next, frames, old, mask, missed>>

\* Mutant: the mask is not put back.
PpollDoneForgets(t) ==
    /\ pc[t] = "ppoll"
    /\ Goto(t, "post")
    /\ UNCHANGED <<ret, threadVars, sigVars, block_next, maskVars, missed>>

\* ... or until an event or the timeout; only then the mask is put back.
PpollDone(t) ==
    /\ pc[t] = "ppoll"
    /\ blocked' = [blocked EXCEPT ![t] = old[t]]
    /\ Goto(t, "post")
    /\ UNCHANGED <<ret, threadVars, pending, shared, actions, interrupted, block_next,
                   maskVars, missed>>

\* Asleep until an interrupt; the read of a signalfd is the one of SignalFd.
Waiting == {"suspended", "timedwaiting", "ppoll", "sfdAsleep"}

-----------------------------------------------------------------------------
(* Properties.                                                             *)

\* A thread that is back in user space outside any handler has the mask it asked
\* for, after whatever sigsuspend, sigtimedwait, ppoll and handlers; except that
\* ppoll, interrupted, leaves its own.
MaskKept ==
    \A t \in Thread : (pc[t] = "user" /\ frames[t] = <<>> /\ t \notin stale) =>
        blocked[t] = mask[t]
=============================================================================
