------------------------------ MODULE Process ------------------------------
(***************************************************************************)
(* Processes: clone and fork, do_exit and exit_group, waitpid, and the     *)
(* signals between them, over the run loop of Signals.                     *)
(*                                                                         *)
(* The tree of processes is the starry-process crate: exit_thread says     *)
(* whether the thread was the last one, exit makes the process a zombie    *)
(* and hands its children to the reaper, free takes a zombie off its       *)
(* parent.  Each of those is one step, and so is every send and wake.      *)
(***************************************************************************)
EXTENDS Signals

CONSTANTS
    Main,       \* the process there is at first
    Workload    \* the mask each thread begins with, how many calls of which kinds it
                \* makes and the signals it sends, in the cases looked at (a bound)

ASSUME ProcessAssumption ==
    /\ MaxFrames \in Nat
    /\ Main \in Proc
    /\ None \notin Thread \cup Proc

VARIABLES
    parent,        \* of each process, or None
    state,         \* of each process: "none", "alive", "zombie", "freed"
    group_exited,  \* the processes whose group_exit was called
    todo,          \* the threads do_exit has yet to kill, or clone to start
    waits,         \* the children a waitpid looks at
    child_exit,    \* the threads with a waker in child_exit_event, per process
    woken,         \* the threads whose waker was called
    announced,     \* history: the processes whose end was announced to the parent
    seen,          \* history: the children that had ended when the waker was left
    targets,       \* history: the threads exit_group has to reach, per process
    load           \* what each thread may still do

procVars == <<parent, state, group_exited>>
waitVars == <<waits, child_exit, woken, announced, seen>>
vars == <<process, threads, task_table, exit, pc, ret, sigVars, block_next, maskVars,
          missed, procVars, waitVars, todo, targets, load>>

\* The calls of the signal modules leave this alone.
UNCHANGEDProc == UNCHANGED <<procVars, waitVars, todo, targets>>
UNCHANGEDSig == UNCHANGED <<sigVars, block_next, maskVars, missed>>

Living == {t \in Thread : process[t] # None /\ pc[t] # "gone"}

\* One process with some threads, and no other yet.
Init ==
    /\ load \in Workload
    /\ LET p == Main
           ts == {t \in Thread : load[t].here}
       IN  /\ process = [t \in Thread |-> IF t \in ts THEN p ELSE None]
           /\ threads = [q \in Proc |-> IF q = p THEN ts ELSE {}]
           /\ task_table = ts
           /\ pc = [t \in Thread |-> IF t \in ts THEN "user" ELSE "none"]
           /\ ret = [t \in Thread |-> "post"]
           /\ exit = {}
           /\ pending = [t \in Thread |-> {}]
           /\ shared = [q \in Proc |-> {}]
           /\ blocked = [t \in Thread |-> load[t].mask]
           /\ actions = [q \in Proc |-> [s \in Sig |-> "Default"]]
           /\ interrupted = {} /\ block_next = FALSE
           /\ frames = [t \in Thread |-> <<>>]
           /\ old = [t \in Thread |-> {}] /\ mask = blocked
           /\ stale = {} /\ missed = {}
           /\ parent = [q \in Proc |-> None]
           /\ state = [q \in Proc |-> IF q = p THEN "alive" ELSE "none"]
           /\ group_exited = {}
           /\ todo = [t \in Thread |-> {}]
           /\ waits = [t \in Thread |-> {}]
           /\ child_exit = [q \in Proc |-> {}]
           /\ woken = {} /\ announced = {}
           /\ seen = [t \in Thread |-> {}]
           /\ targets = [q \in Proc |-> {}]

-----------------------------------------------------------------------------
(* sys_clone by t of the new thread u.                                     *)

\* CLONE_THREAD: add_thread.
Clone(t, u) ==
    /\ pc[t] = "user"
    /\ process[u] = None
    /\ process' = [process EXCEPT ![u] = process[t]]
    /\ threads' = [threads EXCEPT ![process[t]] = @ \cup {u}]
    /\ blocked' = [blocked EXCEPT ![u] = {}]
    /\ todo' = [todo EXCEPT ![t] = {u}]
    /\ Goto(t, "spawn")
    /\ UNCHANGED <<task_table, exit, ret, pending, shared, actions, interrupted, block_next,
                   maskVars, missed, procVars, waitVars, targets>>

\* Otherwise: a new process with a copy of the dispositions.
Fork(t, u, q) ==
    /\ pc[t] = "user"
    /\ process[u] = None
    /\ state[q] = "none"
    /\ process' = [process EXCEPT ![u] = q]
    /\ threads' = [threads EXCEPT ![q] = {u}]
    /\ parent' = [parent EXCEPT ![q] = process[t]]
    /\ state' = [state EXCEPT ![q] = "alive"]
    /\ actions' = [actions EXCEPT ![q] = actions[process[t]]]
    /\ todo' = [todo EXCEPT ![t] = {u}]
    /\ Goto(t, "spawn")
    /\ UNCHANGED <<task_table, exit, ret, pending, shared, blocked, interrupted, block_next,
                   maskVars, missed, group_exited, waitVars, targets>>

\* spawn_task: the thread may run ...
Spawn(t) ==
    /\ pc[t] = "spawn"
    /\ \E u \in todo[t] : pc' = [pc EXCEPT ![t] = "addToTable", ![u] = "user"]
    /\ UNCHANGED <<threadVars, ret, todo, procVars, waitVars, targets>>
    /\ UNCHANGEDSig

\* ... before add_task_to_table.  One that is gone by then leaves nothing there.
AddToTable(t) ==
    /\ pc[t] = "addToTable"
    /\ task_table' = task_table \cup {u \in todo[t] : pc[u] # "gone"}
    /\ todo' = [todo EXCEPT ![t] = {}]
    /\ Goto(t, "post")
    /\ UNCHANGED <<process, threads, exit, ret, procVars, waitVars, targets>>
    /\ UNCHANGEDSig

-----------------------------------------------------------------------------
(* do_exit by t.                                                           *)

Exit(t, group) ==
    /\ pc[t] = "user"
    /\ Goto(t, IF group THEN "exitGroup" ELSE "exit")
    /\ ret' = [ret EXCEPT ![t] = "post"]
    /\ UNCHANGED threadVars
    /\ UNCHANGEDSig /\ UNCHANGEDProc

\* exit_thread says whether the thread was the last one.
ExitThread(t) ==
    /\ pc[t] \in {"exit", "exitGroup"}
    /\ LET p == process[t]
       IN  /\ threads' = [threads EXCEPT ![p] = @ \ {t}]
           /\ Goto(t, CASE threads[p] \subseteq {t} /\ pc[t] = "exit" -> "procExit"
                        [] threads[p] \subseteq {t} /\ pc[t] = "exitGroup" -> "procExitGroup"
                        [] OTHER -> IF pc[t] = "exit" THEN "setExit" ELSE "broadcast")
    /\ UNCHANGED <<process, task_table, exit, ret, parent, state, group_exited, waitVars,
                   todo, targets>>
    /\ UNCHANGEDSig

\* process.exit(): a zombie, whose children the reaper gets.
ProcExit(t) ==
    /\ pc[t] \in {"procExit", "procExitGroup"}
    /\ LET p == process[t]
       IN  /\ state' = [state EXCEPT ![p] = IF @ = "alive" THEN "zombie" ELSE @]
           /\ parent' = [q \in Proc |-> IF parent[q] = p THEN None ELSE parent[q]]
    /\ Goto(t, IF pc[t] = "procExit" THEN "tellParent" ELSE "tellParentGroup")
    /\ UNCHANGED <<threadVars, ret, group_exited, waitVars, todo, targets>>
    /\ UNCHANGEDSig

\* The exit signal of the process, SIGCHLD, to the parent.
TellParent(t) ==
    /\ pc[t] \in {"tellParent", "tellParentGroup"}
    /\ LET q == parent[process[t]]
       IN  IF q # None
           THEN /\ SendProcess(q, "CHLD")
                /\ Goto(t, IF pc[t] = "tellParent" THEN "wakeParent" ELSE "wakeParentGroup")
           ELSE /\ Goto(t, IF pc[t] = "tellParent" THEN "setExit" ELSE "broadcast")
                /\ UNCHANGED <<shared, interrupted>>
    /\ UNCHANGED <<threadVars, ret, pending, blocked, actions, block_next, maskVars, missed,
                   procVars, waitVars, todo, targets>>

\* Mutant: the waiters are not woken.
WakeParentQuietly(t) ==
    /\ pc[t] \in {"wakeParent", "wakeParentGroup"}
    /\ announced' = announced \cup {process[t]}
    /\ Goto(t, IF pc[t] = "wakeParent" THEN "setExit" ELSE "broadcast")
    /\ UNCHANGED <<threadVars, ret, procVars, waits, child_exit, woken, seen, todo, targets>>
    /\ UNCHANGEDSig

\* child_exit_event.wake() of the parent.
WakeParent(t) ==
    /\ pc[t] \in {"wakeParent", "wakeParentGroup"}
    /\ LET q == parent[process[t]]
       IN  IF q # None
           THEN /\ woken' = woken \cup child_exit[q]
                /\ child_exit' = [child_exit EXCEPT ![q] = {}]
           ELSE UNCHANGED <<woken, child_exit>>
    /\ announced' = announced \cup {process[t]}
    /\ Goto(t, IF pc[t] = "wakeParent" THEN "setExit" ELSE "broadcast")
    /\ UNCHANGED <<threadVars, ret, procVars, waits, seen, todo, targets>>
    /\ UNCHANGEDSig

\* Mutant: the threads to kill are those of the table that sleep.
BroadcastSome(t) ==
    /\ pc[t] = "broadcast"
    /\ LET p == process[t]
       IN  /\ group_exited' = group_exited \cup {p}
           /\ targets' = [targets EXCEPT ![p] = threads[p] \cap task_table]
           /\ todo' = [todo EXCEPT ![t] = {u \in threads[p] : pc[u] # "user"}]
           /\ Goto(t, "kill")
    /\ UNCHANGED <<threadVars, ret, parent, state, waitVars>>
    /\ UNCHANGEDSig

\* group_exit, by the first: then SIGKILL for every thread there is.
Broadcast(t) ==
    /\ pc[t] = "broadcast"
    /\ LET p == process[t]
       IN  IF p \in group_exited
           THEN Goto(t, "setExit") /\ UNCHANGED <<group_exited, todo, targets>>
           ELSE /\ group_exited' = group_exited \cup {p}
                /\ todo' = [todo EXCEPT ![t] = threads[p]]
                /\ targets' = [targets EXCEPT ![p] = threads[p] \cap task_table]
                /\ Goto(t, "kill")
    /\ UNCHANGED <<threadVars, ret, parent, state, waitVars>>
    /\ UNCHANGEDSig

KillNext(t) ==
    /\ pc[t] = "kill"
    /\ IF todo[t] = {}
       THEN Goto(t, "setExit") /\ UNCHANGED <<pending, interrupted, todo>>
       ELSE \E u \in todo[t] :
            /\ SendThread(u, "KILL")
            /\ todo' = [todo EXCEPT ![t] = @ \ {u}]
            /\ UNCHANGED pc
    /\ UNCHANGED <<threadVars, ret, shared, blocked, actions, block_next, maskVars, missed,
                   procVars, waitVars, targets>>

SetExit(t) ==
    /\ pc[t] = "setExit"
    /\ exit' = exit \cup {t}
    /\ Goto(t, ret[t])
    /\ UNCHANGED <<process, threads, task_table, ret>>
    /\ UNCHANGEDSig /\ UNCHANGEDProc

-----------------------------------------------------------------------------
(* sys_waitpid by t, for any child.                                        *)

Children(p) == {q \in Proc : parent[q] = p /\ state[q] \in {"alive", "zombie"}}

Waitpid(t) ==
    /\ pc[t] = "user"
    /\ IF Children(process[t]) = {}
       THEN Goto(t, "post") /\ UNCHANGED waits
       ELSE /\ waits' = [waits EXCEPT ![t] = Children(process[t])]
            /\ Goto(t, "waitCheck")
    /\ UNCHANGED <<threadVars, ret, procVars, child_exit, woken, announced, seen, todo, targets>>
    /\ UNCHANGEDSig

Zombies(t) == {q \in waits[t] : state[q] \in {"zombie", "freed"}}

\* check_children: the first zombie, or (without WNOHANG) wait.
CheckChildren(t) ==
    /\ pc[t] = "waitCheck"
    /\ IF Zombies(t) # {}
       THEN Goto(t, "free")
       ELSE Goto(t, "waitRegister") \/ Goto(t, "post")
    /\ UNCHANGED <<threadVars, ret, todo, procVars, waitVars, targets>>
    /\ UNCHANGEDSig

\* child.free(), and its pid is returned.  With WNOWAIT it is left.
Free(t) ==
    /\ pc[t] = "free"
    /\ \E q \in Zombies(t) :
        \/ state' = [state EXCEPT ![q] = "freed"]
        \/ UNCHANGED state
    /\ waits' = [waits EXCEPT ![t] = {}]
    /\ Goto(t, "post")
    /\ UNCHANGED <<threadVars, ret, parent, group_exited, child_exit, woken, announced,
                   seen, todo, targets>>
    /\ UNCHANGEDSig

\* The waker is left; the children are not looked at again.
WaitRegister(t) ==
    /\ pc[t] = "waitRegister"
    /\ child_exit' = [child_exit EXCEPT ![process[t]] = @ \cup {t}]
    /\ seen' = [seen EXCEPT ![t] = Zombies(t)]
    /\ Goto(t, "waiting")
    /\ UNCHANGED <<threadVars, ret, procVars, waits, woken, announced, todo, targets>>
    /\ UNCHANGEDSig

\* The future is polled again: for the event, or to see the interrupt.
WaitpidResume(t) ==
    /\ pc[t] = "waiting"
    /\ t \in woken
    /\ woken' = woken \ {t}
    /\ Goto(t, "waitCheck")
    /\ UNCHANGED <<threadVars, ret, procVars, waits, child_exit, announced, seen, todo, targets>>
    /\ UNCHANGEDSig

WaitpidInterrupted(t) ==
    /\ pc[t] = "waiting"
    /\ t \in interrupted /\ t \notin woken
    /\ waits' = [waits EXCEPT ![t] = {}]
    /\ child_exit' = [child_exit EXCEPT ![process[t]] = @ \ {t}]
    /\ Goto(t, "post")
    /\ UNCHANGED <<threadVars, ret, procVars, woken, announced, seen, todo, targets>>
    /\ UNCHANGEDSig

-----------------------------------------------------------------------------
\* One call of t, of a kind its workload allows.
May(t, k) ==
    /\ load[t].calls > 0
    /\ k \in load[t].kinds
    /\ load' = [load EXCEPT ![t].calls = @ - 1]

CallStep(t) ==
    \/ \E u \in Thread : May(t, "clone") /\ Clone(t, u)
    \/ \E u \in Thread, q \in Proc : May(t, "fork") /\ Fork(t, u, q)
    \/ May(t, "exit") /\ Exit(t, FALSE)
    \/ May(t, "exit_group") /\ Exit(t, TRUE)
    \/ May(t, "wait") /\ Waitpid(t)
    \/ /\ \/ \E p \in Proc, s \in load[t].sends : state[p] # "none" /\ May(t, "kill") /\ Kill(t, p, s)
          \/ \E u \in Living, s \in load[t].sends : May(t, "tkill") /\ Tkill(t, u, s)
          \/ \E m \in SUBSET {"USR"} : May(t, "sigmask") /\ Sigprocmask(t, m)
          \/ \E s \in Maskable, a \in {"Ignore", "Handler"} :
                May(t, "sigaction") /\ Sigaction(t, s, a)
          \/ \E m \in SUBSET {"USR"} : \E k \in {"suspend", "timedwait", "ppoll"} :
                May(t, k) /\ Swap(t, k, m)
          \/ May(t, "execve") /\ Execve(t)
          \/ May(t, "fault") /\ Fault(t)
       /\ UNCHANGEDProc

LoopStep(t) ==
    /\ Post(t) \/ Check(t) \/ Clear(t) \/ Sigreturn(t)
    /\ UNCHANGED load /\ UNCHANGEDProc

SigStep(t) ==
    /\ \/ Dequeue(t, {"USR"}) \/ WaitCheck(t) \/ WaitPoll(t) \/ WaitResume(t) \/ WaitTimeout(t)
       \/ PpollInterrupted(t) \/ PpollDone(t)
    /\ UNCHANGED load /\ UNCHANGEDProc

ProcStep(t) ==
    /\ \/ Spawn(t) \/ AddToTable(t)
       \/ ExitThread(t) \/ ProcExit(t) \/ TellParent(t) \/ WakeParent(t)
       \/ Broadcast(t) \/ KillNext(t) \/ SetExit(t)
       \/ CheckChildren(t) \/ Free(t) \/ WaitRegister(t)
       \/ WaitpidResume(t) \/ WaitpidInterrupted(t)
    /\ UNCHANGED load

\* What t does but for its calls.
KernelStep(t) == LoopStep(t) \/ SigStep(t) \/ ProcStep(t)

Next == \E t \in Thread : CallStep(t) \/ KernelStep(t)

-----------------------------------------------------------------------------
(* Properties.                                                             *)

\* A thread does not sleep through a signal sent to it, unless it was in the few
\* places where the interrupt is thrown away (between the last check_signals and
\* clear_interrupt, or on the way to sleep in sigsuspend or sigtimedwait) or it is
\* the mask of ppoll that lets in a signal which waited already.
SleeperHears ==
    \A t \in Thread :
        (pc[t] \in Waiting \cup {"waiting"} /\ pending[t] \ blocked[t] # {})
            => t \in interrupted \cup woken \cup missed

\* Once exit_group has told everyone, each thread that was in the table when it
\* began has SIGKILL pending or is on its way out.
GroupExitReaches ==
    \A p \in group_exited : \A u \in targets[p] \cap threads[p] :
        \/ "KILL" \in pending[u]
        \/ u \in exit \/ pc[u] \in {"exit", "exitGroup"}
        \/ \E t \in Thread : pc[t] = "kill" /\ u \in todo[t]

\* waitpid does not sleep on past the end of a child, when the child ended after the
\* waker was left: it is a zombie before the wake.
WaiterTold ==
    \A t \in Thread : (pc[t] = "waiting" /\ t \notin woken) =>
        \A q \in Zombies(t) \cap announced : parent[q] = process[t] => q \in seen[t]

\* A thread with SIGKILL pending ends, unless it missed the interrupt (it may then
\* sleep on) or a clone had not put it in the table.
KilledDies ==
    \A t \in Thread : ("KILL" \in pending[t]) ~> (pc[t] = "gone" \/ t \in missed)
=============================================================================
