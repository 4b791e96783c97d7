------------------------------- MODULE Futex -------------------------------
(***************************************************************************)
(* Futexes: the table of wait queues (core/src/futex.rs), the futex system *)
(* call (api/src/syscall/sync/futex.rs) and what a thread does with        *)
(* futexes when it exits (do_exit and handle_futex_death in                *)
(* api/src/task.rs).                                                       *)
(*                                                                         *)
(* One process, whose threads use one FutexTable.  The table's lock, each  *)
(* queue's lock, an access to user memory and the reference count of an    *)
(* entry are separate atomic steps, as in the code.                        *)
(***************************************************************************)
EXTENDS Naturals, FiniteSets, Sequences, SequencesExt

CONSTANTS
    Thread,
    Addr,        \* the futex words the threads use
    TidAddr,     \* those of them that are a thread's clear_child_tid
    Entry,       \* the FutexEntry objects (a bound)
    NoEntry,     \* None
    Val,         \* the values of a futex word
    Zero,        \* the value the kernel clears a word with
    Bit,         \* the bits of a bitset
    All,         \* a count no queue exceeds
    Workload     \* what the threads may do (see Load)

ASSUME NoEntryAssumption == NoEntry \notin Entry
ASSUME WordAssumption == TidAddr \subseteq Addr /\ Zero \in Val

\* The threads that wait and those that wake and requeue, the words and values
\* they use, the counts they wake and requeue, and the most wakers in all queues
\* when a wait starts (a bound).
Load == [sleepers : SUBSET Thread, wakers : SUBSET Thread, words : SUBSET Addr,
         vals : SUBSET Val, wakes : SUBSET Nat, moves : SUBSET Nat, waiters : Nat]

ASSUME LoadAssumption == All \in Nat /\ \A w \in Workload : w \in Load

VARIABLES
    val,        \* the futex words in user memory
    table,      \* FutexTable: address -> entry
    queue,      \* FutexEntry::wq: per entry, a sequence of waiters
    ownerDead,  \* FutexEntry::owner_dead
    pc,         \* where a thread is
    arg,        \* the arguments of its call
    guard,      \* the FutexGuard `futex`
    guard2,     \* the FutexGuard `futex2` of FUTEX_REQUEUE
    moving,     \* the vector `tasks` of WaitQueue::requeue
    notified,   \* the waker of the thread has been called
    load        \* the workload of this behaviour; it never changes

vars == <<val, table, queue, ownerDead, pc, arg, guard, guard2, moving, notified, load>>
tableVars == <<table, queue, ownerDead>>

-----------------------------------------------------------------------------
Bitset == SUBSET Bit \ {{}}

\* A waker in a queue; it is live while the thread is still in the wait it was
\* made for, and stale once the thread has left it.
Waiter == [thread : Thread, bits : Bitset, live : BOOLEAN]

\* The arguments of a call: op tells what is left to do when it ends.  History:
\* a requeue has taken the waiter of the call out of its queue.
Op == {"none", "wait", "wake", "store", "requeue", "exit", "death"}
Arg == [op : Op, addr : Addr, addr2 : Addr, val : Val, bits : Bitset, n : Nat, n2 : Nat,
        moved : BOOLEAN]

Pc == {"user", "waitGet", "waitIf", "blocked", "wakeGet", "wake", "requeueGet",
       "requeueGet2", "requeueWake", "requeueDrain", "requeueExtend", "robust",
       "deathStore", "drop", "remove", "release", "drop2", "remove2",
       "release2", "exited"}

NoArg == [op |-> "none", addr |-> CHOOSE a \in Addr : TRUE,
          addr2 |-> CHOOSE a \in Addr : TRUE, val |-> CHOOSE v \in Val : TRUE,
          bits |-> Bit, n |-> 0, n2 |-> 0, moved |-> FALSE]

TypeOK ==
    /\ val \in [Addr -> Val]
    /\ table \in [Addr -> Entry \cup {NoEntry}]
    /\ queue \in [Entry -> Seq(Waiter)]
    /\ ownerDead \in [Entry -> BOOLEAN]
    /\ pc \in [Thread -> Pc]
    /\ arg \in [Thread -> Arg]
    /\ guard \in [Thread -> Entry \cup {NoEntry}]
    /\ guard2 \in [Thread -> Entry \cup {NoEntry}]
    /\ moving \in [Thread -> Seq(Waiter)]
    /\ notified \in [Thread -> BOOLEAN]
    /\ load \in Workload

Init ==
    /\ load \in Workload
    /\ val \in {f \in [Addr -> load.vals] : \A a \in Addr \ load.words : f[a] = Zero}
    /\ table = [a \in Addr |-> NoEntry]
    /\ queue = [e \in Entry |-> <<>>]
    /\ ownerDead = [e \in Entry |-> FALSE]
    /\ pc = [t \in Thread |-> "user"]
    /\ arg = [t \in Thread |-> NoArg]
    /\ guard = [t \in Thread |-> NoEntry]
    /\ guard2 = [t \in Thread |-> NoEntry]
    /\ moving = [t \in Thread |-> <<>>]
    /\ notified = [t \in Thread |-> FALSE]

-----------------------------------------------------------------------------
(* Entries and queues.                                                     *)

\* Arc::strong_count of an entry: the table and the guards.
StrongCount(e) ==
    Cardinality({a \in Addr : table[a] = e})
      + Cardinality({t \in Thread : guard[t] = e})
      + Cardinality({t \in Thread : guard2[t] = e})

\* FutexTable::get_or_insert, with the entry it returns.
GetOrInsert(a, e) ==
    \/ /\ table[a] = e
       /\ e # NoEntry
       /\ UNCHANGED tableVars
    \/ /\ table[a] = NoEntry
       /\ e \in Entry
       /\ StrongCount(e) = 0
       /\ table' = [table EXCEPT ![a] = e]
       /\ UNCHANGED <<queue, ownerDead>>

\* The last reference to an entry frees it, with its queue.
DropEntries ==
    LET live == {e \in Entry : StrongCount(e)' > 0}
    IN  /\ queue' = [e \in Entry |-> IF e \in live THEN queue[e] ELSE <<>>]
        /\ ownerDead' = [e \in Entry |-> e \in live /\ ownerDead[e]]

\* Mutant: every waiter that matches is taken out, only n are woken.
RetainDropsRest(q, n, mask) ==
    FoldLeft(LAMBDA r, w : IF w.bits \cap mask = {}
                           THEN [r EXCEPT !.kept = Append(@, w)]
                           ELSE IF Len(r.woken) >= n THEN r
                           ELSE [r EXCEPT !.woken = Append(@, w)],
             [kept |-> <<>>, woken |-> <<>>], q)

\* WaitQueue::wake takes out the first n waiters whose bitset meets the mask.
Retain(q, n, mask) ==
    FoldLeft(LAMBDA r, w : IF Len(r.woken) >= n \/ w.bits \cap mask = {}
                           THEN [r EXCEPT !.kept = Append(@, w)]
                           ELSE [r EXCEPT !.woken = Append(@, w)],
             [kept |-> <<>>, woken |-> <<>>], q)

\* The waker of a live waiter ends its wait.  A stale waker may end the wait
\* its thread is in now: the poll function of wait_if returns as soon as it is
\* polled again.
Wake(e, n, mask) ==
    LET r == Retain(queue[e], n, mask)
        hit(live) == {w.thread : w \in {x \in ToSet(r.woken) : x.live = live}}
    IN  /\ queue' = [queue EXCEPT ![e] = r.kept]
        /\ \E spurious \in SUBSET {t \in hit(FALSE) : pc[t] = "blocked"} :
             notified' = [t \in Thread |->
                            notified[t] \/ t \in hit(TRUE) \cup spurious]

\* A thread that leaves its wait leaves its waker where it is.
Stale(q, t) ==
    [i \in DOMAIN q |-> [q[i] EXCEPT !.live = @ /\ q[i].thread # t]]

LiveIn(q, t) == {i \in DOMAIN q : q[i].thread = t /\ q[i].live}

Goto(t, l) == pc' = [pc EXCEPT ![t] = l]

-----------------------------------------------------------------------------
(* FutexGuard::drop, and the return from the call.                         *)

\* What follows the last guard's drop: back to user mode, or on with the exit.
AfterDrop(t) ==
    CASE arg[t].op = "exit"  -> "robust"
      [] arg[t].op = "death" -> "exited"
      [] OTHER               -> "user"

Return(t) ==
    /\ Goto(t, AfterDrop(t))
    /\ arg' = [arg EXCEPT ![t] = NoArg]

\* The count and the queue are read without the table's lock ...
GuardDrop(t) ==
    /\ pc[t] = "drop"
    /\ Goto(t, IF StrongCount(guard[t]) <= 2 /\ queue[guard[t]] = <<>>
               THEN "remove" ELSE "release")
    /\ UNCHANGED <<val, tableVars, arg, guard, guard2, moving, notified>>

\* ... and the key is removed whatever entry it maps to by then.
GuardRemove(t) ==
    /\ pc[t] = "remove"
    /\ table' = [table EXCEPT ![arg[t].addr] = NoEntry]
    /\ Goto(t, "release")
    /\ UNCHANGED <<val, arg, guard, guard2, moving, notified>>
    /\ DropEntries

\* The Arc is dropped after the body of drop; `futex2` goes after `futex`.
GuardRelease(t) ==
    /\ pc[t] = "release"
    /\ guard' = [guard EXCEPT ![t] = NoEntry]
    /\ IF guard2[t] # NoEntry THEN Goto(t, "drop2") /\ UNCHANGED arg ELSE Return(t)
    /\ UNCHANGED <<val, table, guard2, moving, notified>>
    /\ DropEntries

\* The same for `futex2`.
Guard2Drop(t) ==
    /\ pc[t] = "drop2"
    /\ Goto(t, IF StrongCount(guard2[t]) <= 2 /\ queue[guard2[t]] = <<>>
               THEN "remove2" ELSE "release2")
    /\ UNCHANGED <<val, tableVars, arg, guard, guard2, moving, notified>>

Guard2Remove(t) ==
    /\ pc[t] = "remove2"
    /\ table' = [table EXCEPT ![arg[t].addr2] = NoEntry]
    /\ Goto(t, "release2")
    /\ UNCHANGED <<val, arg, guard, guard2, moving, notified>>
    /\ DropEntries

Guard2Release(t) ==
    /\ pc[t] = "release2"
    /\ guard2' = [guard2 EXCEPT ![t] = NoEntry]
    /\ Return(t)
    /\ UNCHANGED <<val, table, guard, moving, notified>>
    /\ DropEntries

-----------------------------------------------------------------------------
(* FUTEX_WAIT and FUTEX_WAIT_BITSET.                                       *)

Call(t, op, l, a) ==
    /\ pc[t] = "user"
    /\ Goto(t, l)
    /\ arg' = [arg EXCEPT ![t] = [a EXCEPT !.op = op]]

\* Wakers are left behind by every wait that is aborted, without limit.
QueueBound == FoldFunctionOnSet(LAMBDA q, n : Len(q) + n, 0, queue, Entry) < load.waiters

\* The fast path reads the word: a call with another value returns EAGAIN and
\* changes nothing.
WaitCall(t, a, v, bits) ==
    /\ val[a] = v
    /\ Call(t, "wait", "waitGet", [NoArg EXCEPT !.addr = a, !.val = v, !.bits = bits])
    /\ UNCHANGED <<val, tableVars, guard, guard2, moving, notified>>

WaitGet(t) ==
    /\ pc[t] = "waitGet"
    /\ \E e \in Entry : GetOrInsert(arg[t].addr, e) /\ guard' = [guard EXCEPT ![t] = e]
    /\ Goto(t, "waitIf")
    /\ UNCHANGED <<val, arg, guard2, moving, notified>>

\* Mutant: the word is not read again.
WaitIfUnchecked(t) ==
    /\ pc[t] = "waitIf"
    /\ queue' = [queue EXCEPT ![guard[t]] = Append(@,
                   [thread |-> t, bits |-> arg[t].bits, live |-> TRUE])]
    /\ Goto(t, "blocked")
    /\ UNCHANGED <<val, table, ownerDead, arg, guard, guard2, moving, notified>>

\* The first poll of wait_if: with the queue locked, read the word again.
WaitIf(t) ==
    /\ pc[t] = "waitIf"
    /\ IF val[arg[t].addr] = arg[t].val
       THEN /\ queue' = [queue EXCEPT ![guard[t]] = Append(@,
                           [thread |-> t, bits |-> arg[t].bits, live |-> TRUE])]
            /\ Goto(t, "blocked")
       ELSE Goto(t, "drop") /\ UNCHANGED queue
    /\ UNCHANGED <<val, table, ownerDead, arg, guard, guard2, moving, notified>>

\* A signal that is already pending ends the call before the first poll.
WaitInterrupted(t) ==
    /\ pc[t] = "waitIf"
    /\ Goto(t, "drop")
    /\ UNCHANGED <<val, tableVars, arg, guard, guard2, moving, notified>>

LeaveWait(t) ==
    /\ queue' = [e \in Entry |-> Stale(queue[e], t)]
    /\ moving' = [u \in Thread |-> Stale(moving[u], t)]
    /\ notified' = [notified EXCEPT ![t] = FALSE]
    /\ Goto(t, "drop")

\* The second poll: the call returns 0, or EOWNERDEAD if the flag was set.
WaitResume(t) ==
    /\ pc[t] = "blocked"
    /\ notified[t]
    /\ LeaveWait(t)
    /\ ownerDead' = [ownerDead EXCEPT ![guard[t]] = FALSE]
    /\ UNCHANGED <<val, table, arg, guard, guard2>>

\* The timeout or a signal: the waker is not taken out of the queue.
WaitAbort(t) ==
    /\ pc[t] = "blocked"
    /\ LeaveWait(t)
    /\ UNCHANGED <<val, table, ownerDead, arg, guard, guard2>>

-----------------------------------------------------------------------------
(* FUTEX_WAKE and FUTEX_WAKE_BITSET, and the other users of get and wake.  *)

WakeCall(t, a, n, bits) ==
    /\ Call(t, "wake", "wakeGet", [NoArg EXCEPT !.addr = a, !.bits = bits, !.n = n])
    /\ UNCHANGED <<val, tableVars, guard, guard2, moving, notified>>

\* A thread changes a word and then wakes everybody who waits on it, as the
\* unlock of a mutex or a broadcast does in user space.
StoreAndWake(t, a, v) ==
    /\ v # val[a]
    /\ val' = [val EXCEPT ![a] = v]
    /\ Call(t, "store", "wakeGet", [NoArg EXCEPT !.addr = a, !.n = All])
    /\ UNCHANGED <<tableVars, guard, guard2, moving, notified>>

\* FutexTable::get; without an entry there is nobody to wake.
WakeGet(t) ==
    /\ pc[t] = "wakeGet"
    /\ LET e == table[arg[t].addr] IN
         /\ guard' = [guard EXCEPT ![t] = e]
         /\ IF e = NoEntry
            THEN Return(t)
            ELSE /\ Goto(t, IF arg[t].op = "death" THEN "deathStore" ELSE "wake")
                 /\ UNCHANGED arg
    /\ UNCHANGED <<val, tableVars, guard2, moving, notified>>

WakeQueue(t) ==
    /\ pc[t] = "wake"
    /\ Wake(guard[t], arg[t].n, arg[t].bits)
    /\ Goto(t, "drop")
    /\ UNCHANGED <<val, table, ownerDead, arg, guard, guard2, moving>>

-----------------------------------------------------------------------------
(* FUTEX_REQUEUE and FUTEX_CMP_REQUEUE: wake n waiters of a and move n2.   *)

\* FUTEX_CMP_REQUEUE differs by a test of the word, EAGAIN if it fails.
RequeueCall(t, a, b, n, n2) ==
    /\ Call(t, "requeue", "requeueGet",
            [NoArg EXCEPT !.addr = a, !.addr2 = b, !.n = n, !.n2 = n2])
    /\ UNCHANGED <<val, tableVars, guard, guard2, moving, notified>>

RequeueGet(t) ==
    /\ pc[t] = "requeueGet"
    /\ guard' = [guard EXCEPT ![t] = table[arg[t].addr]]
    /\ Goto(t, "requeueGet2")
    /\ UNCHANGED <<val, tableVars, arg, guard2, moving, notified>>

RequeueGet2(t) ==
    /\ pc[t] = "requeueGet2"
    /\ \E e \in Entry : GetOrInsert(arg[t].addr2, e) /\ guard2' = [guard2 EXCEPT ![t] = e]
    /\ Goto(t, IF guard[t] = NoEntry THEN "drop2" ELSE "requeueWake")
    /\ UNCHANGED <<val, arg, guard, moving, notified>>

\* Waiters are moved only if the full number was woken.
RequeueWake(t) ==
    /\ pc[t] = "requeueWake"
    /\ Wake(guard[t], arg[t].n, Bit)
    /\ Goto(t, IF Len(Retain(queue[guard[t]], arg[t].n, Bit).woken) = arg[t].n
               THEN "requeueDrain" ELSE "drop")
    /\ UNCHANGED <<val, table, ownerDead, arg, guard, guard2, moving>>

\* History: the threads whose live waiters are in q have been moved.
Moved(q) ==
    [t \in Thread |-> [arg[t] EXCEPT !.moved = @ \/ LiveIn(q, t) # {}]]

\* Mutant: the waiters to move are copied, not taken out.
RequeueDrainCopies(t) ==
    /\ pc[t] = "requeueDrain"
    /\ LET q == queue[guard[t]]
           k == IF arg[t].n2 < Len(q) THEN arg[t].n2 ELSE Len(q)
       IN  /\ moving' = [moving EXCEPT ![t] = SubSeq(q, 1, k)]
           /\ arg' = Moved(SubSeq(q, 1, k))
           /\ Goto(t, IF k = 0 THEN "drop" ELSE "requeueExtend")
    /\ UNCHANGED <<val, table, queue, ownerDead, guard, guard2, notified>>

\* WaitQueue::requeue takes the waiters out under one lock ...
RequeueDrain(t) ==
    /\ pc[t] = "requeueDrain"
    /\ LET q == queue[guard[t]]
           k == IF arg[t].n2 < Len(q) THEN arg[t].n2 ELSE Len(q)
       IN  /\ moving' = [moving EXCEPT ![t] = SubSeq(q, 1, k)]
           /\ queue' = [queue EXCEPT ![guard[t]] = SubSeq(q, k + 1, Len(q))]
           /\ arg' = Moved(SubSeq(q, 1, k))
           /\ Goto(t, IF k = 0 THEN "drop" ELSE "requeueExtend")
    /\ UNCHANGED <<val, table, ownerDead, guard, guard2, notified>>

\* ... and puts them into the other queue under another.
RequeueExtend(t) ==
    /\ pc[t] = "requeueExtend"
    /\ queue' = [queue EXCEPT ![guard2[t]] = @ \o moving[t]]
    /\ moving' = [moving EXCEPT ![t] = <<>>]
    /\ Goto(t, "drop")
    /\ UNCHANGED <<val, table, ownerDead, arg, guard, guard2, notified>>

-----------------------------------------------------------------------------
(* do_exit.                                                                *)

\* Clear the word at clear_child_tid, then wake one thread that waits on it.
ExitCall(t, a) ==
    /\ val' = [val EXCEPT ![a] = Zero]
    /\ Call(t, "exit", "wakeGet", [NoArg EXCEPT !.addr = a, !.n = 1])
    /\ UNCHANGED <<tableVars, guard, guard2, moving, notified>>

\* exit_robust_list: the thread holds one robust futex, or none.
ExitRobust(t) ==
    /\ pc[t] = "robust"
    /\ \/ Goto(t, "exited") /\ UNCHANGED arg
       \/ /\ \E a \in load.words : arg' = [arg EXCEPT ![t] =
                 [NoArg EXCEPT !.op = "death", !.addr = a, !.n = 1]]
          /\ Goto(t, "wakeGet")
    /\ UNCHANGED <<val, tableVars, guard, guard2, moving, notified>>

\* handle_futex_death sets owner_dead before it wakes a waiter.
DeathStore(t) ==
    /\ pc[t] = "deathStore"
    /\ ownerDead' = [ownerDead EXCEPT ![guard[t]] = TRUE]
    /\ Goto(t, "wake")
    /\ UNCHANGED <<val, table, queue, arg, guard, guard2, moving, notified>>

-----------------------------------------------------------------------------
Wait(t) ==
    \/ /\ QueueBound /\ t \in load.sleepers
       /\ \E a \in load.words, v \in load.vals, bits \in Bitset : WaitCall(t, a, v, bits)
    \/ WaitGet(t) \/ WaitIf(t) \/ WaitInterrupted(t)
    \/ WaitResume(t) \/ WaitAbort(t)

WakeUp(t) ==
    \/ /\ t \in load.wakers
       /\ \E a \in load.words :
             \/ \E n \in load.wakes \ {0}, bits \in Bitset : WakeCall(t, a, n, bits)
             \/ \E v \in load.vals : StoreAndWake(t, a, v)
    \/ WakeGet(t) \/ WakeQueue(t)

Requeue(t) ==
    \/ /\ t \in load.wakers
       /\ \E a, b \in load.words, n \in load.wakes, n2 \in load.moves :
             RequeueCall(t, a, b, n, n2)
    \/ RequeueGet(t) \/ RequeueGet2(t) \/ RequeueWake(t)
    \/ RequeueDrain(t) \/ RequeueExtend(t)

Drop(t) ==
    \/ GuardDrop(t) \/ GuardRemove(t) \/ GuardRelease(t)
    \/ Guard2Drop(t) \/ Guard2Remove(t) \/ Guard2Release(t)

Exit(t) ==
    \/ \E a \in TidAddr \cap load.words : ExitCall(t, a)
    \/ ExitRobust(t) \/ DeathStore(t)

Next ==
    /\ \E t \in load.sleepers \cup load.wakers :
           Wait(t) \/ WakeUp(t) \/ Requeue(t) \/ Drop(t) \/ Exit(t)
    /\ UNCHANGED load

Spec == Init /\ [][Next]_vars

-----------------------------------------------------------------------------
(* Properties.                                                             *)

Asleep(t) == pc[t] = "blocked" /\ ~ notified[t]

\* Where the live waker of t is: in queues, or in the hands of a requeue.
LivePlaces(t) ==
    (UNION {{e} \X LiveIn(queue[e], t) : e \in Entry})
      \cup (UNION {{u} \X LiveIn(moving[u], t) : u \in Thread})

\* A waiter is never in two places: a thread has at most one live waker, in a
\* queue or in the vector of a requeue under way, and none when it is not
\* waiting.
WaiterOnce ==
    \A t \in Thread :
        /\ Cardinality(LivePlaces(t)) <= 1
        /\ pc[t] # "blocked" => LivePlaces(t) = {}

\* No waiter is forgotten: a thread that sleeps has its waker in a queue that
\* still exists, unless a requeue has moved it.  (FUTEX_REQUEUE can move a
\* waiter into an entry that is no longer in the table and goes with the call.)
AsleepIsQueued ==
    \A t \in Thread :
        (Asleep(t) /\ ~ arg[t].moved) => \E e \in Entry : LiveIn(queue[e], t) # {}

\* The thread u has yet to wake every waiter of the word a.
WillWakeAll(u, a) ==
    /\ arg[u].op = "store"
    /\ arg[u].addr = a
    /\ pc[u] \in {"wakeGet", "wake"}

\* The waker of t is in the queue that the table holds for its word.
InTable(t) ==
    /\ guard[t] = table[arg[t].addr]
    /\ LiveIn(queue[guard[t]], t) # {}

\* No wake-up is lost between the test of the word and the sleep: a thread that
\* sleeps in the word's queue although the word no longer has the value it
\* waits on will be woken by the thread that changed the word.  This is what
\* reading the word again with the queue locked is for.  (The words that
\* do_exit clears are left out: it wakes a single waiter; so are the waiters a
\* requeue has moved, which no longer wait for their own word.)
NoLostWakeup ==
    \A t \in Thread :
        (/\ Asleep(t) /\ InTable(t) /\ ~ arg[t].moved
         /\ arg[t].addr \notin TidAddr /\ val[arg[t].addr] # arg[t].val)
            => \E u \in Thread : WillWakeAll(u, arg[t].addr)
=============================================================================
