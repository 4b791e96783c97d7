----------------------------- MODULE AlarmList -----------------------------
(***************************************************************************)
(* The alarm list of core/src/time.rs: the heap ALARM_LIST of deadlines,   *)
(* the event EVENT_NEW_TIMER, the tasks that add deadlines to the heap     *)
(* (ITimer::renew_timer) and the kernel task that sleeps until the first   *)
(* deadline (alarm_task).                                                  *)
(*                                                                         *)
(* What a timer does when it is polled is left open here: while it polls,  *)
(* the alarm task may renew timers, as any thread may at any time.         *)
(*                                                                         *)
(* Every step between two acquisitions of the heap's lock, or between a    *)
(* lock and the event, is an action of its own.                            *)
(***************************************************************************)
EXTENDS Naturals, FiniteSets

CONSTANTS
    Thread,        \* the user threads
    Alarm,         \* the task that runs alarm_task()
    NoEntry,       \* no entry of the heap
    Slot,          \* names for the entries of the heap (a bound)
    MaxRemained,   \* the longest remaining time of a timer (a bound)
    MaxTime        \* the last instant of the clock (a bound)

ASSUME AlarmAssumption == Alarm \notin Thread
ASSUME TimeAssumption == MaxRemained \in Nat /\ MaxTime \in Nat

Task == Thread \cup {Alarm}

VARIABLES
    now,       \* wall_time()
    heap,      \* ALARM_LIST: a set of entries, peek() is one of the earliest
    alive,     \* the threads whose task still exists (Weak::upgrade succeeds)
    listener,  \* the listener of alarm_task on EVENT_NEW_TIMER
    apc,       \* where alarm_task is
    cur,       \* alarm_task's `entry`: the entry it peeked
    rpc,       \* where a task is in renew_timer
    dl         \* the local `deadline` of renew_timer

vars == <<now, heap, alive, listener, apc, cur, rpc, dl>>
renewVars == <<rpc, dl>>
alarmVars == <<apc, cur>>

Entry == [slot : Slot, deadline : Nat, task : Task]

AlarmPc == {"top", "listenEmpty", "checkEmpty", "waitEmpty", "poll", "pop",
            "listenTimer", "checkTimer", "waitTimer", "panic"}

TypeOK ==
    /\ now \in Nat
    /\ heap \in SUBSET Entry
    /\ alive \in SUBSET Thread
    /\ listener \in {"none", "registered", "notified"}
    /\ apc \in AlarmPc
    /\ cur \in Entry \cup {NoEntry}
    /\ rpc \in [Task -> {"idle", "push", "notify"}]
    /\ dl \in [Task -> Nat]

Init ==
    /\ now = 0
    /\ heap = {}
    /\ alive = Thread
    /\ listener = "none"
    /\ apc = "top"
    /\ cur = NoEntry
    /\ rpc = [p \in Task |-> "idle"]
    /\ dl = [p \in Task |-> 0]

-----------------------------------------------------------------------------
(* The heap.                                                               *)

FreeSlot == {s \in Slot : \A e \in heap : e.slot # s}

\* BinaryHeap::peek: an entry no other entry is earlier than.
Earliest == {e \in heap : \A f \in heap : e.deadline <= f.deadline}

-----------------------------------------------------------------------------
(* ITimer::renew_timer, run by p.                                          *)

\* A thread runs it in setitimer and in its own polls, the alarm task inside
\* poll_timer.
MayRenew(p) ==
    /\ rpc[p] = "idle"
    /\ IF p = Alarm THEN apc = "poll" ELSE p \in alive

\* `let deadline = wall_time() + remained`, before the heap is locked.
RenewStart(p, remained) ==
    /\ MayRenew(p)
    /\ remained > 0
    /\ rpc' = [rpc EXCEPT ![p] = "push"]
    /\ dl' = [dl EXCEPT ![p] = now + remained]
    /\ UNCHANGED <<now, heap, alive, listener, alarmVars>>

\* Under the lock: compare with the first entry, then push.
RenewPush(p) ==
    /\ rpc[p] = "push"
    /\ \E s \in FreeSlot :
         heap' = heap \cup {[slot |-> s, deadline |-> dl[p], task |-> p]}
    /\ rpc' = [rpc EXCEPT ![p] =
                 IF \A e \in heap : e.deadline > dl[p] THEN "notify" ELSE "idle"]
    /\ dl' = [dl EXCEPT ![p] = 0]
    /\ UNCHANGED <<now, alive, listener, alarmVars>>

\* EVENT_NEW_TIMER.notify(1): lost when nobody listens.
RenewNotify(p) ==
    /\ rpc[p] = "notify"
    /\ listener' = IF listener = "registered" THEN "notified" ELSE listener
    /\ rpc' = [rpc EXCEPT ![p] = "idle"]
    /\ UNCHANGED <<now, heap, alive, alarmVars, dl>>

-----------------------------------------------------------------------------
(* alarm_task.                                                             *)

AlarmPeekEmpty ==
    /\ apc = "top"
    /\ heap = {}
    /\ apc' = "listenEmpty"
    /\ cur' = NoEntry
    /\ UNCHANGED <<now, heap, alive, listener, renewVars>>

\* The first deadline has passed: poll its task if it still exists.
AlarmPeekExpired ==
    /\ apc = "top"
    /\ \E e \in Earliest :
         /\ e.deadline <= now
         /\ cur' = e
         /\ apc' = IF e.task \in alive \cup {Alarm} THEN "poll" ELSE "pop"
    /\ UNCHANGED <<now, heap, alive, listener, renewVars>>

AlarmPeekLater ==
    /\ apc = "top"
    /\ \E e \in Earliest : e.deadline > now /\ cur' = e
    /\ apc' = "listenTimer"
    /\ UNCHANGED <<now, heap, alive, listener, renewVars>>

\* `listener!(EVENT_NEW_TIMER => listener)`
AlarmListen ==
    /\ \/ apc = "listenEmpty" /\ apc' = "checkEmpty"
       \/ apc = "listenTimer" /\ apc' = "checkTimer"
    /\ listener' = "registered"
    /\ UNCHANGED <<now, heap, alive, cur, renewVars>>

\* The second look at the heap, now that the listener is registered; on
\* `continue` the listener is dropped.
AlarmCheckEmpty ==
    /\ apc = "checkEmpty"
    /\ IF heap # {}
       THEN apc' = "top" /\ listener' = "none"
       ELSE apc' = "waitEmpty" /\ UNCHANGED listener
    /\ UNCHANGED <<now, heap, alive, cur, renewVars>>

\* Mutant: no second look before the timed wait.
AlarmCheckTimerSkipped ==
    /\ apc = "checkTimer"
    /\ apc' = "waitTimer"
    /\ UNCHANGED <<now, heap, alive, listener, cur, renewVars>>

AlarmCheckTimer ==
    /\ apc = "checkTimer"
    /\ IF \E e \in Earliest : e.deadline = cur.deadline
       THEN apc' = "waitTimer" /\ UNCHANGED listener
       ELSE apc' = "top" /\ listener' = "none"
    /\ UNCHANGED <<now, heap, alive, cur, renewVars>>

\* Mutant: any wake-up from the timed wait is taken for the timeout.
AlarmWakePolls ==
    /\ \/ apc = "waitEmpty" /\ listener = "notified" /\ apc' = "top"
       \/ /\ apc = "waitTimer" /\ (listener = "notified" \/ cur.deadline <= now)
          /\ apc' = "poll"
    /\ listener' = "none"
    /\ UNCHANGED <<now, heap, alive, cur, renewVars>>

\* `listener.await`, and `timeout_at(Some(deadline), listener).await`
AlarmWake ==
    /\ \/ apc = "waitEmpty" /\ listener = "notified"
       \/ apc = "waitTimer" /\ (listener = "notified" \/ cur.deadline <= now)
    /\ apc' = "top"
    /\ listener' = "none"
    /\ UNCHANGED <<now, heap, alive, cur, renewVars>>

\* poll_timer returns; the timers it renewed are in the heap.
AlarmPolled ==
    /\ apc = "poll"
    /\ rpc[Alarm] = "idle"
    /\ apc' = "pop"
    /\ UNCHANGED <<now, heap, alive, listener, cur, renewVars>>

\* Mutant: the entry that was polled stays in the heap.
AlarmPopForgets ==
    /\ apc = "pop"
    /\ apc' = "top"
    /\ cur' = NoEntry
    /\ UNCHANGED <<now, heap, alive, listener, renewVars>>

\* `assert!(guard.pop().is_some_and(|it| it.deadline == entry_deadline))`.
\* Only an earlier entry displaces the one that was peeked from the root of
\* the heap.
AlarmPop ==
    /\ apc = "pop"
    /\ IF \A e \in heap : cur.deadline <= e.deadline
       THEN heap' = heap \ {cur} /\ apc' = "top"
       ELSE /\ \E e \in Earliest : heap' = heap \ {e}
            /\ apc' = "panic"
    /\ UNCHANGED <<now, alive, listener, cur, renewVars>>

-----------------------------------------------------------------------------
(* The rest of the kernel.                                                 *)

Tick ==
    /\ now < MaxTime
    /\ now' = now + 1
    /\ UNCHANGED <<heap, alive, listener, alarmVars, renewVars>>

\* The last reference to a task is dropped; a task being polled is held by
\* the alarm task.
DropTask(t) ==
    /\ t \in alive
    /\ rpc[t] = "idle"
    /\ apc = "poll" => cur.task # t
    /\ alive' = alive \ {t}
    /\ UNCHANGED <<now, heap, listener, alarmVars, renewVars>>

\* The bounds of the model: there is a slot for every push under way, and no
\* deadline lies after the end of time.
RoomForEntry ==
    Cardinality(heap) + Cardinality({p \in Task : rpc[p] = "push"})
        < Cardinality(Slot)

Renew(p) ==
    \/ /\ RoomForEntry
       /\ \E remained \in 1..MaxRemained :
            now + remained <= MaxTime /\ RenewStart(p, remained)
    \/ RenewPush(p)
    \/ RenewNotify(p)

AlarmStep ==
    \/ AlarmPeekEmpty
    \/ AlarmPeekExpired
    \/ AlarmPeekLater
    \/ AlarmListen
    \/ AlarmCheckEmpty
    \/ AlarmCheckTimer
    \/ AlarmWake
    \/ AlarmPolled
    \/ AlarmPop

Next ==
    \/ \E p \in Task : Renew(p)
    \/ AlarmStep
    \/ Tick
    \/ \E t \in Thread : DropTask(t)

Spec == Init /\ [][Next]_vars

\* Every task that can run does run, and time passes.  No thread has to use
\* a timer.
Fairness ==
    /\ WF_vars(Tick)
    /\ WF_vars(AlarmStep)
    /\ \A p \in Task : WF_vars(RenewPush(p)) /\ WF_vars(RenewNotify(p))

FairSpec == Spec /\ Fairness

-----------------------------------------------------------------------------
(* Properties.                                                             *)

Sleeping == apc \in {"waitEmpty", "waitTimer"} /\ listener = "registered"

\* An entry the sleeping alarm task does not know of: any entry when it sleeps
\* without a timeout, an earlier one than its timeout otherwise.
Unseen(e) == apc = "waitEmpty" \/ e.deadline < cur.deadline

\* The alarm task never sleeps past a deadline: when the heap holds an entry
\* earlier than the one alarm_task sleeps for, a task is between its push and
\* its notify.  This is what registering the listener before the second look
\* at the heap, and the should_wake test under the lock, are for.
NoMissedDeadline ==
    (Sleeping /\ \E e \in heap : Unseen(e)) => \E p \in Task : rpc[p] = "notify"

\* No timer is forgotten early: an entry leaves the heap only once its deadline
\* has passed, whatever was pushed or notified between the look at the heap and
\* the pop.
NeverEarly == [][\A e \in heap \ heap' : e.deadline <= now]_vars

\* The assertion of alarm_task (time.rs:252): the entry that is popped has the
\* deadline of the entry that was peeked.
PopAssertion ==
    apc = "pop" =>
        /\ \E e \in heap : e.deadline = cur.deadline
        /\ \A e \in heap : cur.deadline <= e.deadline

\* Every deadline that has passed is dealt with: its entry leaves the heap.
ExpiredIsPopped ==
    \A s \in Slot :
        (\E e \in heap : e.slot = s /\ e.deadline <= now)
            ~> (apc = "panic" \/ ~ \E e \in heap : e.slot = s /\ e.deadline <= now)
=============================================================================
