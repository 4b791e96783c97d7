------------------------------ MODULE ITimers ------------------------------
(***************************************************************************)
(* The interval timers of core/src/time.rs (ITimer, TimeManager) on top of *)
(* the alarm list.  A thread polls its own timers whenever it enters or    *)
(* leaves the kernel (set_timer_state), alarm_task polls those of a thread *)
(* that has an entry in the heap (poll_timer), and setitimer replaces one. *)
(*                                                                         *)
(* The RefCell around a thread's TimeManager is borrowed for the whole of  *)
(* a poll or a setitimer; its flag is read and set in one step.  User and  *)
(* system time are not counted.                                            *)
(***************************************************************************)
EXTENDS AlarmList, Sequences

CONSTANTS
    None,
    Workload   \* the types of timer each thread sets, in the cases looked at (a bound)

VARIABLES
    timer,      \* itimers of a thread: interval and remaining time by type
    last,       \* last_wall_ns
    state,      \* the TimerState
    borrower,   \* the task that has borrowed `time` mutably, or None
    poll,       \* a task's poll under way
    tpc,        \* where a thread is
    new,        \* the timer its setitimer is about to install
    signalled,  \* the types whose signal has been sent and not delivered
    load,       \* the types of timer it may still set
    lost,       \* history: the real timer is armed, but its entry is not filed
                \* under the thread, or was popped without a poll
    panicked    \* a borrow of a TimeManager that is borrowed

timerVars == <<timer, last, state, borrower, poll, tpc, new, signalled, load, lost, panicked>>
tvars == <<vars, timerVars>>

Kind == {"real", "virtual", "prof"}
Off == [interval |-> 0, remained |-> 0]
NoPoll == [of |-> None, seen |-> 0, delta |-> 0, todo |-> <<>>, into |-> "none"]
Polled == [NoPoll EXCEPT !.of = Alarm]

TInit ==
    /\ Init
    /\ timer = [t \in Thread |-> [k \in Kind |-> Off]]
    /\ last = [t \in Thread |-> 0]
    /\ state = [t \in Thread |-> "none"]
    /\ borrower = [t \in Thread |-> None]
    /\ poll = [p \in Task |-> NoPoll]
    /\ tpc = [t \in Thread |-> "user"]
    /\ new = [t \in Thread |-> [kind |-> None, value |-> Off]]
    /\ signalled = [t \in Thread |-> {}]
    /\ load \in Workload
    /\ lost = [t \in Thread |-> FALSE]
    /\ panicked = FALSE

-----------------------------------------------------------------------------
(* TimeManager::poll for thread t, run by p.                               *)

\* The timers that run in a state, in the order they are updated.
Ticking(st) ==
    CASE st = "user" -> <<"virtual", "prof", "real">>
      [] st = "kernel" -> <<"prof", "real">>
      [] st = "none" -> <<"real">>

\* try_borrow_mut succeeds and the clock is read.
PollBegin(p, t, into) ==
    /\ borrower[t] = None
    /\ borrower' = [borrower EXCEPT ![t] = p]
    /\ poll' = [poll EXCEPT ![p] = [of |-> t, seen |-> now, delta |-> now - last[t],
                                    todo |-> Ticking(state[t]), into |-> into]]

\* ITimer::update, and the signal; an interval timer is renewed by the task that
\* polls it.
Expires(tm, delta) == tm.remained > 0 /\ tm.remained <= delta

\* Mutant: the timer that has expired is rewound, but not renewed.
RenewsNever(p, tm) == UNCHANGED vars

Renews(p, tm) ==
    IF tm.interval > 0
    THEN RoomForEntry /\ now + tm.interval <= MaxTime /\ RenewStart(p, tm.interval)
    ELSE UNCHANGED vars

PollTimer(p) ==
    /\ poll[p].todo # <<>> /\ rpc[p] = "idle"
    /\ LET t == poll[p].of
           k == Head(poll[p].todo)
           tm == timer[t][k]
       IN  IF Expires(tm, poll[p].delta)
           THEN /\ timer' = [timer EXCEPT ![t][k].remained = tm.interval]
                /\ Renews(p, tm)
                /\ signalled' = [signalled EXCEPT ![t] = @ \cup {k}]
                /\ lost' = IF k = "real" THEN [lost EXCEPT ![t] = p = Alarm] ELSE lost
           ELSE /\ timer' = IF tm.remained = 0 THEN timer
                            ELSE [timer EXCEPT ![t][k].remained = @ - poll[p].delta]
                /\ UNCHANGED <<vars, signalled, lost>>
    /\ poll' = [poll EXCEPT ![p].todo = Tail(@)]
    /\ UNCHANGED <<last, state, borrower, tpc, new, load, panicked>>

PollEnd(p) ==
    /\ poll[p].of \in Thread /\ poll[p].todo = <<>> /\ rpc[p] = "idle"
    /\ LET t == poll[p].of
       IN  /\ last' = [last EXCEPT ![t] = poll[p].seen]
           /\ borrower' = [borrower EXCEPT ![t] = None]
           /\ IF p = Alarm
              THEN poll' = [poll EXCEPT ![p] = Polled] /\ UNCHANGED <<state, tpc>>
              ELSE /\ poll' = [poll EXCEPT ![p] = NoPoll]
                   /\ state' = [state EXCEPT ![t] = poll[p].into]
                   /\ tpc' = [tpc EXCEPT ![t] = poll[p].into]
    /\ UNCHANGED <<vars, timer, new, signalled, load, lost, panicked>>

-----------------------------------------------------------------------------
(* The threads.                                                            *)

\* set_timer_state, on entry to the kernel and on the way back, where pending
\* signals are delivered first; nothing happens when alarm_task is polling.
SetTimerState(t, from, into) ==
    /\ t \in alive /\ tpc[t] = from
    /\ IF borrower[t] = None
       THEN PollBegin(t, t, into) /\ tpc' = [tpc EXCEPT ![t] = "polling"]
       ELSE tpc' = [tpc EXCEPT ![t] = into] /\ UNCHANGED <<borrower, poll>>
    /\ signalled' = IF into = "user" THEN [signalled EXCEPT ![t] = {}] ELSE signalled
    /\ UNCHANGED <<vars, timer, last, state, new, load, lost, panicked>>

\* sys_setitimer: `borrow_mut` panics when alarm_task is polling; ITimer::new
\* renews the timer before it takes the place of the old one.
Setitimer(t, k, tm) ==
    /\ t \in alive /\ tpc[t] = "kernel"
    /\ IF borrower[t] # None
       THEN panicked' = TRUE /\ UNCHANGED <<vars, borrower, new, tpc, lost>>
       ELSE /\ borrower' = [borrower EXCEPT ![t] = t]
            /\ new' = [new EXCEPT ![t] = [kind |-> k, value |-> tm]]
            /\ tpc' = [tpc EXCEPT ![t] = "setting"]
            /\ IF tm.remained > 0
               THEN RoomForEntry /\ now + tm.remained <= MaxTime /\ RenewStart(t, tm.remained)
               ELSE UNCHANGED vars
            /\ lost' = IF k = "real" THEN [lost EXCEPT ![t] = FALSE] ELSE lost
            /\ UNCHANGED panicked
    /\ UNCHANGED <<timer, last, state, poll, signalled>>

\* Mutant: the entries of the old timer are taken off the heap.
SetitimerDoneForgets(t) ==
    /\ tpc[t] = "setting" /\ rpc[t] = "idle"
    /\ timer' = [timer EXCEPT ![t][new[t].kind] = new[t].value]
    /\ heap' = IF new[t].value = Off THEN {e \in heap : e.task # t} ELSE heap
    /\ borrower' = [borrower EXCEPT ![t] = None]
    /\ new' = [new EXCEPT ![t] = [kind |-> None, value |-> Off]]
    /\ tpc' = [tpc EXCEPT ![t] = "kernel"]
    /\ UNCHANGED <<now, alive, listener, alarmVars, renewVars>>
    /\ UNCHANGED <<last, state, poll, signalled, load, lost, panicked>>

SetitimerDone(t) ==
    /\ tpc[t] = "setting" /\ rpc[t] = "idle"
    /\ timer' = [timer EXCEPT ![t][new[t].kind] = new[t].value]
    /\ borrower' = [borrower EXCEPT ![t] = None]
    /\ new' = [new EXCEPT ![t] = [kind |-> None, value |-> Off]]
    /\ tpc' = [tpc EXCEPT ![t] = "kernel"]
    /\ UNCHANGED <<vars, last, state, poll, signalled, load, lost, panicked>>

\* sys_getitimer and sys_times: `borrow` panics as well.
Getitimer(t) ==
    /\ t \in alive /\ tpc[t] = "kernel" /\ borrower[t] # None
    /\ panicked' = TRUE
    /\ UNCHANGED <<vars, timer, last, state, borrower, poll, tpc, new, signalled, load, lost>>

\* The thread sleeps in a system call until a signal arrives.
Block(t) ==
    /\ t \in alive /\ tpc[t] = "kernel" /\ signalled[t] = {}
    /\ tpc' = [tpc EXCEPT ![t] = "asleep"]
    /\ UNCHANGED <<vars, timer, last, state, borrower, poll, new, signalled, load, lost, panicked>>

Unblock(t) ==
    /\ tpc[t] = "asleep" /\ signalled[t] # {}
    /\ tpc' = [tpc EXCEPT ![t] = "kernel"]
    /\ UNCHANGED <<vars, timer, last, state, borrower, poll, new, signalled, load, lost, panicked>>

-----------------------------------------------------------------------------
(* poll_timer by alarm_task: of a thread, unless its time is borrowed.     *)

PollTimerBegin ==
    /\ apc = "poll" /\ poll[Alarm] = NoPoll
    /\ IF cur.task \in Thread /\ borrower[cur.task] = None
       THEN PollBegin(Alarm, cur.task, "none") /\ UNCHANGED lost
       ELSE /\ poll' = [poll EXCEPT ![Alarm] = Polled]
            /\ lost' = IF cur.task \in Thread THEN [lost EXCEPT ![cur.task] = TRUE] ELSE lost
            /\ UNCHANGED borrower
    /\ UNCHANGED <<vars, timer, last, state, tpc, new, signalled, load, panicked>>

PollTimerEnd ==
    /\ poll[Alarm] = Polled
    /\ AlarmPolled
    /\ poll' = [poll EXCEPT ![Alarm] = NoPoll]
    /\ UNCHANGED <<timer, last, state, borrower, tpc, new, signalled, load, lost, panicked>>

\* The steps of the alarm list that a poll is not part of.
AlarmListStep ==
    /\ \/ AlarmPeekEmpty \/ AlarmPeekExpired \/ AlarmPeekLater \/ AlarmListen
       \/ AlarmCheckEmpty \/ AlarmCheckTimer \/ AlarmWake \/ AlarmPop
       \/ \E p \in Task : RenewPush(p) \/ RenewNotify(p)
       \/ Tick
       \/ \E t \in Thread : tpc[t] = "kernel" /\ DropTask(t)
    /\ UNCHANGED timerVars

Setting == [interval : 0 .. 1, remained : 0 .. MaxRemained]

\* The bounds of the model: the types of timer a thread sets are those of the
\* case, and a thread that has no timer and sets none any more need not move.
MaySet(t) == load[t] # <<>> /\ load' = [load EXCEPT ![t] = Tail(@)]
MayMove(t) == load[t] # <<>> \/ \E k \in Kind : timer[t][k].remained > 0

TNext ==
    /\ ~panicked
    /\ \/ \E p \in Task : PollTimer(p) \/ PollEnd(p)
       \/ \E t \in Thread :
            \/ MayMove(t) /\ (SetTimerState(t, "user", "kernel") \/ SetTimerState(t, "kernel", "user"))
            \/ MaySet(t) /\ \E tm \in Setting : Setitimer(t, Head(load[t]), tm)
            \/ SetitimerDone(t) \/ Getitimer(t) \/ Block(t) \/ Unblock(t)
       \/ PollTimerBegin \/ PollTimerEnd
       \/ AlarmListStep

TSpec == TInit /\ [][TNext]_tvars

-----------------------------------------------------------------------------
\* The alarm list with the timers behaves as the alarm list alone: every step of
\* a poll, of setitimer and of alarm_task is one of AlarmList or none, so what is
\* proved of AlarmList holds here.
IsAlarmList == Spec

\* The entries that will have alarm_task poll thread t.
Filed(t) ==
    {e.deadline : e \in {f \in heap : f.task = t}}
        \cup (IF rpc[t] = "push" THEN {dl[t]} ELSE {})

\* A real timer that is armed expires even if its thread sleeps in the kernel: the
\* heap has an entry for the thread, no earlier than a poll has to be made for the
\* timer to expire in it, through every setitimer, expiry, renewal and poll of
\* either task.  What a renewal by alarm_task files is an entry of alarm_task, and
\* an entry can be popped while the thread holds the borrow: then it is `lost`.
ArmedIsFiled ==
    \A t \in alive :
        timer[t]["real"].remained > 0 /\ tpc[t] # "setting" /\ ~lost[t] =>
            \E d \in Filed(t) : last[t] + timer[t]["real"].remained <= d
=============================================================================
