-------------------------- MODULE AlarmListProofs --------------------------
(* Proofs about AlarmList: its types, and that alarm_task neither sleeps    *)
(* past a deadline nor discards an entry early, for any number of threads,  *)
(* entries and instants.                                                    *)
EXTENDS AlarmList, TLAPS

\* From the peek to the pop, alarm_task's entry stays in the heap: only
\* alarm_task removes entries.
CurInHeap ==
    /\ apc \in {"poll", "pop", "listenTimer", "checkTimer", "waitTimer"}
         => cur \in heap
    /\ apc \in {"poll", "pop"} => cur.deadline <= now

IInv == TypeOK /\ CurInHeap /\ NoMissedDeadline

-----------------------------------------------------------------------------
\* The initial state satisfies the inductive invariant.
LEMMA InitIInv == Init => IInv
BY AlarmAssumption
   DEF Init, IInv, TypeOK, CurInHeap, NoMissedDeadline, Sleeping, Task, AlarmPc

\* Every step keeps the types (RenewPush and AlarmPop change the heap).
LEMMA TypeStep == TypeOK /\ CurInHeap /\ [Next]_vars => TypeOK'
<1> SUFFICES ASSUME TypeOK, CurInHeap, [Next]_vars PROVE TypeOK'
  OBVIOUS
<1> USE DEF TypeOK
<1>1. ASSUME NEW p \in Task, Renew(p) PROVE TypeOK'
  <2>1. ASSUME NEW r \in 1..MaxRemained, RenewStart(p, r) PROVE TypeOK'
    <3>1. now + r \in Nat
      BY <2>1, TimeAssumption
    <3> QED
      BY <2>1, <3>1 DEF RenewStart, alarmVars
  <2>2. CASE RenewPush(p)
    <3>1. PICK s \in FreeSlot :
            heap' = heap \cup {[slot |-> s, deadline |-> dl[p], task |-> p]}
      BY <2>2 DEF RenewPush
    <3>2. [slot |-> s, deadline |-> dl[p], task |-> p] \in Entry
      BY <3>1 DEF Entry, FreeSlot
    <3> QED
      BY <2>2, <3>1, <3>2 DEF RenewPush, alarmVars
  <2>3. CASE RenewNotify(p)
    BY <2>3 DEF RenewNotify, alarmVars
  <2> QED
    BY <1>1, <2>1, <2>2, <2>3 DEF Renew
<1>2. CASE AlarmStep
  <2>1. Earliest \subseteq heap
    BY DEF Earliest
  <2>2. CASE AlarmPop
    BY <2>1, <2>2 DEF AlarmPop, renewVars, AlarmPc
  <2>3. CASE AlarmPeekExpired
    BY <2>1, <2>3 DEF AlarmPeekExpired, renewVars, AlarmPc
  <2>4. CASE AlarmPeekLater
    BY <2>1, <2>4 DEF AlarmPeekLater, renewVars, AlarmPc
  <2>5. CASE AlarmPeekEmpty \/ AlarmPolled
    BY <2>5 DEF AlarmPeekEmpty, AlarmPolled, renewVars, AlarmPc
  <2>6. CASE AlarmListen \/ AlarmWake
    BY <2>6 DEF AlarmListen, AlarmWake, renewVars, AlarmPc
  <2>7. CASE AlarmCheckEmpty \/ AlarmCheckTimer
    BY <2>7 DEF AlarmCheckEmpty, AlarmCheckTimer, renewVars, AlarmPc
  <2> QED
    BY <1>2, <2>2, <2>3, <2>4, <2>5, <2>6, <2>7 DEF AlarmStep
<1>3. CASE Tick
  BY <1>3 DEF Tick, alarmVars, renewVars
<1>4. ASSUME NEW t \in Thread, DropTask(t) PROVE TypeOK'
  BY <1>4 DEF DropTask, alarmVars, renewVars
<1>5. CASE UNCHANGED vars
  BY <1>5 DEF vars
<1> QED
  BY <1>1, <1>2, <1>3, <1>4, <1>5 DEF Next

\* Every step keeps the entry alarm_task works on in the heap.
LEMMA CurStep == TypeOK /\ CurInHeap /\ [Next]_vars => CurInHeap'
<1> SUFFICES ASSUME TypeOK, CurInHeap, [Next]_vars PROVE CurInHeap'
  OBVIOUS
<1> USE DEF TypeOK, CurInHeap
<1>1. ASSUME NEW p \in Task, Renew(p) PROVE CurInHeap'
  BY <1>1 DEF Renew, RenewStart, RenewPush, RenewNotify, alarmVars
<1>2. CASE AlarmStep
  <2>1. Earliest \subseteq heap
    BY DEF Earliest
  <2>2. CASE AlarmPop
    BY <2>2 DEF AlarmPop, renewVars
  <2>3. CASE AlarmPeekExpired \/ AlarmPeekLater
    BY <2>1, <2>3 DEF AlarmPeekExpired, AlarmPeekLater, renewVars
  <2>4. CASE AlarmPeekEmpty \/ AlarmPolled \/ AlarmListen
    BY <2>4 DEF AlarmPeekEmpty, AlarmPolled, AlarmListen, renewVars
  <2>5. CASE AlarmWake \/ AlarmCheckEmpty \/ AlarmCheckTimer
    BY <2>5 DEF AlarmWake, AlarmCheckEmpty, AlarmCheckTimer, renewVars
  <2> QED
    BY <1>2, <2>2, <2>3, <2>4, <2>5 DEF AlarmStep
<1>3. CASE Tick
  <2>1. apc \in {"poll", "pop"} => cur.deadline \in Nat
    BY DEF Entry
  <2> QED
    BY <1>3, <2>1 DEF Tick, alarmVars, renewVars
<1>4. ASSUME NEW t \in Thread, DropTask(t) PROVE CurInHeap'
  BY <1>4 DEF DropTask, alarmVars, renewVars
<1>5. CASE UNCHANGED vars
  BY <1>5 DEF vars
<1> QED
  BY <1>1, <1>2, <1>3, <1>4, <1>5 DEF Next

\* A task that pushes an entry the sleeping alarm task does not know of has
\* found the heap's first entry later than its own, and will notify; or an
\* unknown entry was there already, and another task is about to notify.
LEMMA MissedRenew ==
    ASSUME IInv, NEW p \in Task, Renew(p)
    PROVE  NoMissedDeadline'
<1> USE DEF IInv, TypeOK, NoMissedDeadline, Sleeping, Unseen
<1>1. ASSUME NEW r \in 1..MaxRemained, RenewStart(p, r) PROVE NoMissedDeadline'
  BY <1>1 DEF RenewStart, MayRenew, alarmVars
<1>2. CASE RenewPush(p)
  <2> SUFFICES ASSUME Sleeping', NEW e \in heap', Unseen(e)'
               PROVE  \E q \in Task : rpc'[q] = "notify"
    OBVIOUS
  <2>1. apc' = apc /\ cur' = cur /\ listener' = listener
    BY <1>2 DEF RenewPush, alarmVars
  <2>2. CASE \E f \in heap : Unseen(f)
    <3>1. PICK q \in Task : rpc[q] = "notify"
      BY <2>1, <2>2
    <3>2. rpc'[q] = "notify"
      BY <1>2, <3>1 DEF RenewPush
    <3> QED
      BY <3>2
  <2>3. CASE ~ \E f \in heap : Unseen(f)
    <3>1. e.deadline = dl[p] /\ e \notin heap
      BY <1>2, <2>1, <2>3 DEF RenewPush
    <3>2. \A f \in heap : f.deadline > dl[p]
      <4> SUFFICES ASSUME NEW f \in heap PROVE f.deadline > dl[p]
        OBVIOUS
      <4>1. apc = "waitTimer" /\ dl[p] < cur.deadline /\ ~ Unseen(f)
        BY <2>1, <2>3, <3>1
      <4>2. cur \in Entry /\ f \in Entry
        BY <4>1 DEF CurInHeap
      <4> QED
        BY <4>1, <4>2 DEF Entry
    <3> QED
      BY <1>2, <3>2 DEF RenewPush
  <2> QED
    BY <2>2, <2>3
<1>3. CASE RenewNotify(p)
  BY <1>3 DEF RenewNotify, alarmVars
<1> QED
  BY <1>1, <1>2, <1>3 DEF Renew

\* alarm_task falls asleep only after it has seen, with its listener in place,
\* that no entry is earlier than the one it sleeps for.
LEMMA MissedAlarm ==
    ASSUME IInv, AlarmStep
    PROVE  NoMissedDeadline'
<1> USE DEF IInv, TypeOK, NoMissedDeadline, Sleeping, Unseen
<1>1. CASE AlarmCheckEmpty
  BY <1>1 DEF AlarmCheckEmpty, renewVars
<1>2. CASE AlarmCheckTimer
  <2>1. CASE \E e \in Earliest : e.deadline = cur.deadline
    <3>1. cur \in Entry /\ \A f \in heap : f \in Entry /\ cur.deadline <= f.deadline
      BY <1>2, <2>1 DEF AlarmCheckTimer, CurInHeap, Earliest
    <3>2. \A f \in heap : ~ (f.deadline < cur.deadline)
      BY <3>1 DEF Entry
    <3>3. apc' = "waitTimer" /\ heap' = heap /\ cur' = cur
      BY <1>2, <2>1 DEF AlarmCheckTimer
    <3> QED
      BY <3>2, <3>3
  <2>2. CASE ~ \E e \in Earliest : e.deadline = cur.deadline
    BY <1>2, <2>2 DEF AlarmCheckTimer
  <2> QED
    BY <2>1, <2>2
<1>3. CASE AlarmPeekEmpty \/ AlarmPeekExpired \/ AlarmPeekLater \/ AlarmListen
  BY <1>3 DEF AlarmPeekEmpty, AlarmPeekExpired, AlarmPeekLater, AlarmListen
<1>4. CASE AlarmWake \/ AlarmPolled \/ AlarmPop
  BY <1>4 DEF AlarmWake, AlarmPolled, AlarmPop
<1> QED
  BY <1>1, <1>2, <1>3, <1>4 DEF AlarmStep

\* The inductive invariant is kept by every step.
LEMMA IInvStep == IInv /\ [Next]_vars => IInv'
<1> SUFFICES ASSUME IInv, [Next]_vars PROVE IInv'
  OBVIOUS
<1>1. TypeOK' /\ CurInHeap'
  BY TypeStep, CurStep DEF IInv
<1>2. NoMissedDeadline'
  <2>1. CASE \E p \in Task : Renew(p)
    BY <2>1, MissedRenew
  <2>2. CASE AlarmStep
    BY <2>2, MissedAlarm
  <2>3. CASE Tick \/ \E t \in Thread : DropTask(t)
    BY <2>3 DEF Tick, DropTask, alarmVars, renewVars, IInv, NoMissedDeadline,
                Sleeping, Unseen
  <2>4. CASE UNCHANGED vars
    BY <2>4 DEF vars, IInv, NoMissedDeadline, Sleeping, Unseen
  <2> QED
    BY <2>1, <2>2, <2>3, <2>4 DEF Next
<1> QED
  BY <1>1, <1>2 DEF IInv

\* The inductive invariant holds in every state alarm_task and the timers reach.
LEMMA Invariance == Spec => []IInv
BY InitIInv, IInvStep, PTL DEF Spec

-----------------------------------------------------------------------------
\* The state of the alarm list is well typed in every reachable state.
THEOREM TypeCorrect == Spec => []TypeOK
<1>1. IInv => TypeOK
  BY DEF IInv
<1> QED
  BY Invariance, <1>1, PTL

\* alarm_task never sleeps past a deadline: an entry earlier than the one it
\* sleeps for is there only while its notification is on the way.
THEOREM AlarmNeverMissesDeadline == Spec => []NoMissedDeadline
<1>1. IInv => NoMissedDeadline
  BY DEF IInv
<1> QED
  BY Invariance, <1>1, PTL

\* No entry leaves the heap before its deadline, even when the assertion of
\* alarm_task fails.
THEOREM AlarmNeverEarly == Spec => NeverEarly
<1>1. ASSUME IInv, [Next]_vars
      PROVE  [\A e \in heap \ heap' : e.deadline <= now]_vars
  <2> SUFFICES ASSUME NEW e \in heap, e \notin heap' PROVE e.deadline <= now
    OBVIOUS
  <2>1. AlarmPop
    <3>1. CASE \E p \in Task : Renew(p)
      BY <3>1 DEF Renew, RenewStart, RenewPush, RenewNotify
    <3>2. CASE AlarmStep
      BY <3>2 DEF AlarmStep, AlarmPeekEmpty, AlarmPeekExpired, AlarmPeekLater,
                  AlarmListen, AlarmCheckEmpty, AlarmCheckTimer, AlarmWake,
                  AlarmPolled
    <3>3. CASE Tick \/ \E t \in Thread : DropTask(t)
      BY <3>3 DEF Tick, DropTask
    <3>4. CASE UNCHANGED vars
      BY <3>4 DEF vars
    <3> QED
      BY <1>1, <3>1, <3>2, <3>3, <3>4 DEF Next
  <2>2. cur \in heap /\ cur.deadline <= now
    BY <1>1, <2>1 DEF AlarmPop, IInv, CurInHeap
  <2>3. e = cur \/ e \in Earliest
    BY <2>1 DEF AlarmPop
  <2>4. e.deadline <= cur.deadline
    BY <1>1, <2>2, <2>3 DEF Earliest, IInv, TypeOK, Entry
  <2> QED
    BY <1>1, <2>2, <2>4 DEF IInv, TypeOK, Entry
<1> QED
  BY Invariance, <1>1, PTL DEF Spec, NeverEarly
=============================================================================
