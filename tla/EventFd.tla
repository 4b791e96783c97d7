------------------------------ MODULE EventFd ------------------------------
(***************************************************************************)
(* Eventfds (api/src/file/event.rs) and the tasks that read and write      *)
(* them: a counter below MAX, a read that waits for it to be positive, a   *)
(* write that waits for room, and the two PollSets a waker is left in.     *)
(*                                                                         *)
(* The wakers in a PollSet are those of tasks, which a wake marks as       *)
(* notified, and others (Entry): the interests of an epoll instance.  What *)
(* calling one of those does is told by the module that knows them; here   *)
(* the calling task only takes them out of the set.                        *)
(***************************************************************************)
EXTENDS Naturals

CONSTANTS
    File,     \* the eventfds
    Task,     \* every task
    User,     \* the tasks that read and write eventfds
    Entry,    \* the wakers that are not tasks
    MAX,      \* u64::MAX
    Value     \* the values written (a bound)

ASSUME EventFdAssumption ==
    /\ MAX \in Nat \ {0}
    /\ Value \subseteq 0 .. MAX - 1
    /\ User \subseteq Task
    /\ Task \cap Entry = {}

Event == {"IN", "OUT"}

VARIABLES
    count,         \* the counter of each eventfd
    semaphore,     \* whether a read takes one or everything
    open,          \* the eventfds some fd refers to
    polls,         \* polls[f]["IN"] is poll_rx of f, polls[f]["OUT"] poll_tx
    pc,            \* where a task is
    op,            \* the operation a user is in: file, event, value, nonblocking
    again,         \* it is the second try of poll_io
    notified,      \* the tasks whose waker has been called
    waking         \* the other wakers a task took out and has yet to call

fileVars == <<count, semaphore, open>>
taskVars == <<pc, again, notified>>
eventVars == <<fileVars, polls, taskVars, op, waking>>

Operation ==
    {o \in [file : File, event : Event, value : Value \cup {0}, nb : BOOLEAN] :
        o.event = "IN" => o.value = 0}

\* What op holds of a user that is in no call.
NoOp == CHOOSE o \in Operation : o.event = "IN"

EventInit ==
    /\ count = [f \in File |-> 0]
    /\ semaphore \in [File -> BOOLEAN]
    /\ open = File
    /\ polls = [f \in File |-> [e \in Event |-> {}]]
    /\ pc = [t \in Task |-> "idle"]
    /\ op = [u \in User |-> NoOp]
    /\ again = [t \in Task |-> FALSE]
    /\ notified = {}
    /\ waking = [t \in Task |-> {}]

\* EventFd::poll.
Poll(f) == {e \in Event : IF e = "IN" THEN count[f] > 0 ELSE MAX - 1 > count[f]}

-----------------------------------------------------------------------------
(* poll_io, of axtask, and PollSet, of axpoll.                             *)

Goto(t, l) == pc' = [pc EXCEPT ![t] = l]

\* block_on returns: wakers of a call that is over are of no use any more.
Without(t) == [f \in File |-> [e \in Event |-> polls[f][e] \ {t}]]

Leave(t) ==
    /\ Goto(t, "idle")
    /\ again' = [again EXCEPT ![t] = FALSE]
    /\ notified' = notified \ {t}

\* The operation says WouldBlock.
WouldBlock(t, nb) ==
    IF nb
    THEN Leave(t) /\ polls' = Without(t)
    ELSE /\ Goto(t, IF again[t] THEN "asleep" ELSE "register")
         /\ UNCHANGED <<again, notified, polls>>

Finish(u) == op' = [op EXCEPT ![u] = NoOp]

\* The waker of a sleeping task was called: the future is polled again.
ResumeTask(t) ==
    /\ pc[t] = "asleep"
    /\ t \in notified
    /\ notified' = notified \ {t}
    /\ again' = [again EXCEPT ![t] = FALSE]
    /\ Goto(t, "try")
    /\ UNCHANGED polls

-----------------------------------------------------------------------------
(* EventFd::read and EventFd::write by u.                                  *)

\* nb is what set_nonblocking has last made of the file's flag.
Call(u, o) ==
    /\ pc[u] = "idle"
    /\ o.file \in open
    /\ op' = [op EXCEPT ![u] = o]
    /\ Goto(u, "try")
    /\ UNCHANGED <<fileVars, polls, again, notified, waking>>

\* Mutant: the counter may reach MAX.
FitsMax(f, v) == MAX - count[f] >= v

Fits(f, v) == MAX - count[f] > v

\* fetch_update.
Try(u) ==
    /\ pc[u] = "try"
    /\ LET f == op[u].file
           taken == IF semaphore[f] THEN 1 ELSE count[f]
           can == IF op[u].event = "IN" THEN count[f] > 0 ELSE Fits(f, op[u].value)
       IN  IF can
           THEN /\ count' = [count EXCEPT ![f] =
                    IF op[u].event = "IN" THEN @ - taken ELSE @ + op[u].value]
                /\ Goto(u, "wake")
                /\ UNCHANGED <<again, notified, polls, op>>
           ELSE /\ WouldBlock(u, op[u].nb)
                /\ IF op[u].nb THEN Finish(u) ELSE UNCHANGED op
                /\ UNCHANGED count
    /\ UNCHANGED <<semaphore, open, waking>>

\* The future registers its waker, and tries again.
Register(u) ==
    /\ pc[u] = "register"
    /\ polls' = [polls EXCEPT ![op[u].file][op[u].event] = @ \cup {u}]
    /\ again' = [again EXCEPT ![u] = TRUE]
    /\ Goto(u, "try")
    /\ UNCHANGED <<count, semaphore, open, op, notified, waking>>

Resume(u) == ResumeTask(u) /\ UNCHANGED <<fileVars, op, waking>>

\* A signal interrupts the call.
Interrupted(u) ==
    /\ pc[u] = "asleep"
    /\ Leave(u) /\ Finish(u)
    /\ polls' = Without(u)
    /\ UNCHANGED <<fileVars, waking>>

\* A read wakes poll_tx, a write poll_rx.
Other(e) == IF e = "IN" THEN "OUT" ELSE "IN"

\* Mutant: a read wakes readers, a write writers.
WakeSame(u) ==
    /\ pc[u] = "wake"
    /\ LET f == op[u].file
           woken == polls[f][op[u].event]
       IN  /\ polls' = [polls EXCEPT ![f][op[u].event] = {}]
           /\ notified' = notified \cup (woken \cap Task)
           /\ waking' = [waking EXCEPT ![u] = woken \cap Entry]
    /\ Goto(u, "waking")
    /\ UNCHANGED <<fileVars, op, again>>

Wake(u) ==
    /\ pc[u] = "wake"
    /\ LET f == op[u].file
           e == Other(op[u].event)
           woken == polls[f][e]
       IN  /\ polls' = [polls EXCEPT ![f][e] = {}]
           /\ notified' = notified \cup (woken \cap Task)
           /\ waking' = [waking EXCEPT ![u] = woken \cap Entry]
    /\ Goto(u, "waking")
    /\ UNCHANGED <<fileVars, op, again>>

\* Every waker has been called.
Return(u) ==
    /\ pc[u] = "waking"
    /\ waking[u] = {}
    /\ Leave(u) /\ Finish(u)
    /\ polls' = Without(u)
    /\ UNCHANGED <<fileVars, waking>>

-----------------------------------------------------------------------------
\* The last fd of f is closed.
CloseFd(f) ==
    /\ f \in open
    /\ open' = open \ {f}
    /\ UNCHANGED <<count, semaphore, polls, taskVars, op, waking>>

UserStep(u) ==
    \/ \E o \in Operation : Call(u, o)
    \/ Try(u) \/ Register(u) \/ Resume(u) \/ Interrupted(u) \/ Wake(u) \/ Return(u)

FileStep == \E f \in File : CloseFd(f)

-----------------------------------------------------------------------------
(* Properties.                                                             *)

Asleep(t) == pc[t] = "asleep" /\ t \notin notified

\* The task that has changed the counter of f is on its way to the PollSet of e.
OnItsWay(f, e) ==
    \E u \in User : pc[u] = "wake" /\ op[u].file = f /\ Other(op[u].event) = e

\* The counter never reaches MAX: fetch_update in write leaves the last value
\* unused, and the two tests of poll and of write agree on that.
CountBelowMax == \A f \in File : count[f] \in 0 .. MAX - 1

\* No task sleeps in a read of an eventfd that has a count, nor in a write
\* that fits, unless whoever made that so is about to wake it.
UserNotStranded ==
    \A u \in User : Asleep(u) =>
        LET f == op[u].file
            e == op[u].event
        IN  (IF e = "IN" THEN count[f] > 0 ELSE Fits(f, op[u].value)) => OnItsWay(f, e)
=============================================================================
