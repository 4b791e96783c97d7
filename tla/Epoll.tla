------------------------------- MODULE Epoll -------------------------------
(***************************************************************************)
(* One epoll instance (api/src/file/epoll.rs) over eventfds: the table of  *)
(* interests, the ready queue of weak references to them, the wakers it    *)
(* leaves in the files' PollSets, epoll_ctl (add, modify, delete) and      *)
(* poll_events in the poll_io loop of epoll_wait.                          *)
(*                                                                         *)
(* The locks of the table and of the queue are held for one statement      *)
(* each, so every statement is a step.  An interest is an object, alive    *)
(* while the table or a task in one of the functions refers to it: the     *)
(* queue and the wakers hold weak references.                              *)
(***************************************************************************)
EXTENDS EventFd, Sequences, FiniteSets

CONSTANTS
    Waiter,      \* the tasks that call epoll_wait
    Controller,  \* the tasks that call epoll_ctl
    MaxEvents,   \* maxevents of epoll_wait
    Poller,      \* the tasks that call poll or select
    Mask,        \* the sets of events asked for (a bound)
    None         \* no interest

ASSUME EpollAssumption ==
    /\ Waiter \cup Controller \cup Poller \subseteq Task
    /\ MaxEvents \in Nat \ {0}
    /\ Mask \subseteq SUBSET Event
    /\ None \notin Entry

Mode == {"Level", "Edge", "OneShot", "Fired"}

VARIABLES
    interest,     \* the objects: file, mask, mode and in_ready_queue of each
    interests,    \* the table: the interest of each file, or None
    ready_queue,
    poll_ready,   \* the tasks with a waker in the PollSet of the instance
    held,         \* the interest a task holds a strong reference to, or None
    popped,       \* the weak reference a waiter is about to put back, or None
    watch,        \* what a task in poll or select asks of each file it holds
    reported,     \* how many events poll_events has put in `out` so far
    fires         \* history: how often the interest has been reported

epollVars == <<interest, interests, ready_queue, poll_ready, held, popped,
               reported, fires>>

\* EpollInterest::new.
NewInterest(f, m, d, q) == [file |-> f, mask |-> m, mode |-> d, queued |-> q]

\* What stands for an object that is not there.
Blank == NewInterest(CHOOSE f \in File : TRUE, {}, "Level", FALSE)

EpollInit ==
    /\ interest = [i \in Entry |-> Blank]
    /\ interests = [f \in File |-> None]
    /\ ready_queue = <<>>
    /\ poll_ready = {}
    /\ held = [t \in Task |-> None]
    /\ popped = [w \in Waiter |-> None]
    /\ reported = [t \in Waiter |-> 0]
    /\ fires = [i \in Entry |-> 0]

\* is_enabled.
Enabled(i) == interest[i].mode # "Fired"

Alive(i) == (\E f \in File : interests[f] = i) \/ (\E t \in Task : held[t] = i)
InQueue(i) == \E k \in DOMAIN ready_queue : ready_queue[k] = i

\* A strong reference was dropped; obj and ps are the objects and the PollSets as
\* the step leaves them.  Calling the waker of a dead object does nothing, so the
\* sets are kept free of those.
Swept(obj, ps) ==
    LET alive(i) == (\E f \in File : interests'[f] = i) \/ (\E t \in Task : held'[t] = i)
    IN  /\ polls' = [f \in File |-> [e \in Event |->
                        {w \in ps[f][e] : w \in Task \/ alive(w)}]]
        /\ interest' = [i \in Entry |-> IF alive(i) THEN obj[i] ELSE Blank]
        /\ fires' = [i \in Entry |-> IF alive(i) THEN fires[i] ELSE 0]

\* EntryKey::get_file: a call in progress on a file holds it.
FileAlive(f) ==
    \/ f \in open
    \/ \E u \in User : pc[u] # "idle" /\ op[u].file = f
    \/ \E p \in Poller : watch[p][f] # {}
    \/ \E t \in Waiter \cup Controller :
            held[t] # None /\ pc[t] # "check" /\ interest[held[t]].file = f

\* A number no weak reference is left of, for a new object.
Fresh(i) ==
    /\ ~Alive(i) /\ ~InQueue(i)
    /\ \A w \in Waiter : popped[w] # i
    /\ \A t \in Task : i \notin waking[t]

-----------------------------------------------------------------------------
(* InterestWaker::wake_by_ref, called by a user from the PollSet of the    *)
(* file it has changed or by a controller.                                 *)

\* Mutant: the flag is not looked at.
MarkAlways(t, i, back) ==
    IF Alive(i)
    THEN /\ interest' = [interest EXCEPT ![i].queued = TRUE]
         /\ held' = [held EXCEPT ![t] = i]
         /\ Goto(t, "push")
    ELSE back /\ UNCHANGED <<interest, held>>

\* Upgrade the reference and try_mark_in_queue; `back` if there is no more to do.
Mark(t, i, back) ==
    IF Alive(i) /\ ~interest[i].queued
    THEN /\ interest' = [interest EXCEPT ![i].queued = TRUE]
         /\ held' = [held EXCEPT ![t] = i]
         /\ Goto(t, "push")
    ELSE back /\ UNCHANGED <<interest, held>>

WakeInterest(u) ==
    /\ pc[u] = "waking"
    /\ \E i \in waking[u] :
        /\ waking' = [waking EXCEPT ![u] = @ \ {i}]
        /\ Mark(u, i, UNCHANGED pc)
    /\ UNCHANGED <<fileVars, polls, op, again, notified, interests, ready_queue,
                   poll_ready, popped, reported, fires>>

Push(t) ==
    /\ pc[t] = "push"
    /\ ready_queue' = Append(ready_queue, held[t])
    /\ Goto(t, "wakeReady")
    /\ UNCHANGED <<fileVars, polls, op, again, notified, waking, interest, interests,
                   poll_ready, held, popped, reported, fires>>

\* poll_ready.wake(); the strong reference is dropped.
WakeReady(t) ==
    /\ pc[t] = "wakeReady"
    /\ notified' = notified \cup poll_ready
    /\ poll_ready' = {}
    /\ held' = [held EXCEPT ![t] = None]
    /\ UNCHANGED interests
    /\ Swept(interest, polls)
    /\ Goto(t, IF t \in User THEN "waking" ELSE "idle")
    /\ UNCHANGED <<fileVars, op, again, waking, ready_queue, popped, reported>>

-----------------------------------------------------------------------------
(* epoll_ctl by c.                                                         *)

\* TriggerMode::from_flags never makes a one-shot that has fired.
NewMode == Mode \ {"Fired"}

\* add: the table gets the interest, unless it has one (AlreadyExists).
Add(c, f, m, d, i) ==
    /\ pc[c] = "idle"
    /\ f \in open
    /\ interests[f] = None
    /\ Fresh(i)
    /\ interest' = [interest EXCEPT ![i] = NewInterest(f, m, d, FALSE)]
    /\ interests' = [interests EXCEPT ![f] = i]
    /\ held' = [held EXCEPT ![c] = i]
    /\ Goto(c, "check")
    /\ UNCHANGED <<fileVars, polls, op, again, notified, waking, ready_queue,
                   poll_ready, popped, reported, fires>>

\* modify: a new interest replaces the old one, and takes over its flag.
Modify(c, f, m, d, i) ==
    /\ pc[c] = "idle"
    /\ f \in open
    /\ interests[f] # None
    /\ Fresh(i)
    /\ interests' = [interests EXCEPT ![f] = i]
    /\ held' = [held EXCEPT ![c] = i]
    /\ LET q == interest[interests[f]].queued
       IN  Swept([interest EXCEPT ![i] = NewInterest(f, m, d, q)], polls)
    /\ Goto(c, "check")
    /\ UNCHANGED <<fileVars, op, again, notified, waking, ready_queue, poll_ready,
                   popped, reported>>

Delete(c, f) ==
    /\ pc[c] = "idle"
    /\ f \in open
    /\ interests[f] # None
    /\ interests' = [interests EXCEPT ![f] = None]
    /\ UNCHANGED held
    /\ Swept(interest, polls)
    /\ UNCHANGED <<fileVars, taskVars, op, waking, ready_queue, poll_ready, popped,
                   reported>>

Matched(i) == Poll(interest[i].file) \cap interest[i].mask

\* The controller is done with the interest.
Drop(c) ==
    /\ held' = [held EXCEPT ![c] = None]
    /\ UNCHANGED interests
    /\ Swept(interest, polls)
    /\ Goto(c, "idle")

\* check_and_register_waker: a file that is ready is queued at once ...
Check(c) ==
    /\ pc[c] = "check"
    /\ LET i == held[c]
       IN  \/ /\ ~FileAlive(interest[i].file)
              /\ Drop(c)
           \/ /\ FileAlive(interest[i].file)
              /\ Matched(i) = {}
              /\ Goto(c, "ctlRegister")
              /\ UNCHANGED <<interest, interests, held, polls, fires>>
           \/ /\ FileAlive(interest[i].file)
              /\ Matched(i) # {}
              /\ IF interest[i].queued
                 THEN Drop(c)
                 ELSE Mark(c, i, FALSE) /\ UNCHANGED <<interests, polls, fires>>
    /\ UNCHANGED <<fileVars, op, again, notified, waking, ready_queue, poll_ready,
                   popped, reported>>

LeaveWaker(i) ==
    [polls EXCEPT ![interest[i].file] = [e \in Event |->
        IF e \in interest[i].mask THEN @[e] \cup {i} ELSE @[e]]]

\* ... any other gets the waker, and is looked at once more.
CtlRegister(c) ==
    /\ pc[c] = "ctlRegister"
    /\ polls' = LeaveWaker(held[c])
    /\ Goto(c, "recheck")
    /\ UNCHANGED <<fileVars, op, again, notified, waking, epollVars>>

Recheck(c) ==
    /\ pc[c] = "recheck"
    /\ LET i == held[c]
       IN  IF Matched(i) # {} /\ ~interest[i].queued
           THEN Mark(c, i, FALSE) /\ UNCHANGED <<interests, polls, fires>>
           ELSE Drop(c)
    /\ UNCHANGED <<fileVars, op, again, notified, waking, ready_queue, poll_ready,
                   popped, reported>>

-----------------------------------------------------------------------------
(* epoll_wait by w: poll_events, inside poll_io.                           *)

EpollWait(w) ==
    /\ pc[w] = "idle"
    /\ Goto(w, "try")
    /\ UNCHANGED <<fileVars, polls, op, again, notified, waking, epollVars>>

\* pop_front.
Pop(w) ==
    /\ pc[w] = "try"
    /\ ready_queue # <<>>
    /\ LET i == Head(ready_queue)
           f == interest[i].file
       IN  /\ ready_queue' = Tail(ready_queue)
           /\ \/ /\ reported[w] >= MaxEvents
                 /\ popped' = [popped EXCEPT ![w] = i]
                 /\ Goto(w, "unpop")
                 /\ UNCHANGED <<interest, interests, held, polls, fires>>
              \/ /\ reported[w] < MaxEvents /\ ~Alive(i)
                 /\ UNCHANGED <<pc, interest, interests, held, popped, polls, fires>>
              \/ /\ reported[w] < MaxEvents /\ Alive(i) /\ ~FileAlive(f)
                 /\ interests' = [interests EXCEPT ![f] = None]
                 /\ UNCHANGED <<pc, held, popped>>
                 /\ Swept([interest EXCEPT ![i].queued = FALSE], polls)
              \/ /\ reported[w] < MaxEvents /\ Alive(i) /\ FileAlive(f)
                 /\ held' = [held EXCEPT ![w] = i]
                 /\ Goto(w, "consume")
                 /\ UNCHANGED <<interest, interests, popped, polls, fires>>
    /\ UNCHANGED <<fileVars, op, again, notified, waking, poll_ready, reported>>

\* `out` is full: push_front, and return what there is.
Unpop(w) ==
    /\ pc[w] = "unpop"
    /\ ready_queue' = <<popped[w]>> \o ready_queue
    /\ popped' = [popped EXCEPT ![w] = None]
    /\ reported' = [reported EXCEPT ![w] = 0]
    /\ poll_ready' = poll_ready \ {w}
    /\ Leave(w)
    /\ UNCHANGED <<fileVars, polls, op, waking, interest, interests, held, fires>>

\* The queue is empty: return the events, or WouldBlock.
Empty(w) ==
    /\ pc[w] = "try"
    /\ ready_queue = <<>>
    /\ IF reported[w] > 0
       THEN /\ Leave(w)
            /\ poll_ready' = poll_ready \ {w}
            /\ UNCHANGED polls
       ELSE WouldBlock(w, FALSE) /\ UNCHANGED poll_ready
    /\ reported' = [reported EXCEPT ![w] = 0]
    /\ UNCHANGED <<fileVars, op, waking, interest, interests, ready_queue, held,
                   popped, fires>>

\* Mutant: a one-shot that has fired fires again.
NotifyFired(i) == TRUE

\* should_notify.
ShouldNotify(i) == interest[i].mode # "Fired"

\* consume: poll the file, then the mode decides.
Consume(w) ==
    /\ pc[w] = "consume"
    /\ LET i == held[w]
           event == Matched(i) # {} /\ ShouldNotify(i)
       IN  /\ interest' = IF event /\ interest[i].mode = "OneShot"
                          THEN [interest EXCEPT ![i].mode = "Fired"]
                          ELSE interest
           /\ reported' = IF event THEN [reported EXCEPT ![w] = @ + 1] ELSE reported
           /\ fires' = IF event /\ interest[i].mode \in {"OneShot", "Fired"}
                       THEN [fires EXCEPT ![i] = @ + 1]
                       ELSE fires
           /\ Goto(w, IF event /\ interest[i].mode = "Level" THEN "keep" ELSE "unmark")
    /\ UNCHANGED <<fileVars, polls, op, again, notified, waking, interests,
                   ready_queue, poll_ready, held, popped>>

\* EventAndKeep: push_back; the loop goes on.
Keep(w) ==
    /\ pc[w] = "keep"
    /\ ready_queue' = Append(ready_queue, held[w])
    /\ held' = [held EXCEPT ![w] = None]
    /\ UNCHANGED interests
    /\ Swept(interest, polls)
    /\ Goto(w, "try")
    /\ UNCHANGED <<fileVars, op, again, notified, waking, poll_ready, popped, reported>>

\* EventAndRemove and NoEvent: mark_not_in_queue ...
Unmark(w) ==
    /\ pc[w] = "unmark"
    /\ interest' = [interest EXCEPT ![held[w]].queued = FALSE]
    /\ Goto(w, "rearm")
    /\ UNCHANGED <<fileVars, polls, op, again, notified, waking, interests,
                   ready_queue, poll_ready, held, popped, reported, fires>>

\* Mutant: only an interest whose file was not ready gets its waker back.
RearmNot(w) ==
    /\ pc[w] = "rearm"
    /\ held' = [held EXCEPT ![w] = None]
    /\ UNCHANGED interests
    /\ Swept(interest, IF Enabled(held[w]) /\ reported[w] = 0
                       THEN LeaveWaker(held[w]) ELSE polls)
    /\ Goto(w, "try")
    /\ UNCHANGED <<fileVars, op, again, notified, waking, ready_queue, poll_ready,
                   popped, reported>>

\* ... then register_waker_only.  The file is not looked at again.
Rearm(w) ==
    /\ pc[w] = "rearm"
    /\ held' = [held EXCEPT ![w] = None]
    /\ UNCHANGED interests
    /\ Swept(interest, IF Enabled(held[w]) THEN LeaveWaker(held[w]) ELSE polls)
    /\ Goto(w, "try")
    /\ UNCHANGED <<fileVars, op, again, notified, waking, ready_queue, poll_ready,
                   popped, reported>>

\* Epoll::register.
WaitRegister(w) ==
    /\ pc[w] = "register"
    /\ poll_ready' = poll_ready \cup {w}
    /\ again' = [again EXCEPT ![w] = TRUE]
    /\ Goto(w, "try")
    /\ UNCHANGED <<fileVars, polls, op, notified, waking, interest, interests,
                   ready_queue, held, popped, reported, fires>>

WaitResume(w) ==
    /\ ResumeTask(w)
    /\ UNCHANGED <<fileVars, op, waking, epollVars>>

\* The timeout, or a signal.
WaitOver(w) ==
    /\ pc[w] = "asleep"
    /\ Leave(w)
    /\ poll_ready' = poll_ready \ {w}
    /\ UNCHANGED <<fileVars, polls, op, waking, interest, interests, ready_queue,
                   held, popped, reported, fires>>

-----------------------------------------------------------------------------
CtlStep(c) ==
    \/ \E f \in File, m \in Mask, d \in NewMode, i \in Entry :
            Add(c, f, m, d, i) \/ Modify(c, f, m, d, i)
    \/ \E f \in File : Delete(c, f)
    \/ Check(c) \/ CtlRegister(c) \/ Recheck(c)

WaitStep(w) ==
    \/ EpollWait(w) \/ Pop(w) \/ Unpop(w) \/ Empty(w)
    \/ Consume(w) \/ Keep(w) \/ Unmark(w) \/ Rearm(w)
    \/ WaitRegister(w) \/ WaitResume(w) \/ WaitOver(w)

WakerStep(t) == Push(t) \/ WakeReady(t)

-----------------------------------------------------------------------------
(* Properties.                                                             *)

\* An interest is in the ready queue, or taken out of it, or about to be put in,
\* at most once, and then its flag says so, whatever wakers, waiters and
\* epoll_ctl do at the same time.
QueuedOnce ==
    \A i \in Entry :
        LET places == {<<"queue", k>> : k \in {k \in DOMAIN ready_queue : ready_queue[k] = i}}
                 \cup {<<"pop", w>> : w \in {w \in Waiter : popped[w] = i}}
                 \cup {<<"held", t>> : t \in {t \in Task : held[t] = i
                                /\ pc[t] \in {"push", "consume", "keep", "unmark"}}}
        IN  /\ Cardinality(places) <= 1
            /\ (places # {} /\ Alive(i)) => interest[i].queued

\* A one-shot interest is reported at most once, however often wakers that were
\* already on their way put it back in the queue.
OneShotOnce == \A i \in Entry : fires[i] <= 1

\* modify leaves this: the flag of the old interest on the new one, which is not
\* the one the queue refers to.
Orphan(i) ==
    /\ interest[i].queued /\ ~InQueue(i)
    /\ \A w \in Waiter : popped[w] # i
    /\ \A t \in Task : held[t] # i

\* An interest that may still be reported is never deaf: it is queued, or a
\* waker of it waits in the file for the next event, or a task is at work on it.
\* (Not so for what modify leaves behind, and no word on the events before.)
NeverDeaf ==
    \A f \in open :
        LET i == interests[f]
        IN  (i # None /\ i \in Entry) =>
                \/ ~Enabled(i) \/ Orphan(i)
                \/ InQueue(i)
                \/ \A e \in interest[i].mask : i \in polls[f][e]
                \/ \E t \in Task : held[t] = i \/ i \in waking[t]
                \/ \E w \in Waiter : popped[w] = i
=============================================================================
