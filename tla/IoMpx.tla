------------------------------- MODULE IoMpx -------------------------------
(***************************************************************************)
(* I/O multiplexing: eventfds, an epoll instance over them, and tasks in   *)
(* poll, ppoll, select and pselect6 (api/src/syscall/io_mpx) that watch    *)
(* the eventfds and the epoll instance themselves.                         *)
(***************************************************************************)
EXTENDS Epoll

CONSTANTS
    Workload, \* how many calls each task makes, in the cases looked at (a bound)
    Ep        \* the epoll instance, as a file

ASSUME IoMpxAssumption ==
    /\ Ep \notin File
    /\ Workload \subseteq [Task -> Nat]

VARIABLES
    left,     \* the files its loop has yet to come to
    calls     \* the calls a task has yet to make

mpxVars == <<watch, left>>
vars == <<eventVars, epollVars, mpxVars, calls>>

Watched == File \cup {Ep}

Init ==
    /\ EventInit
    /\ EpollInit
    /\ watch = [p \in Poller |-> [f \in Watched |-> {}]]
    /\ left = [p \in Poller |-> {}]
    /\ calls \in Workload

\* Pollable::poll of an eventfd or of the epoll instance.
PollOf(f) == IF f = Ep THEN IF ready_queue = <<>> THEN {} ELSE {"IN"} ELSE Poll(f)

Hit(p, f) == PollOf(f) \cap watch[p][f] # {}
Asked(p) == {f \in Watched : watch[p][f] # {}}

\* do_poll, do_select: the files are looked up.  A bad fd ends the call at once,
\* with POLLNVAL or BadFileDescriptor.
PollCall(p, wanted) ==
    /\ pc[p] = "idle"
    /\ \A f \in File : wanted[f] # {} => f \in open
    /\ watch' = [watch EXCEPT ![p] = wanted]
    /\ left' = [left EXCEPT ![p] = {f \in Watched : wanted[f] # {}}]
    /\ Goto(p, "try")
    /\ UNCHANGED <<fileVars, polls, op, again, notified, waking, epollVars>>

\* The call returns.
PollReturn(p) ==
    /\ Leave(p)
    /\ polls' = Without(p)
    /\ poll_ready' = poll_ready \ {p}
    /\ watch' = [watch EXCEPT ![p] = [f \in Watched |-> {}]]
    /\ left' = [left EXCEPT ![p] = {}]

\* One file of the loop.  Once something is ready, the rest of it only adds to
\* the result.
Look(p) ==
    /\ pc[p] = "try"
    /\ \E f \in left[p] :
        IF Hit(p, f)
        THEN PollReturn(p)
        ELSE /\ left' = [left EXCEPT ![p] = @ \ {f}]
             /\ UNCHANGED <<taskVars, polls, poll_ready, watch>>
    /\ UNCHANGED <<fileVars, op, waking, interest, interests, ready_queue, held,
                   popped, reported, fires>>

\* Nothing is: WouldBlock, which poll_io is never asked not to wait for.
Missed(p) ==
    /\ pc[p] = "try"
    /\ left[p] = {}
    /\ Goto(p, IF again[p] THEN "asleep" ELSE "register")
    /\ left' = [left EXCEPT ![p] = IF again[p] THEN {} ELSE Asked(p)]
    /\ UNCHANGED <<fileVars, polls, op, again, notified, waking, epollVars, watch>>

\* Mutant: only the first file gets the waker.
PollRegisterOne(p) ==
    /\ pc[p] = "register"
    /\ \E f \in left[p] :
        /\ polls' = IF f = Ep THEN polls
                    ELSE [polls EXCEPT ![f] = [e \in Event |->
                            IF e \in watch[p][f] THEN @[e] \cup {p} ELSE @[e]]]
        /\ poll_ready' = IF f = Ep THEN poll_ready \cup {p} ELSE poll_ready
    /\ left' = [left EXCEPT ![p] = Asked(p)]
    /\ again' = [again EXCEPT ![p] = TRUE]
    /\ Goto(p, "try")
    /\ UNCHANGED <<fileVars, op, notified, waking, interest, interests, ready_queue,
                   held, popped, reported, fires, watch>>

\* FdPollSet::register: file by file, and then the loop again.
PollRegister(p) ==
    /\ pc[p] = "register"
    /\ \E f \in left[p] :
        /\ polls' = IF f = Ep THEN polls
                    ELSE [polls EXCEPT ![f] = [e \in Event |->
                            IF e \in watch[p][f] THEN @[e] \cup {p} ELSE @[e]]]
        /\ poll_ready' = IF f = Ep THEN poll_ready \cup {p} ELSE poll_ready
        /\ IF left[p] = {f}
           THEN /\ left' = [left EXCEPT ![p] = Asked(p)]
                /\ again' = [again EXCEPT ![p] = TRUE]
                /\ Goto(p, "try")
           ELSE /\ left' = [left EXCEPT ![p] = @ \ {f}]
                /\ UNCHANGED <<again, pc>>
    /\ UNCHANGED <<fileVars, op, notified, waking, interest, interests, ready_queue,
                   held, popped, reported, fires, watch>>

PollResume(p) ==
    /\ ResumeTask(p)
    /\ left' = [left EXCEPT ![p] = Asked(p)]
    /\ UNCHANGED <<fileVars, op, waking, epollVars, watch>>

\* The timeout, or a signal.
PollOver(p) ==
    /\ pc[p] = "asleep"
    /\ PollReturn(p)
    /\ UNCHANGED <<fileVars, op, waking, interest, interests, ready_queue, held,
                   popped, reported, fires>>

-----------------------------------------------------------------------------
Wanted == {w \in [Watched -> Mask \cup {{}}] :
              w[Ep] \subseteq {"IN"} /\ \E f \in Watched : w[f] # {}}

PollStep(p) ==
    \/ \E w \in Wanted : PollCall(p, w)
    \/ Look(p) \/ Missed(p)
    \/ PollRegister(p) \/ PollResume(p) \/ PollOver(p)

Step ==
    \/ /\ (\E u \in User : UserStep(u)) \/ FileStep
       /\ UNCHANGED <<epollVars, mpxVars>>
    \/ /\ \/ \E u \in User : WakeInterest(u)
          \/ \E t \in User \cup Controller : WakerStep(t)
          \/ \E c \in Controller : CtlStep(c)
          \/ \E w \in Waiter : WaitStep(w)
       /\ UNCHANGED mpxVars
    \/ \E p \in Poller : PollStep(p)

Next ==
    /\ Step
    /\ \A t \in Task : pc[t] = "idle" /\ pc'[t] # "idle" => calls[t] > 0
    /\ calls' = [t \in Task |->
                    IF pc[t] = "idle" /\ pc'[t] # "idle" THEN calls[t] - 1 ELSE calls[t]]

Spec == Init /\ [][Next]_vars

-----------------------------------------------------------------------------
(* Properties.                                                             *)

TypeOK ==
    /\ CountBelowMax
    /\ open \subseteq File
    /\ polls \in [File -> [Event -> SUBSET (Task \cup Entry)]]
    /\ notified \subseteq Task /\ poll_ready \subseteq Waiter \cup Poller
    /\ waking \in [Task -> SUBSET Entry]
    /\ op \in [User -> Operation]
    /\ interests \in [File -> Entry \cup {None}]
    /\ ready_queue \in Seq(Entry)
    /\ held \in [Task -> Entry \cup {None}]
    /\ popped \in [Waiter -> Entry \cup {None}]
    /\ reported \in [Waiter -> 0 .. MaxEvents]
    /\ watch \in [Poller -> [Watched -> SUBSET Event]]
    /\ left \in [Poller -> SUBSET Watched]

\* No task sleeps in poll or select while an eventfd it watches is ready, unless
\* whoever made it so is about to wake it.
PollerNotStranded ==
    \A p \in Poller : Asleep(p) =>
        \A f \in File : \A e \in watch[p][f] \cap Poll(f) : OnItsWay(f, e)
=============================================================================
