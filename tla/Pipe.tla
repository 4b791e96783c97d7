-------------------------------- MODULE Pipe --------------------------------
(***************************************************************************)
(* A pipe (api/src/file/pipe.rs): the ring buffer two Pipe objects share,  *)
(* reads and writes that block in poll_io, resize (F_SETPIPE_SZ),          *)
(* set_nonblocking, and the drop of either end.                            *)
(*                                                                         *)
(* Every step between two acquisitions of the buffer's lock, or between    *)
(* the lock and a PollSet or the reference count, is an action of its own. *)
(* poll_io and PollSet belong to the axtask and axpoll crates:  poll_io    *)
(* tries the operation, registers the task's waker, tries once more, and   *)
(* sleeps; PollSet::wake wakes and forgets every waker.                    *)
(***************************************************************************)
EXTENDS Naturals, Sequences

CONSTANTS
    Reader,     \* the tasks that read
    Writer,     \* the tasks that write
    Capacity,   \* the sizes of a ring, in whole pages (a bound)
    InitCap,    \* RING_BUFFER_INIT_SIZE
    MaxBytes,   \* the bytes a writer ever writes (a bound)
    Want        \* the sizes of the buffers passed to read (a bound)

ASSUME RoleAssumption == Reader \cap Writer = {}
ASSUME SizeAssumption ==
    /\ Capacity \subseteq Nat \ {0}
    /\ InitCap \in Capacity
    /\ MaxBytes \in Nat
    /\ Want \subseteq Nat \ {0}

Task == Reader \cup Writer
Side == {"read", "write"}

VARIABLES
    cap,       \* capacity of the ring
    first,     \* the read index of the ring
    data,      \* the bytes in the ring, oldest first
    nb,        \* non_blocking of each end
    end,       \* "open": some fd refers to the end; then its Pipe is dropped:
               \* "closing" (no fd is left), "waked" (poll_close is), "gone"
    pc,        \* where a task is
    again,     \* it is the second try of poll_io
    nonblocking, \* poll_io's argument of that name
    want,      \* a reader's room in dst, a writer's bytes left in src
    poll,      \* poll_rx (the readers in it), poll_tx (the writers), poll_close
    notified,  \* the tasks whose waker has been called
    put,       \* history: how many bytes a writer has put in
    got        \* history: how many of a writer's bytes have been read

ring == <<cap, first, data>>
hist == <<put, got>>
vars == <<ring, nb, end, pc, again, nonblocking, want, poll, notified, hist>>

ReadPc == {"idle", "look", "wakeTx", "closed", "register", "asleep"}
WritePc == {"idle", "closed", "push", "wakeRx", "register", "asleep"}

TypeOK ==
    /\ cap \in Capacity
    /\ first \in 0 .. cap - 1
    /\ data \in Seq(Writer \X (1 .. MaxBytes)) /\ Len(data) <= cap
    /\ nb \in [Side -> BOOLEAN]
    /\ end \in [Side -> {"open", "closing", "waked", "gone"}]
    /\ pc \in [Task -> ReadPc \cup WritePc]
    /\ \A r \in Reader : pc[r] \in ReadPc
    /\ \A w \in Writer : pc[w] \in WritePc
    /\ again \in [Task -> BOOLEAN]
    /\ nonblocking \in [Task -> BOOLEAN]
    /\ want \in [Task -> Nat]
    /\ poll \in [{"rx", "tx", "close"} -> SUBSET Task]
    /\ notified \in SUBSET Task
    /\ put \in [Writer -> 0 .. MaxBytes]
    /\ got \in [Writer -> 0 .. MaxBytes]

Init ==
    /\ cap = InitCap /\ first = 0 /\ data = <<>>
    /\ nb \in {[s \in Side |-> b] : b \in BOOLEAN}
    /\ end = [s \in Side |-> "open"]
    /\ pc = [t \in Task |-> "idle"]
    /\ again = [t \in Task |-> FALSE]
    /\ nonblocking = [t \in Task |-> FALSE]
    /\ want = [t \in Task |-> 0]
    /\ poll = [p \in {"rx", "tx", "close"} |-> {}]
    /\ notified = {}
    /\ put = [w \in Writer |-> 0]
    /\ got = [w \in Writer |-> 0]

SideOf(t) == IF t \in Reader THEN "read" ELSE "write"
PollOf(t) == IF t \in Reader THEN "rx" ELSE "tx"

-----------------------------------------------------------------------------
(* The ring: HeapRb of the ringbuf crate.                                  *)

Least(m, n) == IF m <= n THEN m ELSE n

\* as_slices: the bytes up to the end of the memory, then the wrapped ones.
LeftSlice == SubSeq(data, 1, Least(Len(data), cap - first))
RightSlice == SubSeq(data, Len(LeftSlice) + 1, Len(data))

\* What `dst.write(left)`, then `dst.write(right)` if the left one was
\* copied whole, put in a buffer with room for n bytes.
Copied(n) ==
    LET l == SubSeq(LeftSlice, 1, Least(n, Len(LeftSlice)))
    IN  IF Len(l) >= Len(LeftSlice)
        THEN l \o SubSeq(RightSlice, 1, Least(n - Len(l), Len(RightSlice)))
        ELSE l

\* The next n bytes of a writer.
Source(w, n) == [i \in 1 .. n |-> <<w, put[w] + i>>]

-----------------------------------------------------------------------------
(* poll_io and PollSet.                                                    *)

Goto(t, l) == pc' = [pc EXCEPT ![t] = l]

\* The call returns; ps and ns are the poll sets and the woken tasks its last
\* step leaves.  Wakers of a call that is over are of no use any more.
Leave(t, ps, ns) ==
    /\ Goto(t, "idle")
    /\ again' = [again EXCEPT ![t] = FALSE]
    /\ nonblocking' = [nonblocking EXCEPT ![t] = FALSE]
    /\ want' = [want EXCEPT ![t] = 0]
    /\ poll' = [p \in DOMAIN poll |-> ps[p] \ {t}]
    /\ notified' = ns \ {t}

Return(t) == Leave(t, poll, notified)

\* The operation says WouldBlock.
WouldBlock(t, ps, ns) ==
    IF nonblocking[t]
    THEN Leave(t, ps, ns)
    ELSE /\ Goto(t, IF again[t] THEN "asleep" ELSE "register")
         /\ poll' = ps /\ notified' = ns
         /\ UNCHANGED <<again, nonblocking, want>>

\* PollSet::wake: what is left in the sets, and the woken tasks.
Drained(p) == [poll EXCEPT ![p] = {}]
Woken(p) == notified \cup poll[p]

First(t) == IF t \in Reader THEN "look" ELSE "closed"

\* Pipe::register, then the second try.
Register(t) ==
    /\ pc[t] = "register"
    /\ poll' = [poll EXCEPT ![PollOf(t)] = @ \cup {t}, !["close"] = @ \cup {t}]
    /\ again' = [again EXCEPT ![t] = TRUE]
    /\ Goto(t, First(t))
    /\ UNCHANGED <<ring, nb, end, nonblocking, want, notified, hist>>

\* The waker of a sleeping task was called: the future is polled again.
Resume(t) ==
    /\ pc[t] = "asleep"
    /\ t \in notified
    /\ notified' = notified \ {t}
    /\ again' = [again EXCEPT ![t] = FALSE]
    /\ Goto(t, First(t))
    /\ UNCHANGED <<ring, nb, end, nonblocking, want, poll, hist>>

\* A signal interrupts the call.
Interrupted(t) ==
    /\ pc[t] = "asleep"
    /\ Return(t)
    /\ UNCHANGED <<ring, nb, end, hist>>

-----------------------------------------------------------------------------
(* Pipe::read by r.                                                        *)

\* A task enters the call through an fd of its end.
ReadCall(r, n) ==
    /\ pc[r] = "idle"
    /\ end["read"] = "open"
    /\ nonblocking' = [nonblocking EXCEPT ![r] = nb["read"]]
    /\ want' = [want EXCEPT ![r] = n]
    /\ Goto(r, "look")
    /\ UNCHANGED <<ring, nb, end, again, poll, notified, hist>>

\* Under the lock: copy what fits and advance the read index.
ReadLook(r) ==
    /\ pc[r] = "look"
    /\ LET taken == Copied(want[r])
           n == Len(taken)
       IN  /\ data' = SubSeq(data, n + 1, Len(data))
           /\ first' = (first + n) % cap
           /\ got' = [w \in Writer |->
                        got[w] + Len(SelectSeq(taken, LAMBDA b : b[1] = w))]
           /\ Goto(r, IF n > 0 THEN "wakeTx" ELSE "closed")
    /\ UNCHANGED <<cap, nb, end, again, nonblocking, want, poll, notified, put>>

\* Mutant: writers are not woken.
ReadWakeNobody(r) ==
    /\ pc[r] = "wakeTx"
    /\ Return(r)
    /\ UNCHANGED <<ring, nb, end, hist>>

\* poll_tx.wake() and return.
ReadWake(r) ==
    /\ pc[r] = "wakeTx"
    /\ Leave(r, Drained("tx"), Woken("tx"))
    /\ UNCHANGED <<ring, nb, end, hist>>

\* Nothing was read: the end of the stream if the other Pipe is gone.
ReadClosed(r) ==
    /\ pc[r] = "closed"
    /\ IF end["write"] = "gone" THEN Return(r) ELSE WouldBlock(r, poll, notified)
    /\ UNCHANGED <<ring, nb, end, hist>>

-----------------------------------------------------------------------------
(* Pipe::write by w.                                                       *)

WriteCall(w, n) ==
    /\ pc[w] = "idle"
    /\ end["write"] = "open"
    /\ put[w] + n <= MaxBytes
    /\ nonblocking' = [nonblocking EXCEPT ![w] = nb["write"]]
    /\ want' = [want EXCEPT ![w] = n]
    /\ Goto(w, "closed")
    /\ UNCHANGED <<ring, nb, end, again, poll, notified, hist>>

\* The other Pipe is gone: SIGPIPE and BrokenPipe.
WriteClosed(w) ==
    /\ pc[w] = "closed"
    /\ IF end["read"] = "gone"
       THEN Return(w)
       ELSE Goto(w, "push") /\ UNCHANGED <<again, nonblocking, want, poll, notified>>
    /\ UNCHANGED <<ring, nb, end, hist>>

\* Under the lock: fill the ring, advance the write index.
WritePush(w) ==
    /\ pc[w] = "push"
    /\ LET n == Least(want[w], cap - Len(data))
       IN  /\ data' = data \o Source(w, n)
           /\ put' = [put EXCEPT ![w] = @ + n]
           /\ IF n > 0
              THEN /\ Goto(w, "wakeRx")
                   /\ want' = [want EXCEPT ![w] = @ - n]
                   /\ UNCHANGED <<again, nonblocking, poll, notified>>
              ELSE WouldBlock(w, poll, notified)
    /\ UNCHANGED <<cap, first, nb, end, got>>

\* Mutant: the wrong poll set is woken.
WriteWakesWriters(w) ==
    /\ pc[w] = "wakeRx"
    /\ IF want[w] = 0 \/ nb["write"]
       THEN Leave(w, Drained("tx"), Woken("tx"))
       ELSE WouldBlock(w, Drained("tx"), Woken("tx"))
    /\ UNCHANGED <<ring, nb, end, hist>>

\* poll_rx.wake(); then the write is complete, or the end is nonblocking, or
\* the rest has to wait.
WriteWake(w) ==
    /\ pc[w] = "wakeRx"
    /\ IF want[w] = 0 \/ nb["write"]
       THEN Leave(w, Drained("rx"), Woken("rx"))
       ELSE WouldBlock(w, Drained("rx"), Woken("rx"))
    /\ UNCHANGED <<ring, nb, end, hist>>

-----------------------------------------------------------------------------
(* The other operations.                                                   *)

\* Mutant: the wrapped bytes are not copied to the new ring.
ResizeLeftOnly(c) ==
    /\ c # cap
    /\ c >= Len(data)
    /\ cap' = c
    /\ first' = 0
    /\ data' = LeftSlice
    /\ UNCHANGED <<nb, end, pc, again, nonblocking, want, poll, notified, hist>>

\* Pipe::resize, through an fd of either end: a new ring with the old bytes.
\* Nobody is woken.
Resize(c) ==
    /\ \E s \in Side : end[s] = "open"
    /\ c # cap
    /\ c >= Len(data)
    /\ cap' = c
    /\ first' = 0
    /\ data' = LeftSlice \o RightSlice
    /\ UNCHANGED <<nb, end, pc, again, nonblocking, want, poll, notified, hist>>

\* Pipe::set_nonblocking.
SetNonblocking(s, b) ==
    /\ end[s] = "open"
    /\ nb[s] # b
    /\ nb' = [nb EXCEPT ![s] = b]
    /\ UNCHANGED <<ring, end, pc, again, nonblocking, want, poll, notified, hist>>

\* The last fd of an end is closed.  A call in progress holds the Pipe.
Close(s) ==
    /\ end[s] = "open"
    /\ end' = [end EXCEPT ![s] = "closing"]
    /\ UNCHANGED <<ring, nb, pc, again, nonblocking, want, poll, notified, hist>>

\* Drop for Pipe: poll_close.wake(), while `shared` is still counted.
DropWake(s) ==
    /\ end[s] = "closing"
    /\ \A t \in Task : SideOf(t) = s => pc[t] = "idle"
    /\ end' = [end EXCEPT ![s] = "waked"]
    /\ poll' = Drained("close")
    /\ notified' = Woken("close")
    /\ UNCHANGED <<ring, nb, pc, again, nonblocking, want, hist>>

\* Then the fields are dropped, `shared` among them.
DropShared(s) ==
    /\ end[s] = "waked"
    /\ end' = [end EXCEPT ![s] = "gone"]
    /\ UNCHANGED <<ring, nb, pc, again, nonblocking, want, poll, notified, hist>>

-----------------------------------------------------------------------------
Read(r) ==
    \/ \E n \in Want : ReadCall(r, n)
    \/ ReadLook(r) \/ ReadWake(r) \/ ReadClosed(r)

Write(w) ==
    \/ \E n \in 1 .. MaxBytes : WriteCall(w, n)
    \/ WriteClosed(w) \/ WritePush(w) \/ WriteWake(w)

Wait(t) == Register(t) \/ Resume(t) \/ Interrupted(t)

Control ==
    \/ \E c \in Capacity : Resize(c)
    \/ \E s \in Side, b \in BOOLEAN : SetNonblocking(s, b)
    \/ \E s \in Side : Close(s) \/ DropWake(s) \/ DropShared(s)

Next ==
    \/ \E r \in Reader : Read(r)
    \/ \E w \in Writer : Write(w)
    \/ \E t \in Task : Wait(t)
    \/ Control

Spec == Init /\ [][Next]_vars

-----------------------------------------------------------------------------
(* Properties.                                                             *)

Asleep(t) == pc[t] = "asleep" /\ t \notin notified

\* The largest ring there can be.
MaxCap == CHOOSE c \in Capacity : \A d \in Capacity : d <= c

Stream == INSTANCE ByteStream WITH
    stream <- data, sent <- put, received <- got, Limit <- MaxCap

\* The pipe is a byte stream: the ring holds the bytes on their way, a try of write puts
\* some in, a try of read takes the oldest out, and everything else, wraps, resizes,
\* interruptions and closes included, leaves the bytes alone.
IsByteStream == Stream!StreamSpec

\* No reader sleeps on bytes: when there are some, a writer that has put bytes
\* in is on its way to wake every reader that sleeps.
NoSleepOnData ==
    (data # <<>> /\ \E r \in Reader : Asleep(r)) => \E w \in Writer : pc[w] = "wakeRx"

\* No writer sleeps on an empty pipe, resizes or not: a reader that has taken
\* the last byte is on its way to wake it.  With NoSleepOnData, a pipe never
\* comes to rest with a reader and a writer both asleep.
NoSleepOnRoom ==
    (data = <<>> /\ \E w \in Writer : Asleep(w)) => \E r \in Reader : pc[r] = "wakeTx"
=============================================================================
