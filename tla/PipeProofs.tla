----------------------------- MODULE PipeProofs -----------------------------
(***************************************************************************)
(* Proofs about Pipe for any readers, writers and sizes: no reader sleeps  *)
(* on bytes and no writer on an empty pipe.                                *)
(***************************************************************************)
EXTENDS Pipe, SequenceTheorems, TLAPS

Byte == Writer \X Nat

\* The types the argument needs.
Shape ==
    /\ cap \in Nat \ {0}
    /\ first \in 0 .. cap - 1
    /\ data \in Seq(Byte) /\ Len(data) <= cap
    /\ nb \in [Side -> BOOLEAN]
    /\ pc \in [Task -> ReadPc \cup WritePc]
    /\ again \in [Task -> BOOLEAN]
    /\ nonblocking \in [Task -> BOOLEAN]
    /\ want \in [Task -> Nat]
    /\ poll \in [{"rx", "tx", "close"} -> SUBSET Task]
    /\ notified \in SUBSET Task
    /\ put \in [Writer -> Nat]

\* A call in progress has room for a byte, or a byte to write.
Wants == \A t \in Task : pc[t] \notin {"idle", "wakeRx", "wakeTx"} => want[t] > 0

\* From the second try on, a task is in the poll set of its side or its waker
\* has been called.  It sleeps after the second try only.
Enlisted ==
    \A t \in Task :
        /\ again[t] => t \in poll[PollOf(t)] \cup notified
        /\ pc[t] = "asleep" => again[t]
        /\ pc[t] \in {"register", "idle"} => ~ again[t]

\* A reader that found the ring empty at its second try and has not been woken
\* since: bytes have come only from writers that have still to wake.
DataSeen ==
    data # <<>> =>
        \A r \in Reader :
            (again[r] /\ pc[r] \in {"closed", "asleep"} /\ r \notin notified) =>
                \E w \in Writer : pc[w] = "wakeRx"

\* A writer that filled the ring at its second try, with bytes left to write,
\* and has not been woken since: it is empty only if a reader has still to wake.
RoomSeen ==
    data = <<>> =>
        \A w \in Writer :
            (/\ again[w] /\ w \notin notified
             /\ pc[w] = "asleep" \/ (pc[w] = "wakeRx" /\ want[w] > 0)) =>
                \E r \in Reader : pc[r] = "wakeTx"

PInv == Shape /\ Wants /\ Enlisted /\ DataSeen /\ RoomSeen

-----------------------------------------------------------------------------
(* The ring.                                                               *)

\* The two slices of the ring hold its bytes; the left one has the first.
LEMMA Slices ==
    ASSUME Shape
    PROVE  /\ LeftSlice \in Seq(Byte) /\ RightSlice \in Seq(Byte)
           /\ Len(LeftSlice) = Least(Len(data), cap - first)
           /\ Len(RightSlice) = Len(data) - Len(LeftSlice)
           /\ LeftSlice \o RightSlice = data
<1> DEFINE k == Least(Len(data), cap - first)
<1>1. data \in Seq(Byte) /\ Len(data) \in Nat /\ k \in 0 .. Len(data)
  BY DEF Shape, Least
<1>2. LeftSlice = SubSeq(data, 1, k)
  BY DEF LeftSlice
<1> HIDE DEF k
<1>3. LeftSlice \in Seq(Byte) /\ Len(LeftSlice) = k
  BY <1>1, <1>2
<1>4. RightSlice = SubSeq(data, k + 1, Len(data))
  BY <1>3 DEF RightSlice
<1>5. RightSlice \in Seq(Byte) /\ Len(RightSlice) = Len(data) - k
  BY <1>1, <1>4
<1>6. LeftSlice \o RightSlice = SubSeq(data, 1, Len(data))
  <2>1. 1 \in 1 .. Len(data) + 1 /\ k \in 1 - 1 .. Len(data) /\ Len(data) \in k .. Len(data)
    BY <1>1
  <2>2. SubSeq(data, 1, k) \o SubSeq(data, k + 1, Len(data)) = SubSeq(data, 1, Len(data))
    BY <1>1, <2>1, ConcatAdjacentSubSeq
  <2> QED BY <1>2, <1>4, <2>2
<1>7. SubSeq(data, 1, Len(data)) = data
  BY <1>1, SubSeqFull
<1> QED BY <1>3, <1>5, <1>6, <1>7 DEF k

\* A read takes at most what there is, and something if there is something.
LEMMA CopiedLen ==
    ASSUME Shape, NEW n \in Nat \ {0}
    PROVE  /\ Len(Copied(n)) \in 0 .. Len(data)
           /\ Len(Copied(n)) = 0 => data = <<>>
<1> DEFINE l == SubSeq(LeftSlice, 1, Least(n, Len(LeftSlice)))
           r == SubSeq(RightSlice, 1, Least(n - Len(l), Len(RightSlice)))
<1>1. /\ data \in Seq(Byte) /\ Len(data) \in Nat
      /\ LeftSlice \in Seq(Byte) /\ RightSlice \in Seq(Byte)
      /\ Len(LeftSlice) \in Nat /\ Len(RightSlice) \in Nat
      /\ Len(LeftSlice) + Len(RightSlice) = Len(data)
      /\ Len(LeftSlice) = 0 => Len(data) = 0
  BY Slices DEF Shape, Least
<1>2. /\ l \in Seq(Byte)
      /\ Len(l) = Least(n, Len(LeftSlice))
  BY <1>1 DEF Least
<1>3. Len(l) \in 0 .. n /\ Len(l) <= Len(LeftSlice) /\ (Len(l) = 0 => Len(LeftSlice) = 0)
  BY <1>1, <1>2 DEF Least
<1>4. Least(n - Len(l), Len(RightSlice)) \in 0 .. Len(RightSlice)
  BY <1>1, <1>3 DEF Least
<1> DEFINE k == Least(n - Len(l), Len(RightSlice))
<1>5. r \in Seq(Byte) /\ Len(r) \in 0 .. Len(RightSlice)
  <2>1. RightSlice \in Seq(Byte) /\ Len(RightSlice) \in Nat /\ k \in 0 .. Len(RightSlice)
    BY <1>1, <1>4
  <2>2. r = SubSeq(RightSlice, 1, k)
    OBVIOUS
  <2> HIDE DEF k, r
  <2> QED BY <2>1, <2>2
<1>6. Copied(n) = IF Len(l) >= Len(LeftSlice) THEN l \o r ELSE l
  BY DEF Copied
<1> HIDE DEF l, r
<1>7. Len(l \o r) = Len(l) + Len(r)
  BY <1>2, <1>5
<1>8. Len(data) = 0 => data = <<>>
  <2>1. data # <<>> => Len(data) \in Nat \ {0}
    BY <1>1, EmptySeq
  <2> QED BY <2>1
<1> QED BY <1>1, <1>3, <1>5, <1>6, <1>7, <1>8

-----------------------------------------------------------------------------
\* A new pipe (Pipe::new) satisfies the invariant.
LEMMA InitPInv == Init => PInv
<1> SUFFICES ASSUME Init PROVE PInv
  OBVIOUS
<1>1. cap \in Nat \ {0} /\ first \in 0 .. cap - 1
  BY SizeAssumption DEF Init
<1>2. data \in Seq(Byte) /\ Len(data) <= cap
  BY <1>1, EmptySeq DEF Init
<1>3. Shape
  BY <1>1, <1>2 DEF Init, Shape, ReadPc
<1>4. \A t \in Task : pc[t] = "idle" /\ ~ again[t]
  BY DEF Init
<1>5. Reader \subseteq Task /\ Writer \subseteq Task
  BY DEF Task
<1> QED BY <1>3, <1>4, <1>5 DEF PInv, Wants, Enlisted, DataSeen, RoomSeen

\* The steps of poll_io, the calls and the control operations leave the ring
\* alone; none but WriteWake and ReadWake ends a "wakeRx" or a "wakeTx".
LEMMA WaitPInv ==
    ASSUME PInv, NEW t \in Task, Wait(t)
    PROVE  PInv'
<1> USE DEF PInv, Task, PollOf, First, ring, hist
<1>1. CASE Register(t)
  <2>1. Shape'
    BY <1>1 DEF Register, Shape, Goto, ReadPc, WritePc
  <2>2. Wants' /\ Enlisted'
    BY <1>1 DEF Register, Shape, Goto, Wants, Enlisted
  <2>3. DataSeen' /\ RoomSeen'
    BY <1>1, RoleAssumption DEF Register, Shape, Goto, DataSeen, RoomSeen
  <2> QED BY <2>1, <2>2, <2>3
<1>2. CASE Resume(t)
  <2>1. Shape'
    BY <1>2 DEF Resume, Shape, Goto, ReadPc, WritePc
  <2>2. Wants' /\ Enlisted'
    BY <1>2 DEF Resume, Shape, Goto, Wants, Enlisted
  <2>3. DataSeen' /\ RoomSeen'
    BY <1>2, RoleAssumption DEF Resume, Shape, Goto, DataSeen, RoomSeen
  <2> QED BY <2>1, <2>2, <2>3
<1>3. CASE Interrupted(t)
  <2>1. Shape'
    BY <1>3 DEF Interrupted, Return, Leave, Shape, Goto, ReadPc, WritePc
  <2>2. Wants' /\ Enlisted'
    BY <1>3 DEF Interrupted, Return, Leave, Shape, Goto, Wants, Enlisted
  <2>3. DataSeen' /\ RoomSeen'
    BY <1>3, RoleAssumption DEF Interrupted, Return, Leave, Shape, Goto, DataSeen, RoomSeen
  <2> QED BY <2>1, <2>2, <2>3
<1> QED BY <1>1, <1>2, <1>3 DEF Wait

\* resize, set_nonblocking, close and Drop preserve the invariant.
LEMMA ControlPInv ==
    ASSUME PInv, Control
    PROVE  PInv'
<1> USE DEF PInv, ring, hist
<1>1. ASSUME NEW c \in Capacity, Resize(c) PROVE PInv'
  <2>1. data' = data /\ first' = 0 /\ cap' = c
    BY <1>1, Slices DEF Resize
  <2>2. Shape'
    BY <1>1, <2>1, SizeAssumption DEF Resize, Shape
  <2> QED BY <1>1, <2>1, <2>2 DEF Resize, Wants, Enlisted, DataSeen, RoomSeen
<1>2. ASSUME NEW s \in Side, NEW b \in BOOLEAN, SetNonblocking(s, b) PROVE PInv'
  BY <1>2 DEF SetNonblocking, Shape, Wants, Enlisted, DataSeen, RoomSeen
<1>3. ASSUME NEW s \in Side, Close(s) \/ DropShared(s) PROVE PInv'
  BY <1>3 DEF Close, DropShared, Shape, Wants, Enlisted, DataSeen, RoomSeen
<1>4. ASSUME NEW s \in Side, DropWake(s) PROVE PInv'
  <2>1. Shape'
    BY <1>4 DEF DropWake, Drained, Woken, Shape
  <2>2. Wants' /\ DataSeen' /\ RoomSeen'
    BY <1>4 DEF DropWake, Woken, Wants, DataSeen, RoomSeen
  <2>3. Enlisted'
    BY <1>4 DEF DropWake, Drained, Woken, Enlisted, Shape, PollOf
  <2> QED BY <2>1, <2>2, <2>3
<1> QED BY <1>1, <1>2, <1>3, <1>4 DEF Control

\* A read: it takes bytes only on its way to wake the writers, and gives up
\* only on an empty ring.
LEMMA ReadPInv ==
    ASSUME PInv, NEW r \in Reader, Read(r)
    PROVE  PInv'
<1> USE DEF PInv, ring, hist
<1>0. r \in Task /\ r \notin Writer /\ Reader \subseteq Task /\ Writer \subseteq Task
  BY RoleAssumption DEF Task
<1>1. ASSUME NEW n \in Want, ReadCall(r, n) PROVE PInv'
  <2>1. n \in Nat \ {0}
    BY SizeAssumption
  <2>2. Shape' /\ Wants'
    <3>1. nb["read"] \in BOOLEAN
      BY DEF Shape, Side
    <3>2. Shape'
      BY <1>0, <1>1, <2>1, <3>1 DEF ReadCall, Goto, Shape, ReadPc
    <3>3. Wants'
      BY <1>0, <1>1, <2>1 DEF ReadCall, Goto, Shape, Wants
    <3> QED BY <3>2, <3>3
  <2>3. Enlisted'
    BY <1>0, <1>1 DEF ReadCall, Goto, Shape, Enlisted, PollOf
  <2>4. DataSeen' /\ RoomSeen'
    BY <1>0, <1>1 DEF ReadCall, Goto, Shape, DataSeen, RoomSeen
  <2> QED BY <2>2, <2>3, <2>4
<1>2. CASE ReadLook(r)
  <2> DEFINE n == Len(Copied(want[r]))
  <2>0. pc[r] = "look"
    BY <1>2 DEF ReadLook
  <2>1. want[r] \in Nat \ {0} /\ data \in Seq(Byte) /\ Len(data) \in Nat
    <3>1. want[r] > 0
      BY <1>0, <2>0 DEF Wants
    <3>2. data \in Seq(Byte) /\ want[r] \in Nat
      BY <1>0 DEF Shape
    <3>3. Len(data) \in Nat
      BY <3>2, LenProperties
    <3> QED BY <3>1, <3>2, <3>3
  <2>2. n \in 0 .. Len(data) /\ (n = 0 => data = <<>>)
    BY <2>1, CopiedLen
  <2>3. /\ data' = SubSeq(data, n + 1, Len(data))
        /\ first' = (first + n) % cap
        /\ pc' = [pc EXCEPT ![r] = IF n > 0 THEN "wakeTx" ELSE "closed"]
        /\ UNCHANGED <<cap, nb, again, nonblocking, want, poll, notified, put>>
    BY <1>2 DEF ReadLook, Goto
  <2> HIDE DEF n
  <2>4. data' \in Seq(Byte) /\ Len(data') = Len(data) - n
    BY <2>1, <2>2, <2>3
  <2>5. first' \in 0 .. cap - 1
    <3>1. cap \in Nat /\ cap > 0 /\ first + n \in Nat
      BY <2>1, <2>2 DEF Shape
    <3> QED BY <2>3, <3>1
  <2>6. Shape'
    BY <1>0, <2>1, <2>2, <2>3, <2>4, <2>5 DEF Shape, ReadPc
  <2>7. Wants'
    BY <1>0, <2>1, <2>3 DEF Shape, Wants
  <2>8. Enlisted'
    BY <1>0, <1>2, <2>3 DEF Shape, Enlisted, ReadLook
  <2>9. n = 0 => data' = <<>>
    BY <2>1, <2>2, <2>3
  <2>10. data # <<>> \/ data' = <<>>
    BY <2>2, <2>9
  <2>11. DataSeen'
    <3>1. CASE n = 0
      BY <2>9, <3>1 DEF DataSeen
    <3>2. CASE n # 0
      <4>1. pc'[r] = "wakeTx" /\ \A t \in Task : t # r => pc'[t] = pc[t]
        BY <1>0, <2>2, <2>3, <3>2 DEF Shape
      <4> QED BY <1>0, <2>3, <2>10, <4>1 DEF DataSeen
    <3> QED BY <3>1, <3>2
  <2>12. RoomSeen'
    <3>1. CASE n = 0
      <4>1. data = <<>> /\ \A t \in Task : t # r => pc'[t] = pc[t]
        BY <1>0, <2>2, <2>3, <3>1 DEF Shape
      <4> QED BY <1>0, <2>0, <2>3, <4>1 DEF RoomSeen
    <3>2. CASE n # 0
      <4>1. pc'[r] = "wakeTx"
        BY <1>0, <2>2, <2>3, <3>2 DEF Shape
      <4> QED BY <4>1 DEF RoomSeen
    <3> QED BY <3>1, <3>2
  <2> QED BY <2>6, <2>7, <2>8, <2>11, <2>12
<1>3. CASE ReadWake(r)
  <2>1. Shape' /\ Wants'
    BY <1>0, <1>3 DEF ReadWake, Leave, Drained, Woken, Goto, Shape, Wants, ReadPc
  <2>2. Enlisted'
    BY <1>0, <1>3 DEF ReadWake, Leave, Drained, Woken, Goto, Shape, Enlisted, PollOf
  <2>3. DataSeen'
    BY <1>0, <1>3 DEF ReadWake, Leave, Woken, Goto, Shape, DataSeen
  <2>4. RoomSeen'
    <3>1. \A w \in Writer : again'[w] => w \in notified'
      <4> TAKE w \in Writer
      <4>1. w \in Task /\ w # r /\ PollOf(w) = "tx"
        BY <1>0, RoleAssumption DEF PollOf
      <4>2. again'[w] = again[w] /\ notified' = (notified \cup poll["tx"]) \ {r}
        BY <1>0, <1>3, <4>1 DEF ReadWake, Leave, Woken, Shape
      <4> QED BY <4>1, <4>2 DEF Enlisted
    <3> QED BY <3>1 DEF RoomSeen
  <2> QED BY <2>1, <2>2, <2>3, <2>4
<1>4. CASE ReadClosed(r)
  <2>1. CASE Return(r) /\ UNCHANGED <<ring, nb, end, hist>>
    <3>1. Shape' /\ Wants'
      BY <1>0, <2>1 DEF Return, Leave, Goto, Shape, Wants, ReadPc
    <3>2. Enlisted'
      BY <1>0, <2>1 DEF Return, Leave, Goto, Shape, Enlisted, PollOf
    <3>3. DataSeen' /\ RoomSeen'
      BY <1>0, <1>4, <2>1 DEF ReadClosed, Return, Leave, Goto, Shape, DataSeen, RoomSeen
    <3> QED BY <3>1, <3>2, <3>3
  <2>2. CASE /\ pc' = [pc EXCEPT ![r] = IF again[r] THEN "asleep" ELSE "register"]
             /\ UNCHANGED <<poll, notified, again, nonblocking, want, ring, nb, end, hist>>
    <3>1. Shape' /\ Wants'
      BY <1>0, <1>4, <2>2 DEF ReadClosed, Shape, Wants, ReadPc
    <3>2. Enlisted'
      BY <1>0, <2>2 DEF Shape, Enlisted
    <3>3. DataSeen' /\ RoomSeen'
      BY <1>0, <1>4, <2>2 DEF ReadClosed, Shape, DataSeen, RoomSeen
    <3> QED BY <3>1, <3>2, <3>3
  <2> QED BY <1>4, <2>1, <2>2 DEF ReadClosed, WouldBlock, Return, Goto
<1> QED BY <1>1, <1>2, <1>3, <1>4 DEF Read

\* A write: it puts bytes in only on its way to wake the readers, and sleeps
\* only after it has found or made the ring full.
LEMMA WritePInv ==
    ASSUME PInv, NEW w \in Writer, Write(w)
    PROVE  PInv'
<1> USE DEF PInv, ring, hist
<1>0. w \in Task /\ w \notin Reader /\ Reader \subseteq Task /\ Writer \subseteq Task
  BY RoleAssumption DEF Task
<1>1. ASSUME NEW n \in 1 .. MaxBytes, WriteCall(w, n) PROVE PInv'
  <2>1. n \in Nat \ {0} /\ nb["write"] \in BOOLEAN
    BY SizeAssumption DEF Shape, Side
  <2>2. Shape'
    BY <1>0, <1>1, <2>1 DEF WriteCall, Goto, Shape, WritePc
  <2>3. Wants'
    BY <1>0, <1>1, <2>1 DEF WriteCall, Goto, Shape, Wants
  <2>4. Enlisted'
    BY <1>0, <1>1 DEF WriteCall, Goto, Shape, Enlisted, PollOf
  <2>5. DataSeen' /\ RoomSeen'
    BY <1>0, <1>1 DEF WriteCall, Goto, Shape, DataSeen, RoomSeen
  <2> QED BY <2>2, <2>3, <2>4, <2>5
<1>2. CASE WriteClosed(w)
  <2>1. CASE Return(w) /\ UNCHANGED <<ring, nb, end, hist>>
    <3>1. Shape' /\ Wants'
      BY <1>0, <2>1 DEF Return, Leave, Goto, Shape, Wants, WritePc
    <3>2. Enlisted'
      BY <1>0, <2>1 DEF Return, Leave, Goto, Shape, Enlisted, PollOf
    <3>3. DataSeen' /\ RoomSeen'
      BY <1>0, <1>2, <2>1 DEF WriteClosed, Return, Leave, Goto, Shape, DataSeen, RoomSeen
    <3> QED BY <3>1, <3>2, <3>3
  <2>2. CASE /\ pc' = [pc EXCEPT ![w] = "push"]
             /\ UNCHANGED <<poll, notified, again, nonblocking, want, ring, nb, end, hist>>
    <3>1. Shape' /\ Wants'
      BY <1>0, <1>2, <2>2 DEF WriteClosed, Shape, Wants, WritePc
    <3>2. Enlisted'
      BY <1>0, <2>2 DEF Shape, Enlisted
    <3>3. DataSeen' /\ RoomSeen'
      BY <1>0, <1>2, <2>2 DEF WriteClosed, Shape, DataSeen, RoomSeen
    <3> QED BY <3>1, <3>2, <3>3
  <2> QED BY <1>2, <2>1, <2>2 DEF WriteClosed, Goto
<1>3. CASE WritePush(w)
  <2> DEFINE n == Least(want[w], cap - Len(data))
  <2>0. pc[w] = "push"
    BY <1>3 DEF WritePush
  <2>1. want[w] \in Nat /\ want[w] > 0
    BY <1>0, <2>0 DEF Wants, Shape
  <2>2. /\ data \in Seq(Byte) /\ Len(data) \in Nat /\ cap \in Nat /\ Len(data) <= cap /\ cap > 0
        /\ put[w] \in Nat
    <3>1. data \in Seq(Byte)
      BY DEF Shape
    <3>2. Len(data) \in Nat
      BY <3>1, LenProperties
    <3> QED BY <3>1, <3>2 DEF Shape
  <2>3. n \in Nat /\ n <= cap - Len(data) /\ n <= want[w] /\ (n = 0 => Len(data) = cap)
    BY <2>1, <2>2 DEF Least
  <2>4. /\ data' = data \o Source(w, n)
        /\ put' = [put EXCEPT ![w] = @ + n]
        /\ IF n > 0
           THEN /\ Goto(w, "wakeRx")
                /\ want' = [want EXCEPT ![w] = @ - n]
                /\ UNCHANGED <<again, nonblocking, poll, notified>>
           ELSE WouldBlock(w, poll, notified)
        /\ UNCHANGED <<cap, first, nb>>
    BY <1>3 DEF WritePush
  <2> HIDE DEF n
  <2>5. Source(w, n) \in Seq(Byte) /\ Len(Source(w, n)) = n
    BY <2>2, <2>3 DEF Source, Byte
  <2>6. data' \in Seq(Byte) /\ Len(data') = Len(data) + n
    BY <2>2, <2>4, <2>5, ConcatProperties
  <2>7. data' # <<>>
    BY <2>2, <2>3, <2>6, EmptySeq
  <2>8. cap' = cap /\ first' = first /\ nb' = nb /\ put' \in [Writer -> Nat] /\ Len(data') <= cap
    BY <2>2, <2>3, <2>4, <2>6 DEF Shape
  <2>9. CASE n > 0
    <3>1. Shape'
      <4>1. want' \in [Task -> Nat]
        <5>1. want[w] - n \in Nat
          BY <2>1, <2>3
        <5> QED BY <1>0, <2>4, <2>9, <5>1 DEF Shape
      <4>2. pc' \in [Task -> ReadPc \cup WritePc]
        BY <1>0, <2>4, <2>9 DEF Goto, Shape, WritePc
      <4> QED BY <2>4, <2>6, <2>8, <2>9, <4>1, <4>2 DEF Shape
    <3>2. Wants' /\ Enlisted'
      BY <1>0, <2>0, <2>4, <2>9 DEF Goto, Shape, Wants, Enlisted
    <3>3. pc'[w] = "wakeRx"
      BY <1>0, <2>4, <2>9 DEF Goto, Shape
    <3>4. DataSeen' /\ RoomSeen'
      BY <2>7, <3>3 DEF DataSeen, RoomSeen
    <3> QED BY <3>1, <3>2, <3>4
  <2>10. CASE n = 0
    <3>1. WouldBlock(w, poll, notified) /\ data # <<>>
      <4>1. Len(data) # 0
        BY <2>2, <2>3, <2>10
      <4>2. data # <<>>
        BY <4>1, EmptySeq
      <4> QED BY <2>4, <2>10, <4>2
    <3>2. CASE Leave(w, poll, notified)
      <4>1. Shape'
        BY <1>0, <2>6, <2>8, <3>2 DEF Leave, Goto, Shape, WritePc
      <4>2. Wants'
        BY <1>0, <3>2 DEF Leave, Goto, Shape, Wants
      <4>3. Enlisted'
        BY <1>0, <3>2 DEF Leave, Goto, Shape, Enlisted, PollOf
      <4>4. DataSeen' /\ RoomSeen'
        BY <1>0, <2>0, <2>7, <3>1, <3>2 DEF Leave, Goto, Shape, DataSeen, RoomSeen
      <4> QED BY <4>1, <4>2, <4>3, <4>4
    <3>3. CASE /\ pc' = [pc EXCEPT ![w] = IF again[w] THEN "asleep" ELSE "register"]
               /\ UNCHANGED <<poll, notified, again, nonblocking, want>>
      <4>1. Shape'
        BY <1>0, <2>6, <2>8, <3>3 DEF Shape, WritePc
      <4>2. Wants'
        BY <1>0, <2>1, <3>3 DEF Shape, Wants
      <4>3. Enlisted'
        BY <1>0, <3>3 DEF Shape, Enlisted
      <4>4. DataSeen' /\ RoomSeen'
        BY <1>0, <2>0, <2>7, <3>1, <3>3 DEF Shape, DataSeen, RoomSeen
      <4> QED BY <4>1, <4>2, <4>3, <4>4
    <3> QED BY <3>1, <3>2, <3>3 DEF WouldBlock, Goto
  <2> QED BY <2>3, <2>9, <2>10
<1>4. CASE WriteWake(w)
  <2>0. pc[w] = "wakeRx" /\ UNCHANGED <<ring, nb, hist>>
    BY <1>4 DEF WriteWake
  <2>1. ASSUME NEW t \in Task, t # w, again[t] PROVE t \in Drained("rx")[PollOf(t)] \cup Woken("rx")
    BY <2>1 DEF Drained, Woken, Enlisted, PollOf, Shape
  <2>2. again[w] => w \in Drained("rx")["tx"] \cup notified
    BY <1>0 DEF Drained, Enlisted, PollOf, Shape
  <2>3. \A r \in Reader : again[r] => r \in Woken("rx")
    BY <1>0 DEF Woken, Enlisted, PollOf
  <2>4. Woken("rx") \in SUBSET Task /\ Drained("rx") \in [{"rx", "tx", "close"} -> SUBSET Task]
        /\ notified \subseteq Woken("rx")
    BY DEF Woken, Drained, Shape
  <2>5. CASE Leave(w, Drained("rx"), Woken("rx"))
    <3>1. Shape' /\ Wants'
      BY <1>0, <2>0, <2>4, <2>5 DEF Leave, Goto, Shape, Wants, WritePc
    <3>2. Enlisted'
      BY <1>0, <2>1, <2>4, <2>5 DEF Leave, Goto, Shape, Enlisted, PollOf
    <3>3. DataSeen'
      BY <1>0, <2>3, <2>5 DEF Leave, Shape, DataSeen
    <3>4. RoomSeen'
      BY <1>0, <2>0, <2>4, <2>5 DEF Leave, Goto, Shape, RoomSeen
    <3> QED BY <3>1, <3>2, <3>3, <3>4
  <2>6. CASE /\ want[w] # 0
             /\ pc' = [pc EXCEPT ![w] = IF again[w] THEN "asleep" ELSE "register"]
             /\ poll' = Drained("rx") /\ notified' = Woken("rx")
             /\ UNCHANGED <<again, nonblocking, want>>
    <3>1. want[w] \in Nat /\ want[w] > 0
      BY <1>0, <2>6 DEF Shape
    <3>2. Shape'
      BY <1>0, <2>0, <2>4, <2>6 DEF Shape, WritePc
    <3>3. Wants'
      BY <1>0, <2>6, <3>1 DEF Shape, Wants
    <3>4. Enlisted'
      BY <1>0, <2>1, <2>2, <2>4, <2>6 DEF Shape, Enlisted, PollOf
    <3>5. DataSeen'
      BY <1>0, <2>3, <2>6 DEF DataSeen
    <3>6. RoomSeen'
      BY <1>0, <2>0, <2>4, <2>6, <3>1 DEF Shape, RoomSeen
    <3> QED BY <3>2, <3>3, <3>4, <3>5, <3>6
  <2> QED BY <1>4, <2>5, <2>6 DEF WriteWake, WouldBlock, Goto
<1> QED BY <1>1, <1>2, <1>3, <1>4 DEF Write

-----------------------------------------------------------------------------
\* Every step of a reader, a writer or the control calls preserves it.
LEMMA NextPInv == PInv /\ [Next]_vars => PInv'
<1>1. PInv /\ Next => PInv'
  BY WaitPInv, ControlPInv, ReadPInv, WritePInv DEF Next
<1>2. PInv /\ UNCHANGED vars => PInv'
  BY DEF vars, ring, hist, PInv, Shape, Wants, Enlisted, DataSeen, RoomSeen
<1> QED BY <1>1, <1>2

\* No reader sleeps on bytes, whoever else reads, writes, resizes or closes.
THEOREM ReadersSeeData == Spec => []NoSleepOnData
<1>1. PInv => NoSleepOnData
  BY DEF PInv, DataSeen, Enlisted, NoSleepOnData, Asleep, Task
<1> QED BY <1>1, InitPInv, NextPInv, PTL DEF Spec

\* No writer sleeps on an empty pipe.
THEOREM WritersSeeRoom == Spec => []NoSleepOnRoom
<1>1. PInv => NoSleepOnRoom
  BY DEF PInv, RoomSeen, Enlisted, NoSleepOnRoom, Asleep, Task
<1> QED BY <1>1, InitPInv, NextPInv, PTL DEF Spec
=============================================================================
