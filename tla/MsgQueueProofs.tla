--------------------------- MODULE MsgQueueProofs ---------------------------
(* Proofs about MsgQueue, for any number of callers, keys and messages: its *)
(* types, that the counters of a queue match its messages, that a key never *)
(* leads nowhere, and that a queue is removed once, by the call that marked *)
(* it.                                                                      *)
EXTENDS MsgQueue, FiniteSetTheorems, TLAPS

\* Ids are made in order; a call holds a queue that was made; a queue leaves the
\* manager only after it was marked.
IdsOK ==
    /\ ids \subseteq 0..nextId-1
    /\ \A p \in Proc : pc[p] # "idle" => held[p] \in 0..nextId-1
    /\ \A i \in 0..nextId-1 : ~ queue[i].mark_removed => i \in ids

\* Messages are finite in number and older than the next stamp, so a message
\* that is sent is a new one.
StampsOK ==
    \A i \in 0..nextId-1 :
        /\ IsFiniteSet(queue[i].messages)
        /\ \A m \in queue[i].messages : m.stamp < stamp

Counts == StampsOK /\ MessageCount
Names == IdsOK /\ KeyLeadsToQueue /\ RemoverIsUnique

IInv == TypeOK /\ Counts /\ Names

-----------------------------------------------------------------------------
\* The initial state satisfies the inductive invariant.
LEMMA InitIInv == Init => IInv
<1> SUFFICES ASSUME Init PROVE IInv
  OBVIOUS
<1>1. TypeOK
  BY DEF Init, TypeOK
<1>2. Counts
  BY DEF Init, Counts, StampsOK, MessageCount
<1>3. Names
  BY DEF Init, Names, IdsOK, KeyLeadsToQueue, RemoverIsUnique
<1> QED
  BY <1>1, <1>2, <1>3 DEF IInv

\* A new queue is well typed.
LEMMA NewQueueType == NewQueue \in Queue
BY SizeAssumption DEF NewQueue, Queue

\* What Matched returns is in the queue.
LEMMA MatchedInQueue ==
    ASSUME NEW q, NEW msgtyp, NEW except, NEW m \in Matched(q, msgtyp, except),
           msgtyp \in Int, except \in BOOLEAN
    PROVE  m \in q.messages
<1>1. Heads(q) \subseteq q.messages
  BY DEF Heads
<1>2. \A S : LeastType(S) \subseteq S
  BY DEF LeastType
<1>3. msgtyp = 0 \/ msgtyp > 0 \/ msgtyp < 0
  OBVIOUS
<1>4. Matched(q, msgtyp, except) \subseteq Heads(q)
  <2>1. CASE msgtyp = 0
    BY <2>1, <1>2 DEF Matched
  <2>2. CASE msgtyp > 0 /\ except
    BY <2>2, <1>2 DEF Matched
  <2>3. CASE msgtyp > 0 /\ ~ except
    BY <2>3, <1>2 DEF Matched
  <2>4. CASE msgtyp < 0
    BY <2>4, <1>2 DEF Matched
  <2> QED
    BY <1>3, <2>1, <2>2, <2>3, <2>4
<1> QED
  BY <1>1, <1>4

\* The message a receive takes out, named.
LEMMA ReceivePick ==
    ASSUME NEW p \in Proc, ReceiveAny(p)
    PROVE  /\ pc[p] = "queue" /\ ~ queue[held[p]].mark_removed
           /\ \E m \in queue[held[p]].messages :
                queue' = [queue EXCEPT ![held[p]] = Removed(queue[held[p]], m)]
           /\ Done(p) /\ UNCHANGED <<mgrVars, stamp>>
<1>1. PICK msgtyp \in MsgTyp, except \in BOOLEAN, noerror \in BOOLEAN, msgsz \in Size :
        Receive(p, msgtyp, except, msgsz, noerror)
  BY DEF ReceiveAny
<1>2. msgtyp \in Int
  BY SizeAssumption DEF MsgTyp
<1>3. PICK m \in Matched(queue[held[p]], msgtyp, except) :
        queue' = [queue EXCEPT ![held[p]] = Removed(queue[held[p]], m)]
  BY <1>1 DEF Receive
<1>4. m \in queue[held[p]].messages
  BY <1>2, <1>3, MatchedInQueue
<1> QED
  BY <1>1, <1>3, <1>4 DEF Receive

\* Enqueued and Removed keep a queue well typed.
LEMMA EnqueuedType ==
    ASSUME NEW q \in Queue, NEW m \in Message
    PROVE  Enqueued(q, m) \in Queue /\ Removed(q, m) \in Queue
<1>1. m.size \in Int
  <2>1. m.size \in Size
    BY DEF Message
  <2>2. \A n \in Size : n \in Nat
    BY SizeAssumption
  <2>3. m.size \in Nat
    BY <2>1, <2>2
  <2> QED
    BY <2>3
<1>2. q.messages \cup {m} \in SUBSET Message /\ q.messages \ {m} \in SUBSET Message
  BY DEF Queue
<1>3. /\ q.total_bytes + m.size \in Int /\ q.total_bytes - m.size \in Int
      /\ q.msg_cbytes + m.size \in Int /\ q.msg_cbytes - m.size \in Int
      /\ q.msg_qnum + 1 \in Int /\ q.msg_qnum - 1 \in Int
  BY <1>1 DEF Queue
<1>4. Enqueued(q, m) \in Queue
  BY <1>2, <1>3 DEF Queue, Enqueued
<1>5. Removed(q, m) \in Queue
  BY <1>2, <1>3 DEF Queue, Removed
<1> QED
  BY <1>4, <1>5

\* So do IPC_SET and IPC_RMID.
LEMMA UpdatedType ==
    ASSUME NEW q \in Queue, NEW n \in Nat
    PROVE  /\ [q EXCEPT !.msg_qbytes = n] \in Queue
           /\ [q EXCEPT !.mark_removed = TRUE] \in Queue
BY DEF Queue

\* Every step keeps the types.
LEMMA TypeStep == TypeOK /\ IdsOK /\ [Next]_vars => TypeOK'
<1> SUFFICES ASSUME TypeOK, IdsOK, [Next]_vars PROVE TypeOK'
  OBVIOUS
<1> USE SizeAssumption DEF TypeOK, mgrVars
<1>1. ASSUME NEW p \in Proc, GetPrivate(p) PROVE TypeOK'
  BY <1>1, NewQueueType DEF GetPrivate, Create
<1>2. ASSUME NEW p \in Proc, NEW k \in Key, GetKey(p, k) PROVE TypeOK'
  BY <1>2, NewQueueType DEF GetKey, Create
<1>3. ASSUME NEW p \in Proc, NEW id \in ids, Lookup(p, id) PROVE TypeOK'
  BY <1>3 DEF Lookup
<1>4. ASSUME NEW p \in Proc, Fail(p) PROVE TypeOK'
  BY <1>4 DEF Fail, Done
<1>5. ASSUME NEW p \in Proc, NEW type \in MType, NEW size \in Size, Send(p, type, size)
      PROVE  TypeOK'
  <2> DEFINE m == [type |-> type, size |-> size, stamp |-> stamp]
  <2>1. held[p] \in 0..nextId-1 /\ queue[held[p]] \in Queue
    BY <1>5 DEF Send, IdsOK
  <2>2. Enqueued(queue[held[p]], m) \in Queue
    BY <2>1, EnqueuedType DEF Message
  <2>3. queue' = [queue EXCEPT ![held[p]] = Enqueued(queue[held[p]], m)]
    BY <1>5 DEF Send
  <2> QED
    BY <1>5, <2>1, <2>2, <2>3 DEF Send, Done
<1>6. ASSUME NEW p \in Proc, ReceiveAny(p) PROVE TypeOK'
  <2>1. PICK m \in queue[held[p]].messages :
          queue' = [queue EXCEPT ![held[p]] = Removed(queue[held[p]], m)]
    BY <1>6, ReceivePick
  <2>2. held[p] \in 0..nextId-1 /\ queue[held[p]] \in Queue
    BY <1>6, ReceivePick DEF IdsOK
  <2>3. Removed(queue[held[p]], m) \in Queue
    BY <2>1, <2>2, EnqueuedType DEF Queue
  <2> QED
    BY <1>6, ReceivePick, <2>1, <2>2, <2>3 DEF Done
<1>7. ASSUME NEW p \in Proc, NEW qbytes \in QBytes, Set(p, qbytes) PROVE TypeOK'
  <2>1. held[p] \in 0..nextId-1 /\ qbytes \in Nat
    BY <1>7 DEF Set, IdsOK
  <2>2. queue' = [queue EXCEPT ![held[p]] = [queue[held[p]] EXCEPT !.msg_qbytes = qbytes]]
    BY <1>7 DEF Set
  <2>3. [queue[held[p]] EXCEPT !.msg_qbytes = qbytes] \in Queue
    BY <2>1, UpdatedType
  <2> QED
    BY <1>7, <2>1, <2>2, <2>3 DEF Set, Done
<1>8. ASSUME NEW p \in Proc, Rmid(p) PROVE TypeOK'
  <2>1. held[p] \in 0..nextId-1
    BY <1>8 DEF Rmid, IdsOK
  <2>2. queue' = [queue EXCEPT ![held[p]] = [queue[held[p]] EXCEPT !.mark_removed = TRUE]]
    BY <1>8 DEF Rmid
  <2>3. [queue[held[p]] EXCEPT !.mark_removed = TRUE] \in Queue
    BY <2>1, UpdatedType, 0 \in Nat
  <2> QED
    BY <1>8, <2>1, <2>2, <2>3 DEF Rmid, Done
<1>9. ASSUME NEW p \in Proc, RmidRemove(p) PROVE TypeOK'
  BY <1>9 DEF RmidRemove, Done
<1>10. CASE UNCHANGED vars
  BY <1>10 DEF vars
<1> QED
  BY <1>1, <1>2, <1>3, <1>4, <1>5, <1>6, <1>7, <1>8, <1>9, <1>10 DEF Next

\* What a step may do to the counters: keep every queue's messages and counts,
\* or add a new message, or take one out.
LEMMA CountsStep == TypeOK /\ IdsOK /\ Counts /\ [Next]_vars => Counts'
<1> SUFFICES ASSUME TypeOK, IdsOK, Counts, [Next]_vars PROVE Counts'
  OBVIOUS
<1> USE SizeAssumption DEF TypeOK, mgrVars, Counts, StampsOK, MessageCount
<1>1. ASSUME NEW p \in Proc, NEW id \in Nat, Create(id), UNCHANGED stamp PROVE Counts'
  <2>1. /\ nextId' = nextId + 1
        /\ queue' = [i \in 0..nextId |-> IF i = nextId THEN NewQueue ELSE queue[i]]
    BY <1>1 DEF Create
  <2>2. IsFiniteSet(NewQueue.messages) /\ Cardinality(NewQueue.messages) = 0
    BY FS_EmptySet DEF NewQueue
  <2> QED
    BY <1>1, <2>1, <2>2 DEF NewQueue
<1>2. ASSUME NEW p \in Proc, NEW id \in ids, Lookup(p, id) PROVE Counts'
  BY <1>2 DEF Lookup
<1>3. ASSUME NEW p \in Proc, Fail(p) \/ RmidRemove(p) PROVE Counts'
  BY <1>3 DEF Fail, RmidRemove
<1>4. ASSUME NEW p \in Proc, NEW type \in MType, NEW size \in Size, Send(p, type, size)
      PROVE  Counts'
  <2> DEFINE m == [type |-> type, size |-> size, stamp |-> stamp]
             h == held[p]
             q == queue[h]
  <2>1. h \in 0..nextId-1 /\ q \in Queue
    BY <1>4 DEF Send, IdsOK
  <2>2. /\ queue' = [queue EXCEPT ![h] = Enqueued(q, m)]
        /\ stamp' = stamp + 1 /\ nextId' = nextId
    BY <1>4 DEF Send
  <2>3. m \notin q.messages
    BY <2>1
  <2>4. /\ Enqueued(q, m).messages = q.messages \cup {m}
        /\ Enqueued(q, m).msg_qnum = q.msg_qnum + 1
        /\ Enqueued(q, m).msg_cbytes = Enqueued(q, m).total_bytes
    BY <2>1 DEF Enqueued, Queue
  <2>5. /\ IsFiniteSet(q.messages \cup {m})
        /\ Cardinality(q.messages \cup {m}) = Cardinality(q.messages) + 1
    BY <2>1, <2>3, FS_AddElement
  <2>6. \A i \in 0..nextId-1 : \A x \in queue'[i].messages : x.stamp < stamp'
    <3> SUFFICES ASSUME NEW i \in 0..nextId-1, NEW x \in queue'[i].messages
                 PROVE  x.stamp < stamp + 1
      BY <2>2
    <3>1. x = m \/ x \in queue[i].messages
      BY <2>1, <2>2, <2>4
    <3>2. queue[i].messages \subseteq Message
      BY DEF Queue
    <3> QED
      BY <3>1, <3>2 DEF Message
  <2> QED
    BY <2>1, <2>2, <2>4, <2>5, <2>6
<1>5. ASSUME NEW p \in Proc, ReceiveAny(p) PROVE Counts'
  <2> DEFINE h == held[p]
             q == queue[h]
  <2>1. PICK m \in q.messages : queue' = [queue EXCEPT ![h] = Removed(q, m)]
    BY <1>5, ReceivePick
  <2>2. h \in 0..nextId-1 /\ q \in Queue /\ nextId' = nextId /\ stamp' = stamp
    BY <1>5, ReceivePick DEF IdsOK
  <2>3. /\ Removed(q, m).messages = q.messages \ {m}
        /\ Removed(q, m).msg_qnum = q.msg_qnum - 1
        /\ Removed(q, m).msg_cbytes = Removed(q, m).total_bytes
    BY <2>2 DEF Removed, Queue
  <2>4. /\ IsFiniteSet(q.messages \ {m})
        /\ Cardinality(q.messages \ {m}) = Cardinality(q.messages) - 1
    BY <2>1, <2>2, FS_RemoveElement
  <2> QED
    BY <2>1, <2>2, <2>3, <2>4
<1>6. ASSUME NEW p \in Proc, NEW q \in Queue, held[p] \in 0..nextId-1,
             queue' = [queue EXCEPT ![held[p]] = q], UNCHANGED <<mgrVars, stamp>>,
             q.messages = queue[held[p]].messages, q.msg_qnum = queue[held[p]].msg_qnum,
             q.msg_cbytes = queue[held[p]].msg_cbytes,
             q.total_bytes = queue[held[p]].total_bytes
      PROVE  Counts'
  BY <1>6
<1>7. ASSUME NEW p \in Proc, NEW qbytes \in QBytes, Set(p, qbytes) PROVE Counts'
  <2>1. held[p] \in 0..nextId-1 /\ queue[held[p]] \in Queue /\ qbytes \in Nat
    BY <1>7 DEF Set, IdsOK
  <2> DEFINE q == [queue[held[p]] EXCEPT !.msg_qbytes = qbytes]
  <2>2. q \in Queue
    BY <2>1, UpdatedType
  <2>3. queue' = [queue EXCEPT ![held[p]] = q] /\ UNCHANGED <<mgrVars, stamp>>
    BY <1>7 DEF Set
  <2> QED
    BY <1>6, <2>1, <2>2, <2>3 DEF Queue
<1>8. ASSUME NEW p \in Proc, Rmid(p) PROVE Counts'
  <2>1. held[p] \in 0..nextId-1 /\ queue[held[p]] \in Queue
    BY <1>8 DEF Rmid, IdsOK
  <2> DEFINE q == [queue[held[p]] EXCEPT !.mark_removed = TRUE]
  <2>2. q \in Queue
    BY <2>1, UpdatedType, 0 \in Nat
  <2>3. queue' = [queue EXCEPT ![held[p]] = q] /\ UNCHANGED <<mgrVars, stamp>>
    BY <1>8 DEF Rmid
  <2> QED
    BY <1>6, <2>1, <2>2, <2>3 DEF Queue
<1>9. CASE UNCHANGED vars
  BY <1>9 DEF vars
<1> QED
  BY <1>1, <1>2, <1>3, <1>4, <1>5, <1>7, <1>8, <1>9 DEF Next, GetPrivate, GetKey

\* A new queue gets an id no key and no call knows.
LEMMA NamesCreate ==
    ASSUME TypeOK, Names, Create(nextId), UNCHANGED <<pc, held>>,
           \/ UNCHANGED keyId
           \/ \E k \in Key : keyId[k] = NoId /\ keyId' = [keyId EXCEPT ![k] = nextId]
    PROVE  Names'
<1> USE NoIdAssumption DEF TypeOK, Names
<1>1. /\ nextId' = nextId + 1 /\ ids' = ids \cup {nextId}
      /\ \A i \in 0..nextId-1 : queue'[i] = queue[i]
      /\ nextId \notin ids
  BY DEF Create, IdsOK
<1>2. IdsOK'
  BY <1>1 DEF IdsOK
<1>3. KeyLeadsToQueue'
  <2>1. CASE UNCHANGED keyId
    BY <1>1, <2>1 DEF KeyLeadsToQueue
  <2>2. ASSUME NEW k \in Key, keyId[k] = NoId, keyId' = [keyId EXCEPT ![k] = nextId]
        PROVE  KeyLeadsToQueue'
    BY <1>1, <2>2 DEF KeyLeadsToQueue
  <2> QED
    BY <2>1, <2>2
<1>4. RemoverIsUnique'
  <2> SUFFICES ASSUME NEW p \in Proc, pc[p] = "remove"
               PROVE  /\ held[p] \in ids' /\ queue'[held[p]].mark_removed
                      /\ \A r \in Proc : pc[r] = "remove" /\ held[r] = held[p] => r = p
    BY DEF RemoverIsUnique
  <2> QED
    BY <1>1 DEF RemoverIsUnique, IdsOK
<1> QED
  BY <1>2, <1>3, <1>4

\* A step of p on the queue it holds: p becomes idle, and no mark changes.
LEMMA NamesWork ==
    ASSUME TypeOK, Names, NEW p \in Proc, UNCHANGED mgrVars, Done(p),
           \A i \in 0..nextId-1 : queue'[i].mark_removed = queue[i].mark_removed
    PROVE  Names'
<1> USE DEF TypeOK, Names, mgrVars, Done
<1>1. IdsOK'
  BY DEF IdsOK
<1>2. KeyLeadsToQueue'
  BY DEF KeyLeadsToQueue
<1>3. RemoverIsUnique'
  BY DEF RemoverIsUnique, IdsOK
<1> QED
  BY <1>1, <1>2, <1>3

\* Every step keeps the manager's maps and the removals in order.
LEMMA NamesStep == TypeOK /\ Names /\ [Next]_vars => Names'
<1> SUFFICES ASSUME TypeOK, Names, [Next]_vars PROVE Names'
  OBVIOUS
<1> USE DEF TypeOK, Names
<1>1. ASSUME NEW p \in Proc, GetPrivate(p) \/ \E k \in Key : GetKey(p, k) PROVE Names'
  BY <1>1, NamesCreate DEF GetPrivate, GetKey
<1>2. ASSUME NEW p \in Proc, NEW id \in ids, Lookup(p, id) PROVE Names'
  BY <1>2 DEF Lookup, mgrVars, IdsOK, KeyLeadsToQueue, RemoverIsUnique
<1>3. ASSUME NEW p \in Proc, Fail(p) PROVE Names'
  BY <1>3, NamesWork DEF Fail
<1>4. ASSUME NEW p \in Proc, NEW type \in MType, NEW size \in Size, Send(p, type, size)
      PROVE  Names'
  <2>1. \A i \in 0..nextId-1 : queue'[i].mark_removed = queue[i].mark_removed
    BY <1>4 DEF Send, Enqueued, Queue
  <2> QED
    BY <1>4, <2>1, NamesWork DEF Send
<1>5. ASSUME NEW p \in Proc, ReceiveAny(p) PROVE Names'
  <2>1. \A i \in 0..nextId-1 : queue'[i].mark_removed = queue[i].mark_removed
    <3>1. PICK m \in queue[held[p]].messages :
            queue' = [queue EXCEPT ![held[p]] = Removed(queue[held[p]], m)]
      BY <1>5, ReceivePick
    <3>2. held[p] \in 0..nextId-1
      BY <1>5, ReceivePick DEF IdsOK
    <3>3. Removed(queue[held[p]], m).mark_removed = queue[held[p]].mark_removed
      BY <3>2 DEF Removed, Queue
    <3> QED
      BY <3>1, <3>2, <3>3
  <2> QED
    BY <1>5, <2>1, ReceivePick, NamesWork
<1>6. ASSUME NEW p \in Proc, NEW qbytes \in QBytes, Set(p, qbytes) PROVE Names'
  <2>1. \A i \in 0..nextId-1 : queue'[i].mark_removed = queue[i].mark_removed
    BY <1>6 DEF Set, Queue
  <2> QED
    BY <1>6, <2>1, NamesWork DEF Set
<1>7. ASSUME NEW p \in Proc, Rmid(p) PROVE Names'
  <2>1. held[p] \in 0..nextId-1 /\ held[p] \in ids /\ UNCHANGED mgrVars
    BY <1>7 DEF Rmid, IdsOK
  <2>2. /\ \A i \in 0..nextId-1 : i # held[p] => queue'[i] = queue[i]
        /\ queue'[held[p]].mark_removed
    BY <1>7, <2>1 DEF Rmid, Queue
  <2>3. \A r \in Proc : pc[r] = "remove" => held[r] # held[p]
    BY <1>7 DEF Rmid, RemoverIsUnique
  <2>4. /\ pc' \in [Proc -> {"idle", "queue", "remove"}]
        /\ \A r \in Proc \ {p} : pc'[r] = pc[r] /\ held'[r] = held[r]
        /\ pc'[p] = "remove" => held'[p] = held[p]
        /\ pc'[p] # "queue"
    BY <1>7 DEF Rmid, Done
  <2>5. IdsOK'
    BY <2>1, <2>2, <2>4 DEF IdsOK, mgrVars
  <2>6. KeyLeadsToQueue'
    BY <2>1 DEF KeyLeadsToQueue, mgrVars
  <2>7. RemoverIsUnique'
    BY <2>1, <2>2, <2>3, <2>4 DEF RemoverIsUnique, mgrVars, IdsOK
  <2> QED
    BY <2>5, <2>6, <2>7
<1>8. ASSUME NEW p \in Proc, RmidRemove(p) PROVE Names'
  <2>1. /\ pc[p] = "remove" /\ nextId' = nextId /\ queue' = queue
        /\ ids' = ids \ {held[p]} /\ Done(p)
        /\ keyId' = [k \in Key |-> IF keyId[k] = held[p] THEN NoId ELSE keyId[k]]
    BY <1>8 DEF RmidRemove
  <2>2. IdsOK'
    BY <2>1 DEF IdsOK, Done, RemoverIsUnique
  <2>3. KeyLeadsToQueue'
    BY <2>1 DEF KeyLeadsToQueue
  <2>4. RemoverIsUnique'
    BY <2>1 DEF RemoverIsUnique, Done
  <2> QED
    BY <2>2, <2>3, <2>4
<1>9. CASE UNCHANGED vars
  BY <1>9 DEF vars, IdsOK, KeyLeadsToQueue, RemoverIsUnique
<1> QED
  BY <1>1, <1>2, <1>3, <1>4, <1>5, <1>6, <1>7, <1>8, <1>9 DEF Next

\* The inductive invariant holds in every state the message queue calls reach.
LEMMA Invariance == Spec => []IInv
<1>1. IInv /\ [Next]_vars => IInv'
  BY TypeStep, CountsStep, NamesStep DEF IInv, Names
<1> QED
  BY InitIInv, <1>1, PTL DEF Spec

-----------------------------------------------------------------------------
\* The state of the message queues is well typed.
THEOREM TypeCorrect == Spec => []TypeOK
<1>1. IInv => TypeOK
  BY DEF IInv
<1> QED
  BY Invariance, <1>1, PTL

\* msg_qnum counts the messages of a queue, and its two byte counts are equal.
THEOREM CountsMatch == Spec => []MessageCount
<1>1. IInv => MessageCount
  BY DEF IInv, Counts
<1> QED
  BY Invariance, <1>1, PTL

\* A key that is known leads to a queue of the manager, and no other key does.
THEOREM KeysLeadToQueues == Spec => []KeyLeadsToQueue
<1>1. IInv => KeyLeadsToQueue
  BY DEF IInv, Names
<1> QED
  BY Invariance, <1>1, PTL

\* A queue is removed by one call only, which has marked it.
THEOREM RemovedOnce == Spec => []RemoverIsUnique
<1>1. IInv => RemoverIsUnique
  BY DEF IInv, Names
<1> QED
  BY Invariance, <1>1, PTL
=============================================================================
