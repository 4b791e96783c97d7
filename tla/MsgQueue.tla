------------------------------ MODULE MsgQueue ------------------------------
(***************************************************************************)
(* System V message queues: api/src/syscall/ipc/msg.rs.                    *)
(*                                                                         *)
(* A call first looks its queue up with MSG_MANAGER locked and then works  *)
(* on the queue with the queue's own lock; in between it holds only an Arc *)
(* of the queue.  IPC_RMID takes the manager's lock a second time.  Every  *)
(* caller is root (sys_getuid returns 0), so the permission tests pass.    *)
(*                                                                         *)
(* A queue's BTreeMap of message lists is a set of stamped messages: the   *)
(* list of a type is its messages in the order of their stamps.            *)
(***************************************************************************)
EXTENDS Integers, FiniteSets, FiniteSetsExt

CONSTANTS
    Proc,       \* the callers
    Key,        \* the keys other than IPC_PRIVATE
    MType,      \* the message types: positive numbers
    Size,       \* the lengths of messages
    QBytes,     \* the limits IPC_SET is called with
    MSGMNB,     \* the limit of a new queue
    MSGMNI,     \* the most queues
    NoId,       \* no queue
    MaxId,      \* how many queues are ever made (a bound)
    MaxStamp    \* how many messages are ever sent (a bound)

ASSUME SizeAssumption ==
    /\ MSGMNB \in Nat /\ MSGMNI \in Nat /\ MaxId \in Nat /\ MaxStamp \in Nat
    /\ Size \subseteq Nat /\ QBytes \subseteq Nat /\ MType \subseteq Nat \ {0}
ASSUME NoIdAssumption == NoId \notin Nat

VARIABLES
    nextId,   \* IPC_ID
    keyId,    \* MsgManager::key_msqid
    ids,      \* the domain of MsgManager::msqid_queues
    queue,    \* every MessageQueue made so far, by id
    stamp,    \* the next stamp
    pc,       \* where a caller is
    held      \* the id of the queue whose Arc it holds

vars == <<nextId, keyId, ids, queue, stamp, pc, held>>
mgrVars == <<nextId, keyId, ids>>

Message == [type : MType, size : Size, stamp : Nat]

Queue == [messages : SUBSET Message, total_bytes : Int, msg_cbytes : Int,
          msg_qnum : Int, msg_qbytes : Nat, mark_removed : BOOLEAN]

\* MessageQueue::new
NewQueue == [messages |-> {}, total_bytes |-> 0, msg_cbytes |-> 0,
             msg_qnum |-> 0, msg_qbytes |-> MSGMNB, mark_removed |-> FALSE]

TypeOK ==
    /\ nextId \in Nat
    /\ keyId \in [Key -> Nat \cup {NoId}]
    /\ ids \in SUBSET Nat
    /\ queue \in [0..nextId-1 -> Queue]
    /\ stamp \in Nat
    /\ pc \in [Proc -> {"idle", "queue", "remove"}]
    /\ held \in [Proc -> Nat \cup {NoId}]

Init ==
    /\ nextId = 0
    /\ keyId = [k \in Key |-> NoId]
    /\ ids = {}
    /\ queue = [i \in 0..-1 |-> NewQueue]
    /\ stamp = 0
    /\ pc = [p \in Proc |-> "idle"]
    /\ held = [p \in Proc |-> NoId]

-----------------------------------------------------------------------------
(* The messages of a queue.                                                *)

\* Mutant: the newest message of a type is taken.
HeadsNewest(q) ==
    {m \in q.messages : \A n \in q.messages : n.type = m.type => n.stamp <= m.stamp}

\* The head of each type's list.
Heads(q) == {m \in q.messages : \A n \in q.messages : n.type = m.type => m.stamp <= n.stamp}

\* BTreeMap iterates by type: the head of the smallest type in S.
LeastType(S) == {m \in S : \A n \in S : m.type <= n.type}

\* The message sys_msgrcv matches for msgtyp and MSG_EXCEPT, if any.
Matched(q, msgtyp, except) ==
    CASE msgtyp = 0             -> LeastType(Heads(q))
      [] msgtyp > 0 /\ except   -> LeastType({m \in Heads(q) : m.type # msgtyp})
      [] msgtyp > 0 /\ ~ except -> {m \in Heads(q) : m.type = msgtyp}
      [] msgtyp < 0             -> LeastType({m \in Heads(q) : m.type <= -msgtyp})

Enqueued(q, m) ==
    [q EXCEPT !.messages = @ \cup {m}, !.total_bytes = @ + m.size,
              !.msg_cbytes = @ + m.size, !.msg_qnum = @ + 1]

Removed(q, m) ==
    [q EXCEPT !.messages = @ \ {m}, !.total_bytes = @ - m.size,
              !.msg_cbytes = @ - m.size, !.msg_qnum = @ - 1]

-----------------------------------------------------------------------------
(* sys_msgget.                                                             *)

Create(id) ==
    /\ nextId < MaxId
    /\ id = nextId
    /\ nextId' = nextId + 1
    /\ ids' = ids \cup {id}
    /\ queue' = [i \in 0..nextId |-> IF i = id THEN NewQueue ELSE queue[i]]

\* IPC_PRIVATE: always a new queue.
GetPrivate(p) ==
    /\ pc[p] = "idle"
    /\ Cardinality(ids) < MSGMNI
    /\ Create(nextId)
    /\ UNCHANGED <<keyId, stamp, pc, held>>

\* A key without a queue, with IPC_CREAT.  A key that has one gets its id, or
\* EIDRM if it is marked, or EEXIST, and nothing changes.
GetKey(p, k) ==
    /\ pc[p] = "idle"
    /\ Cardinality(ids) < MSGMNI
    /\ keyId[k] = NoId
    /\ Create(nextId)
    /\ keyId' = [keyId EXCEPT ![k] = nextId]
    /\ UNCHANGED <<stamp, pc, held>>

-----------------------------------------------------------------------------
(* The first half of the other calls: get_queue_by_msqid.                  *)

Lookup(p, id) ==
    /\ pc[p] = "idle"
    /\ id \in ids
    /\ pc' = [pc EXCEPT ![p] = "queue"]
    /\ held' = [held EXCEPT ![p] = id]
    /\ UNCHANGED <<mgrVars, queue, stamp>>

\* The call ends: the Arc is dropped.
Done(p) ==
    /\ pc' = [pc EXCEPT ![p] = "idle"]
    /\ held' = [held EXCEPT ![p] = NoId]

\* A call that fails, or only reads: EFAULT, ENOMSG, E2BIG, EIDRM, EAGAIN,
\* IPC_STAT and MSG_COPY.
Fail(p) ==
    /\ pc[p] = "queue"
    /\ Done(p)
    /\ UNCHANGED <<mgrVars, queue, stamp>>

\* sys_msgsnd.  A full queue gives EAGAIN, with or without IPC_NOWAIT.
Send(p, type, size) ==
    LET id == held[p]
        q == queue[id]
    IN  /\ pc[p] = "queue"
        /\ stamp < MaxStamp
        /\ q.total_bytes + size <= q.msg_qbytes
        /\ q.msg_qnum + 1 <= q.msg_qbytes
        /\ queue' = [queue EXCEPT ![id] =
                       Enqueued(q, [type |-> type, size |-> size, stamp |-> stamp])]
        /\ stamp' = stamp + 1
        /\ Done(p)
        /\ UNCHANGED mgrVars

\* Mutant: the bytes copied are subtracted, not the bytes of the message.
ReceiveSubtractsCopied(p, msgtyp, except, msgsz, noerror) ==
    LET id == held[p]
        q == queue[id]
    IN  /\ pc[p] = "queue"
        /\ ~ q.mark_removed
        /\ \E m \in Matched(q, msgtyp, except) :
             /\ m.size <= msgsz \/ noerror
             /\ LET n == IF m.size <= msgsz THEN m.size ELSE msgsz IN
                queue' = [queue EXCEPT ![id] =
                            [q EXCEPT !.messages = @ \ {m}, !.total_bytes = @ - n,
                                      !.msg_cbytes = @ - n, !.msg_qnum = @ - 1]]
        /\ Done(p)
        /\ UNCHANGED <<mgrVars, stamp>>

\* sys_msgrcv, not MSG_COPY.  A message longer than msgsz stays (E2BIG) unless
\* MSG_NOERROR truncates it.
Receive(p, msgtyp, except, msgsz, noerror) ==
    LET id == held[p]
        q == queue[id]
    IN  /\ pc[p] = "queue"
        /\ ~ q.mark_removed
        /\ \E m \in Matched(q, msgtyp, except) :
             /\ m.size <= msgsz \/ noerror
             /\ queue' = [queue EXCEPT ![id] = Removed(q, m)]
        /\ Done(p)
        /\ UNCHANGED <<mgrVars, stamp>>

\* sys_msgctl, IPC_SET.
Set(p, qbytes) ==
    /\ pc[p] = "queue"
    /\ ~ queue[held[p]].mark_removed
    /\ queue' = [queue EXCEPT ![held[p]].msg_qbytes = qbytes]
    /\ Done(p)
    /\ UNCHANGED <<mgrVars, stamp>>

\* Mutant: a queue that is already marked is removed again.
RmidUnchecked(p) ==
    LET id == held[p] IN
    /\ pc[p] = "queue"
    /\ queue' = [queue EXCEPT ![id].mark_removed = TRUE]
    /\ IF queue[id].msg_qnum = 0
       THEN pc' = [pc EXCEPT ![p] = "remove"] /\ UNCHANGED held
       ELSE Done(p)
    /\ UNCHANGED <<mgrVars, stamp>>

\* sys_msgctl, IPC_RMID: mark the queue; an empty one is removed, but only
\* after its lock has been released.
Rmid(p) ==
    LET id == held[p] IN
    /\ pc[p] = "queue"
    /\ ~ queue[id].mark_removed
    /\ queue' = [queue EXCEPT ![id].mark_removed = TRUE]
    /\ IF queue[id].msg_qnum = 0
       THEN pc' = [pc EXCEPT ![p] = "remove"] /\ UNCHANGED held
       ELSE Done(p)
    /\ UNCHANGED <<mgrVars, stamp>>

\* MsgManager::remove_msqid
RmidRemove(p) ==
    LET id == held[p] IN
    /\ pc[p] = "remove"
    /\ keyId' = [k \in Key |-> IF keyId[k] = id THEN NoId ELSE keyId[k]]
    /\ ids' = ids \ {id}
    /\ Done(p)
    /\ UNCHANGED <<nextId, queue, stamp>>

-----------------------------------------------------------------------------
\* msgtyp is a type, the negation of one, or zero.
MsgTyp == {0} \cup MType \cup {-t : t \in MType}

ReceiveAny(p) ==
    \E msgtyp \in MsgTyp, except, noerror \in BOOLEAN, msgsz \in Size :
        Receive(p, msgtyp, except, msgsz, noerror)

Next ==
    \E p \in Proc :
        \/ GetPrivate(p)
        \/ \E k \in Key : GetKey(p, k)
        \/ \E id \in ids : Lookup(p, id)
        \/ Fail(p)
        \/ \E type \in MType, size \in Size : Send(p, type, size)
        \/ ReceiveAny(p)
        \/ \E qbytes \in QBytes : Set(p, qbytes)
        \/ Rmid(p)
        \/ RmidRemove(p)

Spec == Init /\ [][Next]_vars

-----------------------------------------------------------------------------
(* Properties.                                                             *)

\* The message count and the two byte counts of a queue agree with its messages
\* and with each other through every send, receive and removal.
MessageCount ==
    \A i \in DOMAIN queue :
        LET q == queue[i] IN
        /\ q.msg_qnum = Cardinality(q.messages)
        /\ q.msg_cbytes = q.total_bytes

\* total_bytes is the sum of the lengths of the messages in the queue, so it
\* never goes below zero, also when a receive truncates its message.
ByteCount ==
    \A i \in DOMAIN queue :
        queue[i].total_bytes = MapThenSumSet(LAMBDA m : m.size, queue[i].messages)

\* A key always leads to a queue, and two keys never to the same one: the
\* ENOENT that sys_msgget has for a key whose queue is missing cannot occur,
\* whatever removals are under way.
KeyLeadsToQueue ==
    /\ \A k \in Key : keyId[k] # NoId => keyId[k] \in ids
    /\ \A j, k \in Key : keyId[j] = keyId[k] /\ keyId[j] # NoId => j = k

\* A queue is taken out of the manager only by the call that marked it, so no
\* call removes a queue twice or removes one that is still in use.
RemoverIsUnique ==
    \A p \in Proc : pc[p] = "remove" =>
        /\ held[p] \in ids
        /\ queue[held[p]].mark_removed
        /\ \A r \in Proc : pc[r] = "remove" /\ held[r] = held[p] => r = p

\* Messages of one type leave the queue in the order in which they were sent.
TypeFifo ==
    [][\A i \in DOMAIN queue :
         \A m \in queue[i].messages \ queue'[i].messages, n \in queue'[i].messages :
             n.type = m.type => m.stamp < n.stamp]_vars
=============================================================================
