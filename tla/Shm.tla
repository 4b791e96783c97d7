-------------------------------- MODULE Shm --------------------------------
(***************************************************************************)
(* System V shared memory (core/src/shm.rs, api/src/syscall/ipc/shm.rs):   *)
(* the manager and its three maps, the segments, and the calls shmget,     *)
(* shmat, shmdt, shmctl and the clean-up when a process exits.             *)
(*                                                                         *)
(* Three kinds of locks are taken one inside the other: SHM_MANAGER, the   *)
(* lock of a segment and the lock of an address space.  Every acquisition  *)
(* is an action; what happens under the last lock taken is part of it.     *)
(*                                                                         *)
(* Every segment is one page.  Of ShmidDs nothing is kept: no branch that  *)
(* changes state reads it.                                                 *)
(***************************************************************************)
EXTENDS Naturals, FiniteSets, FiniteSetsExt, BiBTreeMap

CONSTANTS
    Proc,       \* processes
    Thread,     \* their threads
    ProcOf,     \* the process of a thread
    Key,        \* the keys passed to shmget (a bound)
    Private,    \* IPC_PRIVATE
    Vaddr,      \* the pages of an address space (a bound)
    MaxId,      \* the number of ids handed out (a bound)
    NoThread    \* the owner of a lock that is free

ASSUME ProcAssumption == ProcOf \in [Thread -> Proc]
ASSUME KeyAssumption == MaxId \in Nat
ASSUME OwnerAssumption == NoThread \notin Thread

Id == 0 .. MaxId - 1

VARIABLES
    nextId,     \* IPC_ID
    key_shmid,  \* ShmManager: key <-> id
    ids,        \* ShmManager::shmid_inner: the ids with a segment
    shmid_vaddr,\* ShmManager::pid_shmid_vaddr: id <-> address, per process
    va_range,   \* ShmInner::va_range of each segment
    rmid,       \* ShmInner::rmid of each segment
    space,      \* the address space of each process: the segment at a page
    manager,    \* owner of SHM_MANAGER
    inner,      \* owner of the lock of a segment
    aspace,     \* owner of the lock of an address space
    pc,         \* where a thread is
    arg,        \* the id and the address a thread works on
    todo,       \* the ids clear_proc_shm has still to visit
    panicked    \* an assertion or an unwrap failed: the kernel has stopped

maps == <<nextId, key_shmid, ids, shmid_vaddr>>
segs == <<va_range, rmid>>
locks == <<manager, inner, aspace>>
local == <<pc, arg, todo>>
vars == <<maps, segs, space, locks, local, panicked>>

Pc == {"idle", "getInner", "atInner", "atSpace", "atMgr", "dtArc", "dtInner", "dtSpace",
       "dtMgr", "ctlInner", "exitLock", "exitNext", "gone"}

PartialFn(f, A, B) == DOMAIN f \subseteq A /\ \A x \in DOMAIN f : f[x] \in B

TypeOK ==
    /\ nextId \in 0 .. MaxId
    /\ PartialFn(key_shmid.forward, Key, Id) /\ PartialFn(key_shmid.reverse, Id, Key)
    /\ ids \subseteq 0 .. nextId - 1
    /\ \A p \in Proc : /\ PartialFn(shmid_vaddr[p].forward, Id, Vaddr)
                       /\ PartialFn(shmid_vaddr[p].reverse, Vaddr, Id)
                       /\ PartialFn(space[p], Vaddr, Id)
    /\ \A i \in Id : PartialFn(va_range[i], Proc, Vaddr)
    /\ rmid \in [Id -> BOOLEAN]
    /\ manager \in Thread \cup {NoThread}
    /\ inner \in [Id -> Thread \cup {NoThread}]
    /\ aspace \in [Proc -> Thread \cup {NoThread}]
    /\ pc \in [Thread -> Pc]
    /\ arg \in [Thread -> [id : Id, addr : Vaddr]]
    /\ todo \in [Thread -> SUBSET Id]
    /\ panicked \in BOOLEAN

NoArg == [id |-> 0, addr |-> CHOOSE a \in Vaddr : TRUE]

Init ==
    /\ nextId = 0
    /\ key_shmid = EmptyMap
    /\ ids = {}
    /\ shmid_vaddr = [p \in Proc |-> EmptyMap]
    /\ va_range = [i \in Id |-> [p \in {} |-> p]]
    /\ rmid = [i \in Id |-> FALSE]
    /\ space = [p \in Proc |-> [a \in {} |-> a]]
    /\ manager = NoThread
    /\ inner = [i \in Id |-> NoThread]
    /\ aspace = [p \in Proc |-> NoThread]
    /\ pc = [t \in Thread |-> "idle"]
    /\ arg = [t \in Thread |-> NoArg]
    /\ todo = [t \in Thread |-> {}]
    /\ panicked = FALSE

-----------------------------------------------------------------------------
(* Locks and returns.                                                      *)

Goto(t, l) == pc' = [pc EXCEPT ![t] = l]
Busy(t, id, addr) == arg' = [arg EXCEPT ![t] = [id |-> id, addr |-> addr]]
Return(t) == Goto(t, "idle") /\ arg' = [arg EXCEPT ![t] = NoArg] /\ UNCHANGED todo

\* The guards of t go out of scope.
Release(t) ==
    /\ manager' = IF manager = t THEN NoThread ELSE manager
    /\ inner' = [i \in Id |-> IF inner[i] = t THEN NoThread ELSE inner[i]]
    /\ aspace' = [p \in Proc |-> IF aspace[p] = t THEN NoThread ELSE aspace[p]]

Panic ==
    /\ panicked' = TRUE
    /\ UNCHANGED <<maps, segs, space, locks, local>>

\* A thread of a process that has not begun to exit makes a call.
MayCall(t) ==
    /\ pc[t] = "idle"
    /\ \A u \in Thread : ProcOf[u] = ProcOf[t] => pc[u] \notin {"exitLock", "exitNext", "gone"}

\* ShmManager::remove_shmid.
RemoveShmid(id) ==
    /\ key_shmid' = RemoveByValue(key_shmid, id)
    /\ ids' = ids \ {id}

\* Mutant: a marked segment is removed whoever is still attached.
DetachRemovesMarked(p, id) ==
    /\ va_range' = [va_range EXCEPT ![id] = Drop(@, p)]
    /\ IF rmid[id] THEN RemoveShmid(id) ELSE UNCHANGED <<key_shmid, ids>>

\* ShmInner::detach_process, and the end of a segment that is marked and that
\* nobody is attached to.
Detach(p, id) ==
    /\ va_range' = [va_range EXCEPT ![id] = Drop(@, p)]
    /\ IF rmid[id] /\ DOMAIN va_range[id] = {p}
       THEN RemoveShmid(id)
       ELSE UNCHANGED <<key_shmid, ids>>

-----------------------------------------------------------------------------
(* sys_shmget.                                                             *)

\* Under SHM_MANAGER: a new segment, or the one that has the key.
Shmget(t, key) ==
    /\ MayCall(t)
    /\ manager = NoThread
    /\ IF key # Private /\ key \in DOMAIN key_shmid.forward
       THEN /\ manager' = t
            /\ Goto(t, "getInner")
            /\ Busy(t, key_shmid.forward[key], NoArg.addr)
            /\ UNCHANGED <<maps, inner, aspace>>
       ELSE /\ nextId < MaxId
            /\ nextId' = nextId + 1
            /\ key_shmid' = Insert(key_shmid, key, nextId)
            /\ ids' = ids \cup {nextId}
            /\ UNCHANGED <<shmid_vaddr, locks, pc, arg>>
    /\ UNCHANGED <<segs, space, todo, panicked>>

\* try_update, under the segment's lock too.
ShmgetInner(t) ==
    /\ pc[t] = "getInner"
    /\ inner[arg[t].id] = NoThread
    /\ Release(t)
    /\ Return(t)
    /\ UNCHANGED <<maps, segs, space, panicked>>

-----------------------------------------------------------------------------
(* sys_shmat.                                                              *)

\* `get_inner_by_shmid(shmid).unwrap()`
Shmat(t, id) ==
    /\ MayCall(t)
    /\ manager = NoThread
    /\ IF id \in ids
       THEN /\ Goto(t, "atInner")
            /\ Busy(t, id, NoArg.addr)
            /\ UNCHANGED <<maps, segs, space, locks, todo, panicked>>
       ELSE Panic

ShmatInner(t) ==
    /\ pc[t] = "atInner"
    /\ inner[arg[t].id] = NoThread
    /\ inner' = [inner EXCEPT ![arg[t].id] = t]
    /\ Goto(t, "atSpace")
    /\ UNCHANGED <<maps, segs, space, manager, aspace, arg, todo, panicked>>

\* Lock the address space, assert that the process is not attached yet, find
\* a free area.
ShmatSpace(t) ==
    LET p == ProcOf[t]
        free == Vaddr \ DOMAIN space[p]
    IN  /\ pc[t] = "atSpace"
        /\ aspace[p] = NoThread
        /\ IF p \in DOMAIN va_range[arg[t].id] THEN Panic
           ELSE /\ \/ \E a \in free :
                        /\ aspace' = [aspace EXCEPT ![p] = t]
                        /\ Goto(t, "atMgr")
                        /\ Busy(t, arg[t].id, a)
                        /\ UNCHANGED <<manager, inner, todo>>
                   \/ free = {} /\ Release(t) /\ Return(t)
                /\ UNCHANGED <<maps, segs, space, panicked>>

\* Mutant: attached also when the map has failed.
ShmatMgrUnmapped(t) ==
    LET p == ProcOf[t]
        a == arg[t]
    IN  /\ pc[t] = "atMgr"
        /\ manager = NoThread
        /\ shmid_vaddr' = [shmid_vaddr EXCEPT ![p] = Insert(@, a.id, a.addr)]
        /\ va_range' = [va_range EXCEPT ![a.id] = Put(@, p, a.addr)]
        /\ space' \in {space, [space EXCEPT ![p] = Put(@, a.addr, a.id)]}
        /\ Release(t)
        /\ Return(t)
        /\ UNCHANGED <<nextId, key_shmid, ids, rmid, panicked>>

\* insert_shmid_vaddr; map the pages, which may fail; attach_process.
ShmatMgr(t) ==
    LET p == ProcOf[t]
        a == arg[t]
    IN  /\ pc[t] = "atMgr"
        /\ manager = NoThread
        /\ shmid_vaddr' = [shmid_vaddr EXCEPT ![p] = Insert(@, a.id, a.addr)]
        /\ \/ /\ space' = [space EXCEPT ![p] = Put(@, a.addr, a.id)]
              /\ va_range' = [va_range EXCEPT ![a.id] = Put(@, p, a.addr)]
           \/ UNCHANGED <<space, va_range>>
        /\ Release(t)
        /\ Return(t)
        /\ UNCHANGED <<nextId, key_shmid, ids, rmid, panicked>>

-----------------------------------------------------------------------------
(* sys_shmdt.                                                              *)

Shmdt(t, addr) ==
    /\ MayCall(t)
    /\ manager = NoThread
    /\ addr \in DOMAIN shmid_vaddr[ProcOf[t]].reverse
    /\ Goto(t, "dtArc")
    /\ Busy(t, shmid_vaddr[ProcOf[t]].reverse[addr], addr)
    /\ UNCHANGED <<maps, segs, space, locks, todo, panicked>>

ShmdtArc(t) ==
    /\ pc[t] = "dtArc"
    /\ manager = NoThread
    /\ IF arg[t].id \in ids
       THEN Goto(t, "dtInner") /\ UNCHANGED <<arg, todo>>
       ELSE Return(t)
    /\ UNCHANGED <<maps, segs, space, locks, panicked>>

ShmdtInner(t) ==
    LET id == arg[t].id IN
    /\ pc[t] = "dtInner"
    /\ inner[id] = NoThread
    /\ IF ProcOf[t] \in DOMAIN va_range[id]
       THEN /\ inner' = [inner EXCEPT ![id] = t]
            /\ Goto(t, "dtSpace")
            /\ UNCHANGED <<arg, todo>>
       ELSE Return(t) /\ UNCHANGED inner
    /\ UNCHANGED <<maps, segs, space, manager, aspace, panicked>>

\* What is unmapped is the range of the segment, not the address passed in.
ShmdtSpace(t) ==
    LET p == ProcOf[t] IN
    /\ pc[t] = "dtSpace"
    /\ aspace[p] = NoThread
    /\ aspace' = [aspace EXCEPT ![p] = t]
    /\ space' = [space EXCEPT ![p] = Drop(@, va_range[arg[t].id][p])]
    /\ Goto(t, "dtMgr")
    /\ UNCHANGED <<maps, segs, manager, inner, arg, todo, panicked>>

\* remove_shmaddr and detach_process.
ShmdtMgr(t) ==
    LET p == ProcOf[t] IN
    /\ pc[t] = "dtMgr"
    /\ manager = NoThread
    /\ shmid_vaddr' = [shmid_vaddr EXCEPT ![p] = RemoveByValue(@, arg[t].addr)]
    /\ Detach(p, arg[t].id)
    /\ Release(t)
    /\ Return(t)
    /\ UNCHANGED <<nextId, rmid, space, panicked>>

-----------------------------------------------------------------------------
(* sys_shmctl with IPC_RMID; the other commands change no state kept here. *)

Shmctl(t, id) ==
    /\ MayCall(t)
    /\ manager = NoThread
    /\ id \in ids
    /\ Goto(t, "ctlInner")
    /\ Busy(t, id, NoArg.addr)
    /\ UNCHANGED <<maps, segs, space, locks, todo, panicked>>

ShmctlRmid(t) ==
    /\ pc[t] = "ctlInner"
    /\ inner[arg[t].id] = NoThread
    /\ rmid' = [rmid EXCEPT ![arg[t].id] = TRUE]
    /\ Return(t)
    /\ UNCHANGED <<maps, va_range, space, locks, panicked>>

-----------------------------------------------------------------------------
(* The last thread of a process exits: do_exit and clear_proc_shm.         *)

Exit(t) ==
    /\ \A u \in Thread : ProcOf[u] = ProcOf[t] => pc[u] = "idle"
    /\ Goto(t, "exitLock")
    /\ UNCHANGED <<maps, segs, space, locks, arg, todo, panicked>>

ExitLock(t) ==
    /\ pc[t] = "exitLock"
    /\ manager = NoThread
    /\ manager' = t
    /\ todo' = [todo EXCEPT ![t] = DOMAIN shmid_vaddr[ProcOf[t]].forward]
    /\ Goto(t, "exitNext")
    /\ UNCHANGED <<maps, segs, space, inner, aspace, arg, panicked>>

\* The ids in ascending order.  detach_process asserts that the process is
\* attached.
ExitNext(t) ==
    LET id == Min(todo[t])
        p == ProcOf[t]
    IN  /\ pc[t] = "exitNext"
        /\ todo[t] # {}
        /\ IF id \in ids
           THEN /\ inner[id] = NoThread
                /\ IF p \notin DOMAIN va_range[id] THEN Panic
                   ELSE /\ Detach(p, id)
                        /\ todo' = [todo EXCEPT ![t] = @ \ {id}]
                        /\ UNCHANGED <<nextId, shmid_vaddr, rmid, space, locks, pc, arg,
                                       panicked>>
           ELSE /\ todo' = [todo EXCEPT ![t] = @ \ {id}]
                /\ UNCHANGED <<maps, segs, space, locks, pc, arg, panicked>>

\* remove_pid.  The address space goes with the process.
ExitDone(t) ==
    /\ pc[t] = "exitNext"
    /\ todo[t] = {}
    /\ shmid_vaddr' = [shmid_vaddr EXCEPT ![ProcOf[t]] = EmptyMap]
    /\ space' = [space EXCEPT ![ProcOf[t]] = [a \in {} |-> a]]
    /\ Release(t)
    /\ Goto(t, "gone")
    /\ UNCHANGED <<nextId, key_shmid, ids, segs, arg, todo, panicked>>

-----------------------------------------------------------------------------
Call(t) ==
    \/ \E k \in Key : Shmget(t, k)
    \/ \E i \in 0 .. nextId - 1 : Shmat(t, i) \/ Shmctl(t, i)
    \/ \E a \in Vaddr : Shmdt(t, a)
    \/ Exit(t)

Step(t) ==
    \/ ShmgetInner(t)
    \/ ShmatInner(t) \/ ShmatSpace(t) \/ ShmatMgr(t)
    \/ ShmdtArc(t) \/ ShmdtInner(t) \/ ShmdtSpace(t) \/ ShmdtMgr(t)
    \/ ShmctlRmid(t)
    \/ ExitLock(t) \/ ExitNext(t) \/ ExitDone(t)

Next == ~ panicked /\ \E t \in Thread : Call(t) \/ Step(t)

Spec == Init /\ [][Next]_vars

-----------------------------------------------------------------------------
(* Properties.                                                             *)

\* BiBTreeMap keeps its two maps the inverse of each other through every
\* insert and remove: a key or an address never leads to a segment that does
\* not lead back.
MapsAreInverse ==
    /\ TwoWay(key_shmid)
    /\ \A p \in Proc : TwoWay(shmid_vaddr[p])

\* A key leads to a segment that exists: get_inner_by_shmid in shmget never
\* fails on an id that key_shmid gave.
KeyLeadsToSegment == DOMAIN key_shmid.reverse \subseteq ids

\* A segment has a range in a process just if its pages are mapped there, but
\* for a thread inside shmdt that has unmapped them and holds the segment's
\* lock until it has detached, and for a process on its way out; failed maps,
\* threads racing in shmat and shmdt and segments removed under them change
\* nothing about it.  A process with one thread that has exited is attached to
\* nothing.  (With more threads, one that detaches an address while another
\* attaches to it again can remove the record of the wrong segment.)
MappedIffAttached ==
    /\ \A p \in Proc, i \in Id :
         (\A t \in Thread : ProcOf[t] = p =>
             /\ ~ (pc[t] = "dtMgr" /\ arg[t].id = i)
             /\ pc[t] \notin {"exitNext", "gone"}) =>
         {a \in DOMAIN space[p] : space[p][a] = i} =
             {va_range[i][q] : q \in DOMAIN va_range[i] \cap {p}}
    /\ \A t \in Thread :
         (pc[t] = "gone" /\ \A u \in Thread : ProcOf[u] = ProcOf[t] => u = t) =>
             \A i \in ids : ProcOf[t] \notin DOMAIN va_range[i]

\* A segment goes only after IPC_RMID and when no process is attached.
RemovedWhenDetached ==
    [][\A i \in ids \ ids' : rmid[i] /\ va_range'[i] = [p \in {} |-> p]]_vars
=============================================================================
