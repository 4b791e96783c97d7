----------------------------- MODULE ShmProofs -----------------------------
(***************************************************************************)
(* Proofs about Shm for any processes, threads, keys, addresses and ids:   *)
(* the two-way maps stay two-way, and a key leads to a segment.            *)
(***************************************************************************)
EXTENDS Shm, TLAPS

\* BiBTreeMap::insert keeps the two maps inverse to each other, whatever the
\* key and the value led to before.
LEMMA InsertTwoWay ==
    ASSUME NEW m, NEW k, NEW v, TwoWay(m)
    PROVE  TwoWay(Insert(m, k, v))
<1> DEFINE f == IF v \in DOMAIN m.reverse THEN Drop(m.forward, m.reverse[v]) ELSE m.forward
           r == Put(m.reverse, v, k)
           F == Put(f, k, v)
           R == IF k \in DOMAIN f THEN Drop(r, f[k]) ELSE r
<1>1. Insert(m, k, v).forward = F /\ Insert(m, k, v).reverse = R
  BY DEF Insert
<1>2. /\ DOMAIN f \subseteq DOMAIN m.forward
      /\ \A x \in DOMAIN f : f[x] = m.forward[x] /\ f[x] # v
  BY DEF TwoWay, Drop
<1>3. \A x \in DOMAIN m.forward : x \notin DOMAIN f => v \in DOMAIN m.reverse /\ x = m.reverse[v]
  BY DEF Drop
<1>4. /\ DOMAIN F = DOMAIN f \cup {k} /\ F[k] = v
      /\ \A x \in DOMAIN f : x # k => F[x] = f[x]
  BY DEF Put
<1>5. /\ DOMAIN r = DOMAIN m.reverse \cup {v} /\ r[v] = k
      /\ \A y \in DOMAIN m.reverse : y # v => r[y] = m.reverse[y]
  BY DEF Put
<1>6. /\ \A y \in DOMAIN R : y \in DOMAIN r /\ R[y] = r[y] /\ (k \in DOMAIN f => y # f[k])
      /\ \A y \in DOMAIN r : y \in DOMAIN R \/ (k \in DOMAIN f /\ y = f[k])
  BY DEF Drop
<1> HIDE DEF f, r, F, R
<1>7. \A x \in DOMAIN F : F[x] \in DOMAIN R /\ R[F[x]] = x
  <2> TAKE x \in DOMAIN F
  <2>1. CASE x = k
    BY <2>1, <1>2, <1>4, <1>5, <1>6
  <2>2. CASE x # k
    <3>1. x \in DOMAIN f /\ F[x] = m.forward[x] /\ F[x] # v /\ F[x] = f[x]
      BY <2>2, <1>2, <1>4
    <3>2. F[x] \in DOMAIN m.reverse /\ m.reverse[F[x]] = x
      BY <3>1, <1>2 DEF TwoWay
    <3>3. F[x] \in DOMAIN r /\ r[F[x]] = x
      BY <3>1, <3>2, <1>5
    <3>4. ~ (k \in DOMAIN f /\ F[x] = f[k])
      BY <2>2, <3>1, <3>2, <1>2 DEF TwoWay
    <3> QED BY <3>3, <3>4, <1>6
  <2> QED BY <2>1, <2>2
<1>8. \A y \in DOMAIN R : R[y] \in DOMAIN F /\ F[R[y]] = y
  <2> TAKE y \in DOMAIN R
  <2>1. y \in DOMAIN r /\ R[y] = r[y] /\ (k \in DOMAIN f => y # f[k])
    BY <1>6
  <2>2. CASE y = v
    BY <2>1, <2>2, <1>4, <1>5
  <2>3. CASE y # v
    <3>1. y \in DOMAIN m.reverse /\ R[y] = m.reverse[y]
      BY <2>1, <2>3, <1>5
    <3>2. m.reverse[y] \in DOMAIN m.forward /\ m.forward[m.reverse[y]] = y
      BY <3>1 DEF TwoWay
    <3>3. m.reverse[y] \in DOMAIN f
      BY <2>3, <3>2, <1>3 DEF TwoWay
    <3>4. m.reverse[y] # k
      BY <2>1, <3>2, <3>3, <1>2
    <3> QED BY <3>1, <3>2, <3>3, <3>4, <1>2, <1>4
  <2> QED BY <2>2, <2>3
<1> QED BY <1>1, <1>7, <1>8 DEF TwoWay

\* So does BiBTreeMap::remove_by_value.
LEMMA RemoveTwoWay ==
    ASSUME NEW m, NEW v, TwoWay(m)
    PROVE  TwoWay(RemoveByValue(m, v))
<1>1. CASE v \in DOMAIN m.reverse
  <2>1. /\ RemoveByValue(m, v).forward = Drop(m.forward, m.reverse[v])
        /\ RemoveByValue(m, v).reverse = Drop(m.reverse, v)
    BY <1>1 DEF RemoveByValue
  <2> QED BY <1>1, <2>1 DEF TwoWay, Drop
<1>2. CASE v \notin DOMAIN m.reverse
  BY <1>2 DEF RemoveByValue
<1> QED BY <1>1, <1>2

\* BiBTreeMap::new is a two-way map.
LEMMA EmptyTwoWay == TwoWay(EmptyMap)
  BY DEF TwoWay, EmptyMap

-----------------------------------------------------------------------------
\* What insert and remove_by_value do to the values of a map.
LEMMA ReverseDomain ==
    ASSUME NEW m, NEW k, NEW v
    PROVE  /\ DOMAIN Insert(m, k, v).reverse \subseteq DOMAIN m.reverse \cup {v}
           /\ DOMAIN RemoveByValue(m, v).reverse \subseteq DOMAIN m.reverse \ {v}
  BY DEF Insert, RemoveByValue, Put, Drop

MInv ==
    /\ DOMAIN shmid_vaddr = Proc
    /\ MapsAreInverse
    /\ KeyLeadsToSegment

\* The parts of the state MInv is about.
mapVars == <<key_shmid, ids, shmid_vaddr>>

\* The empty manager (ShmManager::new) satisfies the invariant.
LEMMA InitMInv == Init => MInv
  BY EmptyTwoWay DEF Init, MInv, MapsAreInverse, KeyLeadsToSegment, EmptyMap

\* A step that leaves the maps of ShmManager alone preserves the invariant.
LEMMA StutterMInv == MInv /\ UNCHANGED mapVars => MInv'
  BY DEF MInv, MapsAreInverse, KeyLeadsToSegment, mapVars

\* remove_shmid and the detaching around it leave the manager's maps fit.
LEMMA DetachMaps ==
    ASSUME MInv, NEW p, NEW i, Detach(p, i)
    PROVE  TwoWay(key_shmid') /\ DOMAIN key_shmid'.reverse \subseteq ids'
<1>1. CASE UNCHANGED <<key_shmid, ids>>
  BY <1>1 DEF MInv, MapsAreInverse, KeyLeadsToSegment
<1>2. CASE RemoveShmid(i)
  <2>1. TwoWay(key_shmid')
    BY <1>2, RemoveTwoWay DEF RemoveShmid, MInv, MapsAreInverse
  <2>2. DOMAIN key_shmid'.reverse \subseteq DOMAIN key_shmid.reverse \ {i}
    BY <1>2, ReverseDomain DEF RemoveShmid
  <2> QED BY <1>2, <2>1, <2>2 DEF RemoveShmid, MInv, KeyLeadsToSegment
<1> QED BY <1>1, <1>2 DEF Detach

\* Every call that only takes locks or works on a segment leaves the maps
\* alone.
LEMMA CallMInv ==
    ASSUME MInv, NEW t \in Thread, Call(t)
    PROVE  MInv'
<1>1. ASSUME NEW k \in Key, Shmget(t, k) PROVE MInv'
  <2>1. CASE UNCHANGED maps
    BY <2>1, StutterMInv DEF maps, mapVars
  <2>2. CASE /\ key_shmid' = Insert(key_shmid, k, nextId)
             /\ ids' = ids \cup {nextId}
             /\ UNCHANGED shmid_vaddr
    <3>1. TwoWay(key_shmid')
      BY <2>2, InsertTwoWay DEF MInv, MapsAreInverse
    <3>2. DOMAIN key_shmid'.reverse \subseteq DOMAIN key_shmid.reverse \cup {nextId}
      BY <2>2, ReverseDomain
    <3> QED BY <2>2, <3>1, <3>2 DEF MInv, MapsAreInverse, KeyLeadsToSegment
  <2> QED BY <1>1, <2>1, <2>2 DEF Shmget
<1>2. ASSUME NEW i \in 0 .. nextId - 1, Shmat(t, i) \/ Shmctl(t, i) PROVE MInv'
  BY <1>2, StutterMInv DEF Shmat, Shmctl, Panic, maps, mapVars
<1>3. ASSUME NEW a \in Vaddr, Shmdt(t, a) PROVE MInv'
  BY <1>3, StutterMInv DEF Shmdt, maps, mapVars
<1>4. CASE Exit(t)
  BY <1>4, StutterMInv DEF Exit, maps, mapVars
<1> QED BY <1>1, <1>2, <1>3, <1>4 DEF Call

\* Inside the calls, shmat, shmdt and the exit of a process change the maps.
LEMMA StepMInv ==
    ASSUME MInv, NEW t \in Thread, Step(t)
    PROVE  MInv'
<1>0. ProcOf[t] \in Proc
  BY ProcAssumption
<1>1. CASE ShmgetInner(t) \/ ShmatInner(t) \/ ShmdtArc(t) \/ ShmdtInner(t) \/ ShmdtSpace(t)
           \/ ShmctlRmid(t) \/ ExitLock(t)
  BY <1>1, StutterMInv DEF ShmgetInner, ShmatInner, ShmdtArc, ShmdtInner, ShmdtSpace,
     ShmctlRmid, ExitLock, maps, mapVars
<1>2. CASE ShmatSpace(t)
  BY <1>2, StutterMInv DEF ShmatSpace, Panic, maps, mapVars
<1>3. CASE ShmatMgr(t)
  <2>1. /\ shmid_vaddr' = [shmid_vaddr EXCEPT ![ProcOf[t]] = Insert(@, arg[t].id, arg[t].addr)]
        /\ UNCHANGED <<key_shmid, ids>>
    BY <1>3 DEF ShmatMgr
  <2>2. TwoWay(Insert(shmid_vaddr[ProcOf[t]], arg[t].id, arg[t].addr))
    BY <1>0, InsertTwoWay DEF MInv, MapsAreInverse
  <2> QED BY <1>0, <2>1, <2>2 DEF MInv, MapsAreInverse, KeyLeadsToSegment
<1>4. CASE ShmdtMgr(t)
  <2>1. /\ shmid_vaddr' = [shmid_vaddr EXCEPT ![ProcOf[t]] = RemoveByValue(@, arg[t].addr)]
        /\ Detach(ProcOf[t], arg[t].id)
    BY <1>4 DEF ShmdtMgr
  <2>2. TwoWay(RemoveByValue(shmid_vaddr[ProcOf[t]], arg[t].addr))
    BY <1>0, RemoveTwoWay DEF MInv, MapsAreInverse
  <2>3. TwoWay(key_shmid') /\ DOMAIN key_shmid'.reverse \subseteq ids'
    BY <2>1, DetachMaps
  <2> QED BY <1>0, <2>1, <2>2, <2>3 DEF MInv, MapsAreInverse, KeyLeadsToSegment
<1>5. CASE ExitNext(t)
  <2>1. CASE UNCHANGED mapVars
    BY <2>1, StutterMInv
  <2>2. CASE Detach(ProcOf[t], Min(todo[t])) /\ UNCHANGED shmid_vaddr
    <3>1. TwoWay(key_shmid') /\ DOMAIN key_shmid'.reverse \subseteq ids'
      BY <2>2, DetachMaps
    <3> QED BY <2>2, <3>1 DEF MInv, MapsAreInverse, KeyLeadsToSegment
  <2> QED BY <1>5, <2>1, <2>2 DEF ExitNext, Panic, maps, mapVars
<1>6. CASE ExitDone(t)
  BY <1>0, <1>6, EmptyTwoWay DEF ExitDone, MInv, MapsAreInverse, KeyLeadsToSegment
<1> QED BY <1>1, <1>2, <1>3, <1>4, <1>5, <1>6 DEF Step

\* Every call on the manager, and the exit of a process, preserves it.
LEMMA NextMInv == MInv /\ [Next]_vars => MInv'
<1>1. MInv /\ Next => MInv'
  BY CallMInv, StepMInv DEF Next
<1>2. MInv /\ UNCHANGED vars => MInv'
  BY StutterMInv DEF vars, maps, mapVars
<1> QED BY <1>1, <1>2

\* The manager's maps key <-> id and id <-> address are two-way in every state,
\* however shmget, shmat, shmdt and exits interleave and fail.
THEOREM MapsStayInverse == Spec => []MapsAreInverse
<1>1. MInv => MapsAreInverse
  BY DEF MInv
<1> QED BY <1>1, InitMInv, NextMInv, PTL DEF Spec

\* shmget never finds a key whose segment is gone.
THEOREM KeysLeadToSegments == Spec => []KeyLeadsToSegment
<1>1. MInv => KeyLeadsToSegment
  BY DEF MInv
<1> QED BY <1>1, InitMInv, NextMInv, PTL DEF Spec
=============================================================================
