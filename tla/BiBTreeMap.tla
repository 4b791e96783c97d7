----------------------------- MODULE BiBTreeMap -----------------------------
(***************************************************************************)
(* BiBTreeMap of core/src/shm.rs: a map that is looked up by key or by     *)
(* value, kept as two maps.  A map is a function on the keys it holds.     *)
(***************************************************************************)

\* BTreeMap::insert and BTreeMap::remove.
Put(f, k, v) == [x \in DOMAIN f \cup {k} |-> IF x = k THEN v ELSE f[x]]
Drop(f, k) == [x \in DOMAIN f \ {k} |-> f[x]]

EmptyMap == [forward |-> [x \in {} |-> x], reverse |-> [x \in {} |-> x]]

Insert(m, k, v) ==
    LET r == Put(m.reverse, v, k)
        f == IF v \in DOMAIN m.reverse THEN Drop(m.forward, m.reverse[v]) ELSE m.forward
    IN  [forward |-> Put(f, k, v),
         reverse |-> IF k \in DOMAIN f THEN Drop(r, f[k]) ELSE r]

RemoveByValue(m, v) ==
    IF v \in DOMAIN m.reverse
    THEN [forward |-> Drop(m.forward, m.reverse[v]), reverse |-> Drop(m.reverse, v)]
    ELSE m

\* The two maps say the same: each is the inverse of the other.
TwoWay(m) ==
    /\ \A k \in DOMAIN m.forward :
         m.forward[k] \in DOMAIN m.reverse /\ m.reverse[m.forward[k]] = k
    /\ \A v \in DOMAIN m.reverse :
         m.reverse[v] \in DOMAIN m.forward /\ m.forward[m.reverse[v]] = v
=============================================================================
