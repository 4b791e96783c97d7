------------------------------- MODULE Tmpfs -------------------------------
(***************************************************************************)
(* The in-memory filesystem of api/src/vfs/tmp.rs: inodes in a slab,       *)
(* counted by the InodeRefs of directory entries and freed by whichever of *)
(* the last InodeRef and the last MemoryNode goes last.                    *)
(*                                                                         *)
(* The layer above (axfs_ng_vfs) is modelled by how the file uses it: with *)
(* ALWAYS_CACHE it keeps one MemoryNode of an inode for as long as some    *)
(* directory names it or someone outside holds it (an open file, a working *)
(* directory, a call under way), and drops it after that.                  *)
(***************************************************************************)
EXTENDS Naturals, FiniteSets, Sequences, Functions, TLC

CONSTANTS
    Ino,    \* inode numbers: the slab (a bound)
    Root,
    Sorted, \* the file names there are, in the order of BTreeMap
    Task,
    None

Name == Range(Sorted)

ASSUME TmpfsAssumption == Root \in Ino /\ {".", ".."} \cap Name = {} /\ None \notin Ino

VARIABLES
    inodes,  \* the slab: [type, nlink, entries], or Vacant
    node,    \* the inodes that have a MemoryNode
    held,    \* how many hold a MemoryNode from outside, per inode
    rename   \* the rename each task is in: [at, from, src, to, dst, ref]

tmpVars == <<inodes, node, held, rename>>

Empty == [n \in {} |-> None]
Vacant == [type |-> "vacant", nlink |-> 0, entries |-> Empty]
Idle == [at |-> "idle", from |-> None, src |-> None, to |-> None, dst |-> None, ref |-> None]

\* x is the one that is taken of the objects of S, which are all alike.
Takes(x, S) == x \in S /\ x = CHOOSE y \in S : TRUE

Used == {i \in Ino : inodes[i] # Vacant}
Dirs == {i \in Used : inodes[i].type = "dir"}

\* The directories a path leads to, and those someone holds.
Usable == Dirs \cap node

TmpfsInit ==
    /\ inodes = [i \in Ino |->
            IF i = Root
            THEN [type |-> "dir", nlink |-> 2,
                  entries |-> [n \in {".", ".."} |-> Root]]
            ELSE Vacant]
    /\ node = {Root}
    /\ held = [i \in Ino |-> IF i = Root THEN 1 ELSE 0]
    /\ rename = [t \in Task |-> Idle]

-----------------------------------------------------------------------------
(* Entries and links, as functions of the slab s.                          *)

\* entries.insert of an InodeRef to i as n in directory d, with its count.
Insert(s, d, n, i) ==
    [[s EXCEPT ![i].nlink = @ + 1] EXCEPT ![d].entries = (n :> i) @@ @]

Remove(s, d, n) == [s EXCEPT ![d].entries = Restrict(@, DOMAIN @ \ {n})]

\* Mutant: an inode without links goes, open or not.
ReleaseAtZero(s, nodes, i) ==
    IF s[i].nlink = 1 THEN [s EXCEPT ![i] = Vacant] ELSE [s EXCEPT ![i].nlink = @ - 1]

\* release_inode for an InodeRef to i that is dropped: the inode goes with its last
\* link unless a MemoryNode has it.
Release(s, nodes, i) ==
    IF s[i].nlink = 1 /\ i \notin nodes
    THEN [s EXCEPT ![i] = Vacant]
    ELSE [s EXCEPT ![i].nlink = @ - 1]

\* entries.clear() of directory d, while its MemoryNode is there.
Clear(s, d) ==
    LET names == DOMAIN s[d].entries
        links(i) == Cardinality({n \in names : s[d].entries[n] = i})
    IN  [i \in Ino |->
            IF s[i].nlink = links(i) /\ links(i) > 0 /\ i \notin node THEN Vacant
            ELSE [s[i] EXCEPT !.nlink = @ - links(i),
                              !.entries = IF i = d THEN Empty ELSE @]]

\* Someone holds, or lets go of, the nodes of a set.
Hold(is) == held' = [i \in Ino |-> IF i \in is THEN held[i] + 1 ELSE held[i]]

-----------------------------------------------------------------------------
(* The operations of a directory d.                                        *)

\* Inode::new, with "." and ".." for a directory.
NewInode(i, d, type) ==
    LET s == [inodes EXCEPT ![i] = [type |-> type, nlink |-> 0, entries |-> Empty]]
    IN  IF type = "dir" THEN Insert(Insert(s, i, ".", i), i, "..", d) ELSE s

\* create: AlreadyExists, or a new inode i under the name.
Create(d, n, i, type) ==
    /\ d \in Usable
    /\ n \notin DOMAIN inodes[d].entries
    /\ Takes(i, Ino \ Used)
    /\ inodes' = Insert(NewInode(i, d, type), d, n, i)
    /\ node' = node \cup {i}

\* link: another name for a file.  sys_linkat refuses directories.
Link(d, n, i) ==
    /\ d \in Usable
    /\ i \in node /\ inodes[i].type = "file"
    /\ n \notin DOMAIN inodes[d].entries
    /\ inodes' = Insert(inodes, d, n, i)
    /\ UNCHANGED <<node, held, rename>>

\* unlink: not of a directory with entries besides "." and "..".
Unlink(d, n) ==
    /\ d \in Usable
    /\ n \in DOMAIN inodes[d].entries
    /\ LET i == inodes[d].entries[n]
       IN  /\ inodes[i].type = "dir" => Cardinality(DOMAIN inodes[i].entries) <= 2
           /\ inodes' = Release(Remove(inodes, d, n), node, i)
    /\ UNCHANGED <<node, held, rename>>

\* FileName's Ord: "." and ".." come first.
Ordered(d) == SelectSeq(<<".", "..">> \o Sorted, LAMBDA n : n \in DOMAIN inodes[d].entries)

\* read_dir: what is left of the entries after the first off of them.
ReadDir(d, off) == SubSeq(Ordered(d), off + 1, Len(Ordered(d)))

\* rename, by t.  "TODO: atomicity": an entry that is there is looked up first;
\* the node of the source that this lookup makes, when dropped again, clears a
\* directory.
RenameCheck(t, d, n, e, m) ==
    /\ rename[t] = Idle
    /\ {d, e} \subseteq Usable
    /\ LET from == inodes[d].entries
           to == inodes[e].entries
       IN  /\ n \in DOMAIN from
           /\ inodes' = IF m \in DOMAIN to /\ inodes[from[n]].type = "dir"
                        THEN Clear(inodes, from[n]) ELSE inodes
           /\ IF m \in DOMAIN to /\ to[m] = from[n]
              THEN UNCHANGED <<held, rename>>
              ELSE /\ Hold({d, e})
                   /\ rename' = [rename EXCEPT ![t] = [at |-> "remove", from |-> d, src |-> n,
                                                      to |-> e, dst |-> m, ref |-> None]]
    /\ UNCHANGED node

LetGo(t) ==
    held' = [i \in Ino |-> IF i \in {rename[t].from, rename[t].to} THEN held[i] - 1 ELSE held[i]]

\* The entry is taken out, or is gone by now.
RenameRemove(t) ==
    /\ rename[t].at = "remove"
    /\ LET d == rename[t].from
           n == rename[t].src
       IN  IF n \in DOMAIN inodes[d].entries
           THEN /\ inodes' = Remove(inodes, d, n)
                /\ rename' = [rename EXCEPT ![t].at = "insert",
                                            ![t].ref = inodes[d].entries[n]]
                /\ UNCHANGED held
           ELSE /\ rename' = [rename EXCEPT ![t] = Idle]
                /\ LetGo(t)
                /\ UNCHANGED inodes
    /\ UNCHANGED node

\* Mutant: the entry that is replaced keeps its link.
RenameInsertLeaks(t) ==
    /\ rename[t].at = "insert"
    /\ inodes' = [inodes EXCEPT ![rename[t].to].entries = (rename[t].dst :> rename[t].ref) @@ @]
    /\ rename' = [rename EXCEPT ![t] = Idle]
    /\ LetGo(t)
    /\ UNCHANGED node

\* It is put in its new place; what was there is dropped.
RenameInsert(t) ==
    /\ rename[t].at = "insert"
    /\ LET e == rename[t].to
           m == rename[t].dst
           there == inodes[e].entries
           s == [inodes EXCEPT ![e].entries = (m :> rename[t].ref) @@ @]
       IN  inodes' = IF m \in DOMAIN there THEN Release(s, node, there[m]) ELSE s
    /\ rename' = [rename EXCEPT ![t] = Idle]
    /\ LetGo(t)
    /\ UNCHANGED node

Moving == {rename[t].ref : t \in {t \in Task : rename[t].at = "insert"}}

\* Someone can still reach the node of i.
Kept(i) ==
    \/ held[i] > 0
    \/ i \in Moving
    \/ \E d \in Dirs : \E n \in Name : n \in DOMAIN inodes[d].entries /\ inodes[d].entries[n] = i

\* Mutant: the inode is left to the InodeRefs.
DropNodeKeeps(i) ==
    /\ i \in node
    /\ ~Kept(i)
    /\ node' = node \ {i}
    /\ inodes' = IF inodes[i].type = "dir" THEN Clear(inodes, i) ELSE inodes
    /\ UNCHANGED <<held, rename>>

\* Drop for MemoryNode: a directory is cleared, an inode without links goes.
DropNode(i) ==
    /\ i \in node
    /\ ~Kept(i)
    /\ node' = node \ {i}
    /\ LET s == IF inodes[i].type = "dir" THEN Clear(inodes, i) ELSE inodes
       IN  inodes' = IF s[i].nlink = 0 THEN [s EXCEPT ![i] = Vacant] ELSE s
    /\ UNCHANGED <<held, rename>>

RenameStep(t) == RenameRemove(t) \/ RenameInsert(t)

-----------------------------------------------------------------------------
(* Properties.                                                             *)

Entry == {<<d, n>> \in Used \X (Name \cup {".", ".."}) : n \in DOMAIN inodes[d].entries}

\* nlink of every inode is the number of InodeRefs there are to it, those a rename
\* has in hand included: none is dropped twice or forgotten.
NlinkCounts ==
    \A i \in Used : inodes[i].nlink =
        Cardinality({x \in Entry : inodes[x[1]].entries[x[2]] = i})
          + Cardinality({t \in Task : rename[t].at = "insert" /\ rename[t].ref = i})

\* fs.get never meets a vacant slot: what a directory entry, a rename, a node or a
\* holder refers to is in the slab.
NoDangling ==
    /\ \A x \in Entry : inodes[x[1]].entries[x[2]] \in Used
    /\ Moving \cup node \cup {i \in Ino : held[i] > 0} \subseteq Used

\* No inode stays in the slab without a link and without a node.
Reclaimed == \A i \in Used : inodes[i].nlink > 0 \/ i \in node
=============================================================================
