--------------------------------- MODULE Mm ---------------------------------
(***************************************************************************)
(* The user address spaces: mmap, munmap, mprotect, brk and                *)
(* mincore (api/src/syscall/mm), what clone copies or shares of them, and  *)
(* what execve loads (core/src/mm.rs).  The threads of a process share its *)
(* space and its heap_top; clone with VM gives the space, not the top, to  *)
(* the child as well.                                                      *)
(*                                                                         *)
(* An address is counted in half pages, so that alignment matters; a huge  *)
(* page is HUGE pages.  AddrSpace (axmm) is external: a space is what is   *)
(* mapped at each page.  Its map fails where something is mapped, unmap    *)
(* does not mind holes, find_free_area finds some aligned free area.       *)
(***************************************************************************)
EXTENDS Integers, Sequences, SequencesExt, FiniteSets

CONSTANTS
    Proc,
    Main,        \* the process that is there first
    Thread,
    ProcOf,      \* the process of each thread
    PAGES,       \* the pages of an address space
    HUGE,        \* the pages of a huge page
    HEAP_BASE,   \* of the heap, in pages: where it starts, ...
    HEAP_SIZE,   \* ... what is mapped when a program is loaded ...
    HEAP_MAX,    \* ... and how far brk goes
    STACK,       \* the page of the stack
    Exe,         \* executables
    Boot,        \* the one Main runs at first
    Interp,      \* the dynamic linker of each, or None
    CACHE,       \* the entries of ELF_LOADER
    Top,         \* the addresses brk is called with (a bound)
    Extent,      \* the <<address, length>> the other calls are made with (a bound)
    Workload,    \* the calls each thread makes, in the cases looked at (a bound)
    None

VARIABLES
    space,     \* the address space of a process (an Arc), or None
    pages,     \* what is mapped at each page of a space
    resident,  \* the pages of a space that have a frame
    heap_top,  \* of a process: an address
    pc,        \* the call a thread is in the middle of
    cache,     \* ELF_LOADER, the entry used last first
    image,     \* what execve was asked for, and what it mapped: [asked, exe, ldso]
    holes,     \* history: the heap pages of a space that brk did not change last
    stale,     \* history: the processes whose heap_top was read while brk ran
    load       \* what each thread may still call

vars == <<space, pages, resident, heap_top, pc, cache, image, holes, stale, load>>

\* The state of an address space, and the rest.
Space == <<pages, resident, holes>>
Rest == <<space, heap_top, pc, cache, image, stale>>

Page == 0 .. PAGES - 1
Unmapped == [kind |-> "none", prot |-> "none", huge |-> FALSE]
Area(kind, prot, huge) == [kind |-> kind, prot |-> prot, huge |-> huge]
InCall(at, addr, top, child) == [at |-> at, addr |-> addr, top |-> top, child |-> child]
Idle == InCall("idle", 0, 0, None)

PageDown(a) == a \div 2
PageUp(a) == (a + 1) \div 2      \* align_up_4k, as a page number

HeapArea == HEAP_BASE .. HEAP_BASE + HEAP_MAX - 1
InitialHeap == HEAP_BASE .. HEAP_BASE + HEAP_SIZE - 1

Of(t) == space[ProcOf[t]]
Free(s, ps) == \A p \in ps : pages[s][p] = Unmapped

\* Whether ps has no half of a huge page (what axmm does then is not modelled).
Block(p) == (p \div HUGE) * HUGE .. (p \div HUGE) * HUGE + HUGE - 1
Whole(s, ps) == \A p \in ps : pages[s][p].huge => Block(p) \subseteq ps

-----------------------------------------------------------------------------
(* The loader.                                                             *)

\* LRUCache: touch moves an entry to the front, insert puts one there.
Touch(c, e) == <<e>> \o SelectSeq(c, LAMBDA x : x # e)
Insert(c, e) == <<e>> \o (IF Len(c) < CACHE THEN c ELSE Front(c))

\* Mutant: an entry that is found stays where it is.
UseInPlace(c, e) == IF Contains(c, e) THEN c ELSE Insert(c, e)

Use(c, e) == IF Contains(c, e) THEN Touch(c, e) ELSE Insert(c, e)

\* ElfLoader::load: the entry at the front says which linker is wanted; what is
\* mapped is taken from the front of the cache again.
Load(c, e) ==
    LET c1 == Use(c, e)
        c2 == Use(c1, Interp[c1[1]])
    IN  IF Interp[c1[1]] = None THEN [cache |-> c1, exe |-> c1[1], ldso |-> None]
        ELSE [cache |-> c2, exe |-> c2[2], ldso |-> c2[1]]

NewSpace ==
    [p \in Page |->
        CASE p = 0 -> Area("image", "rx", FALSE)
          [] p = STACK -> Area("stack", "rw", FALSE)
          [] p \in InitialHeap -> Area("heap", "rw", FALSE)
          [] OTHER -> Unmapped]
NewResident == {STACK} \cup InitialHeap

Init ==
    /\ space = [p \in Proc |-> IF p = Main THEN Main ELSE None]
    /\ pages = [s \in Proc |-> IF s = Main THEN NewSpace ELSE [p \in Page |-> Unmapped]]
    /\ resident = [s \in Proc |-> IF s = Main THEN NewResident ELSE {}]
    /\ heap_top = [p \in Proc |-> 2 * HEAP_BASE]
    /\ pc = [t \in Thread |-> Idle]
    /\ cache = Load(<<>>, Boot).cache
    /\ image = [p \in Proc |-> [asked |-> Boot, exe |-> Boot, ldso |-> Interp[Boot]]]
    /\ holes = [s \in Proc |-> {}]
    /\ stale = {}
    /\ load \in Workload

-----------------------------------------------------------------------------
(* sys_execve by t, the only thread of its process, which keeps the lock   *)
(* of the space.                                                           *)

Alone(t) == \A u \in Thread : ProcOf[u] = ProcOf[t] /\ DOMAIN load[u] # {} => u = t

\* The old space is cleared before the first thing that may fail: an error
\* after that leaves a space with nothing in it, or, when the path is gone by the
\* time it is resolved again, the new program and the old heap_top.
ExecveFails(t, e) ==
    \E loaded \in BOOLEAN :
        /\ Alone(t)
        /\ cache' = IF loaded THEN Load(cache, e).cache ELSE Use(cache, e)
        /\ pages' = [pages EXCEPT ![Of(t)] =
                        IF loaded THEN NewSpace ELSE [p \in Page |-> Unmapped]]
        /\ resident' = [resident EXCEPT ![Of(t)] = IF loaded THEN NewResident ELSE {}]
        /\ holes' = [holes EXCEPT ![Of(t)] = HeapArea]
        /\ UNCHANGED <<space, heap_top, pc, image, stale>>

Execve(t, e) ==
    LET l == Load(cache, e)
    IN  /\ Alone(t)
        /\ cache' = l.cache
        /\ image' = [image EXCEPT ![ProcOf[t]] = [asked |-> e, exe |-> l.exe, ldso |-> l.ldso]]
        /\ pages' = [pages EXCEPT ![Of(t)] = NewSpace]
        /\ resident' = [resident EXCEPT ![Of(t)] = NewResident]
        /\ heap_top' = [heap_top EXCEPT ![ProcOf[t]] = 2 * HEAP_BASE]
        /\ holes' = [holes EXCEPT ![Of(t)] = {}]
        /\ stale' = stale \ {ProcOf[t]}
        /\ UNCHANGED <<space, pc>>

-----------------------------------------------------------------------------
(* mmap and the other calls on ranges, each under the lock of the space.   *)

\* Space s with ps mapped as area, its frames there at once when populate is set.
Map(s, ps, area, populate) ==
    /\ pages' = [pages EXCEPT ![s] = [p \in Page |-> IF p \in ps THEN area ELSE @[p]]]
    /\ resident' = [resident EXCEPT ![s] = IF populate THEN @ \cup ps ELSE @ \ ps]
    /\ holes' = [holes EXCEPT ![s] = @ \cup (ps \cap HeapArea)]

\* The pages from the first to the last that a call touches, in units of size.
Spanned(a, len, size) ==
    (PageDown(a) \div size) * size .. ((PageUp(a + len) + size - 1) \div size) * size - 1

\* sys_mmap with FIXED: what was there is unmapped first, and stays so when the
\* file turns out not to be there, or not to be one that can be mapped.
MmapFixed(t, a, len, size, populate) ==
    LET ps == Spanned(a, len, size)
    IN  /\ ps \subseteq Page /\ Whole(Of(t), ps)
        /\ \/ Map(Of(t), ps, Area("mmap", "rw", size > 1), populate)
           \/ Map(Of(t), ps, Unmapped, FALSE)
        /\ UNCHANGED Rest

\* With FIXED_NOREPLACE, map finds what is in the way.
MmapNoReplace(t, a, len, size, populate) ==
    LET ps == Spanned(a, len, size)
    IN  /\ ps \subseteq Page /\ Free(Of(t), ps)
        /\ Map(Of(t), ps, Area("mmap", "rw", size > 1), populate)
        /\ UNCHANGED Rest

\* Otherwise: wherever find_free_area finds room.
Mmap(t, a, len, size, populate) ==
    /\ \E start \in Page :
        LET ps == start .. start + Cardinality(Spanned(a, len, size)) - 1
        IN  /\ start % size = 0
            /\ ps \subseteq Page /\ Free(Of(t), ps)
            /\ Map(Of(t), ps, Area("mmap", "rw", size > 1), populate)
    /\ UNCHANGED Rest

\* sys_munmap and sys_mprotect refuse a start that is not aligned.
Pages(a, len) == PageDown(a) .. PageDown(a) + PageUp(len) - 1

Munmap(t, a, len) ==
    /\ a % 2 = 0 /\ Pages(a, len) \subseteq Page /\ Whole(Of(t), Pages(a, len))
    /\ Map(Of(t), Pages(a, len), Unmapped, FALSE)
    /\ UNCHANGED Rest

Mprotect(t, a, len, prot) ==
    /\ a % 2 = 0 /\ Pages(a, len) \subseteq Page /\ Whole(Of(t), Pages(a, len))
    /\ pages' = [pages EXCEPT ![Of(t)] =
                    [p \in Page |-> IF p \in Pages(a, len) /\ @[p] # Unmapped
                                    THEN [@[p] EXCEPT !.prot = prot] ELSE @[p]]]
    /\ UNCHANGED <<resident, holes>>
    /\ UNCHANGED Rest

\* A page of a mapping is touched: handle_page_fault, a huge page as a whole.
PageFault(t, p) ==
    /\ pages[Of(t)][p] # Unmapped
    /\ resident' = [resident EXCEPT ![Of(t)] =
                        @ \cup IF pages[Of(t)][p].huge THEN Block(p) ELSE {p}]
    /\ UNCHANGED <<pages, holes>>
    /\ UNCHANGED Rest

-----------------------------------------------------------------------------
(* sys_brk by t: the top is read, the space is changed under its lock, the *)
(* top is stored.                                                          *)

\* The calls under way, brk or clone, of the other threads of t's process.
Others(t, at) == {u \in Thread \ {t} : ProcOf[u] = ProcOf[t] /\ pc[u].at \in at}

Brk(t, a) ==
    /\ a \in 2 * HEAP_BASE .. 2 * (HEAP_BASE + HEAP_MAX)
    /\ pc' = [pc EXCEPT ![t] = InCall("map", a, heap_top[ProcOf[t]], None)]
    /\ stale' = IF Others(t, {"map", "set"}) # {} THEN stale \cup {ProcOf[t]} ELSE stale
    /\ UNCHANGED Space /\ UNCHANGED <<space, heap_top, cache, image>>

Larger(a, b) == IF a > b THEN a ELSE b
Smaller(a, b) == IF a < b THEN a ELSE b

\* Mutant: the pages that were mapped at the start are not spared.
ShrinkAll(from, to) == PageUp(to) .. PageUp(from) - 1

Expand(from, to) == Larger(HEAP_BASE + HEAP_SIZE, PageUp(from)) .. PageUp(to) - 1
Shrink(from, to) == Larger(HEAP_BASE + HEAP_SIZE, PageUp(to)) .. PageUp(from) - 1

BrkMap(t) ==
    LET more == Expand(pc[t].top, pc[t].addr)
        less == Shrink(pc[t].top, pc[t].addr)
        s == Of(t)
    IN  /\ pc[t].at = "map"
        /\ IF Free(s, more) /\ Whole(s, less)
           THEN /\ pages' = [pages EXCEPT ![s] =
                                [p \in Page |-> CASE p \in more -> Area("heap", "rw", FALSE)
                                                  [] p \in less -> Unmapped
                                                  [] OTHER -> @[p]]]
                /\ resident' = [resident EXCEPT ![s] = @ \ less]
                /\ holes' = [holes EXCEPT ![s] = @ \ (more \cup less)]
                /\ pc' = [pc EXCEPT ![t].at = "set"]
           ELSE /\ pc' = [pc EXCEPT ![t] = Idle]
                /\ UNCHANGED Space
        /\ UNCHANGED <<space, heap_top, cache, image, stale>>

BrkSet(t) ==
    /\ pc[t].at = "set"
    /\ heap_top' = [heap_top EXCEPT ![ProcOf[t]] = pc[t].addr]
    /\ pc' = [pc EXCEPT ![t] = Idle]
    /\ UNCHANGED Space /\ UNCHANGED <<space, cache, image, stale>>

-----------------------------------------------------------------------------
(* sys_clone of a process c by t: the space is copied (try_clone) or       *)
(* shared, and then the top is copied.                                     *)

Clone(t, c, vm) ==
    /\ space[c] = None
    /\ space' = [space EXCEPT ![c] = IF vm THEN Of(t) ELSE c]
    /\ pages' = [pages EXCEPT ![c] = IF vm THEN @ ELSE pages[Of(t)]]
    /\ resident' = [resident EXCEPT ![c] = IF vm THEN @ ELSE resident[Of(t)]]
    /\ holes' = [holes EXCEPT ![c] = IF vm THEN @ ELSE holes[Of(t)]]
    /\ pc' = [pc EXCEPT ![t] = InCall("clone", 0, heap_top[ProcOf[t]], c)]
    /\ stale' = IF Others(t, {"set"}) # {} \/ ProcOf[t] \in stale
                THEN stale \cup {c} ELSE stale
    /\ UNCHANGED <<heap_top, cache, image>>

CloneTop(t) ==
    LET c == pc[t].child
    IN  /\ pc[t].at = "clone"
        /\ heap_top' = [heap_top EXCEPT ![c] = heap_top[ProcOf[t]]]
        /\ image' = [image EXCEPT ![c] = image[ProcOf[t]]]
        /\ pc' = [pc EXCEPT ![t] = Idle]
        /\ stale' = IF heap_top[ProcOf[t]] # pc[t].top THEN stale \cup {c} ELSE stale
        /\ UNCHANGED Space /\ UNCHANGED <<space, cache>>

-----------------------------------------------------------------------------
(* sys_mincore of n pages from page f on, in space s.                      *)

\* Mutant: pages without a frame are taken to come in huge pages too.
StepAtBatch(s, p) == IF p \notin resident[s] \/ pages[s][p].huge THEN HUGE ELSE 1

\* How many pages one look at the page table is about.
StepAt(s, p) == IF p \in resident[s] /\ pages[s][p].huge THEN HUGE ELSE 1

\* The pages at which the loop looks.
LooksAt(s, f, n) ==
    LET after[i \in 0 .. n + HUGE] ==
            IF i >= n THEN {}
            ELSE IF f + i \notin Page THEN {f + i}
            ELSE {f + i} \cup after[i + StepAt(s, f + i)]
    IN  after[0]

\* ENOMEM, or the pages it reports to be resident.
Mincore(s, f, n) ==
    LET looked == LooksAt(s, f, n)
    IN  IF \E p \in looked : p \notin Page \/ pages[s][p] = Unmapped
        THEN [error |-> "ENOMEM", pages |-> {}]
        ELSE [error |-> None,
              pages |-> UNION {p .. Smaller(p + StepAt(s, p), f + n) - 1 :
                               p \in looked \cap resident[s]}]

-----------------------------------------------------------------------------
\* Whether t runs, and has a call of kind k left.
Runs(t) ==
    /\ Of(t) # None /\ pc[t].at = "idle"
    /\ \A u \in Thread : pc[u].child # ProcOf[t]
May(t, k) ==
    /\ Runs(t)
    /\ k \in DOMAIN load[t] /\ load[t][k] > 0
    /\ load' = [load EXCEPT ![t][k] = @ - 1]

CallStep(t) ==
    \/ May(t, "brk") /\ \E a \in Top : Brk(t, a)
    \/ May(t, "clone") /\ \E c \in Proc, vm \in BOOLEAN : Clone(t, c, vm)
    \/ May(t, "execve") /\ \E e \in Exe : Execve(t, e) \/ ExecveFails(t, e)
    \/ May(t, "mmap") /\ \E r \in Extent, size \in {1, HUGE}, pop \in BOOLEAN :
            \/ Mmap(t, r[1], r[2], size, pop)
            \/ MmapFixed(t, r[1], r[2], size, pop)
            \/ MmapNoReplace(t, r[1], r[2], size, pop)
    \/ May(t, "munmap") /\ \E r \in Extent : Munmap(t, r[1], r[2])
    \/ May(t, "mprotect") /\ \E r \in Extent : Mprotect(t, r[1], r[2], "r")
    \/ May(t, "touch") /\ \E p \in Page : PageFault(t, p)

KernelStep(t) ==
    /\ \/ BrkMap(t)
       \/ BrkSet(t)
       \/ CloneTop(t)
    /\ UNCHANGED load

Next == \E t \in Thread : CallStep(t) \/ KernelStep(t)

Spec == Init /\ [][Next]_vars

-----------------------------------------------------------------------------
Shared(p) == \E q \in Proc \ {p} : space[q] # None /\ space[q] = space[p]
Settled(p) ==
    /\ space[p] # None
    /\ \A t \in Thread : pc[t].child # p /\ (ProcOf[t] = p => pc[t] = Idle)

\* After any calls of brk, mmap, munmap, fork and execve, the heap pages that are
\* mapped are those of the first HEAP_SIZE bytes and those up to heap_top, but for
\* the ones other calls have taken away or put there: sys_brk's cases around the
\* initial heap end, the failures it returns on, and clone and execve, which copy
\* and reset the two apart.
HeapIs(p) ==
    \A q \in HeapArea \ holes[space[p]] :
        pages[space[p]][q].kind = "heap"
            <=> q \in InitialHeap \/ q < PageUp(heap_top[p])

HeapUpToTop ==
    \A p \in Proc : Settled(p) /\ ~Shared(p) /\ p \notin stale => HeapIs(p)

\* What execve maps is what it was asked for and the linker of that, whatever
\* was executed before: ElfLoader::load takes both from the front of its cache.
LoadedIsAsked ==
    \A p \in Proc : image[p].exe = image[p].asked /\ image[p].ldso = Interp[image[p].asked]

\* mincore, which steps over a huge page at a time, says of every page of the range
\* whether it is resident, and ENOMEM when one is not mapped, as long as the
\* range does not start inside a huge page that is resident.
MincoreAgrees ==
    \A p \in Proc : space[p] # None =>
        LET s == space[p]
        IN  \A f \in Page, n \in 1 .. HUGE + 1 :
                (pages[s][f].huge /\ f \in resident[s] => f % HUGE = 0) =>
                    Mincore(s, f, n) =
                        IF \E q \in f .. f + n - 1 : q \notin Page \/ pages[s][q] = Unmapped
                        THEN [error |-> "ENOMEM", pages |-> {}]
                        ELSE [error |-> None, pages |-> (f .. f + n - 1) \cap resident[s]]
=============================================================================
