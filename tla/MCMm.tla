-------------------------------- MODULE MCMm --------------------------------
(***************************************************************************)
(* Two threads of a process and one of its child; an address space of      *)
(* eight pages: the program, a heap of one page that may grow to three,    *)
(* the stack, a page and a huge page of two.  Two programs, one of them    *)
(* with a linker, in a cache of two.                                       *)
(***************************************************************************)
EXTENDS Mm, TLC

CONSTANTS p1, p2, t1, t2, t3, sh, ls, ldso

MCProcOf == t1 :> p1 @@ t2 :> p1 @@ t3 :> p2
MCInterp == sh :> ldso @@ ls :> None @@ ldso :> None

MCExtent == {<<4, 1>>, <<5, 2>>, <<12, 1>>, <<10, 3>>}

Nothing == [k \in {} |-> 0]
Case(a, b, c) == t1 :> a @@ t2 :> b @@ t3 :> c

\* Threads that change the heap; a fork meanwhile; a program that maps, forks and
\* executes; and a long row of execve calls.
MCWorkload ==
    { Case("brk" :> 2 @@ "mmap" :> 1, "brk" :> 2, Nothing),
      Case("brk" :> 2 @@ "munmap" :> 1, "brk" :> 1 @@ "clone" :> 1, "brk" :> 1),
      Case("brk" :> 1 @@ "mmap" :> 1 @@ "clone" :> 1, Nothing, "brk" :> 1 @@ "execve" :> 1),
      Case("mmap" :> 2 @@ "munmap" :> 1 @@ "mprotect" :> 1 @@ "touch" :> 1, Nothing, Nothing),
      Case("brk" :> 1 @@ "execve" :> 4, Nothing, Nothing) }
=============================================================================
