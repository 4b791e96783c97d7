------------------------------- MODULE MCTty -------------------------------
(***************************************************************************)
(* Two processes at a terminal with rings of two and three bytes, in       *)
(* canonical mode and in one that waits for two bytes.                     *)
(***************************************************************************)
EXTENDS Tty, TLC

CONSTANTS p1, p2

Cooked1 == [canonical |-> TRUE, vmin |-> 1]
Raw2 == [canonical |-> FALSE, vmin |-> 2]
MCMode == {Cooked1, Raw2}

Case(mode, a, b, text) == [mode |-> mode, calls |-> p1 :> a @@ p2 :> b, text |-> text]
Nothing == [k \in {} |-> 0]

\* Lines that are longer than the ring, and edited; raw input; a reader and a
\* poller; a flush; and processes that come to the foreground and leave it.
MCWorkload ==
    { Case(Cooked1, "read" :> 2, Nothing, <<"a", "b", "c", "cr", "d">>),
      Case(Cooked1, "read" :> 1, Nothing, <<"a", "erase", "b", "kill", "c", "eof">>),
      Case(Raw2, "read" :> 2, Nothing, <<"a", "space", "cr">>),
      Case(Cooked1, "read" :> 1 @@ "fork" :> 1, "poll" :> 1, <<"a", "cr">>),
      Case(Cooked1, "read" :> 1 @@ "fork" :> 1, "tcsets" :> 1, <<"a", "b", "cr">>),
      Case(Cooked1, "read" :> 1 @@ "ctty" :> 1 @@ "fork" :> 1 @@ "tcsetpgrp" :> 1,
           "setpgid" :> 1 @@ "tcsetpgrp" :> 1 @@ "read" :> 1 @@ "exit" :> 1, <<"cr">>),
      Case(Cooked1, "ctty" :> 1 @@ "fork" :> 1 @@ "notty" :> 1 @@ "exit" :> 1,
           "setsid" :> 1 @@ "setpgid" :> 1 @@ "ctty" :> 2, <<>>) }
=============================================================================
