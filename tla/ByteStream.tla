----------------------------- MODULE ByteStream -----------------------------
(***************************************************************************)
(* What a pipe promises its users: a bounded first-in first-out stream.    *)
(* The bytes of each writer come out once, in the order it wrote them,     *)
(* however many writers and readers there are and whatever happens to the  *)
(* ring they pass through.  The n-th byte of writer w is <<w, n>>.         *)
(***************************************************************************)
EXTENDS Naturals, Sequences

CONSTANTS
    Writer,
    Limit      \* no more bytes than this are ever on their way

VARIABLES
    stream,    \* the bytes on their way, the next one to be read first
    sent,      \* how many bytes of a writer went in
    received   \* how many of them came out

StreamInit ==
    /\ stream = <<>>
    /\ sent = [w \in Writer |-> 0]
    /\ received = [w \in Writer |-> 0]

\* The next n bytes of w go in.
Send(w, n) ==
    /\ Len(stream) + n <= Limit
    /\ stream' = stream \o [i \in 1 .. n |-> <<w, sent[w] + i>>]
    /\ sent' = [sent EXCEPT ![w] = @ + n]
    /\ UNCHANGED received

\* The next n bytes come out.
Receive(n) ==
    /\ stream' = SubSeq(stream, n + 1, Len(stream))
    /\ received' = [w \in Writer |->
            received[w] + Len(SelectSeq(SubSeq(stream, 1, n), LAMBDA b : b[1] = w))]
    /\ UNCHANGED sent

StreamNext ==
    \/ \E w \in Writer, n \in 1 .. Limit : Send(w, n)
    \/ \E n \in 1 .. Len(stream) : Receive(n)

StreamSpec == StreamInit /\ [][StreamNext]_<<stream, sent, received>>
=============================================================================
