------------------------------- MODULE MCPipe -------------------------------
(* Pipe for TLC.                                                           *)
EXTENDS Pipe, TLC

PipeSymmetry == Permutations(Reader) \cup Permutations(Writer)
=============================================================================
