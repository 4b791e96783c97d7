----------------------------- MODULE MCMsgQueue -----------------------------
(* MsgQueue for TLC: callers and keys are model values.                    *)
EXTENDS MsgQueue, TLC

MsgSymmetry == Permutations(Proc) \cup Permutations(Key)
=============================================================================
