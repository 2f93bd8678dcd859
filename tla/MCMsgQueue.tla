----------------------------- MODULE MCMsgQueue -----------------------------
(* Processes that share one queue; objects of one block and of two. *)
EXTENDS MsgQueue, TLC

CONSTANTS p1, p2, p3, short, full, long

MCSize == [o \in Object |-> IF o = short THEN 1 ELSE IF o = full THEN 2 ELSE 3]
MCSymmetry == Permutations(Proc)
=============================================================================
