---------------------------- MODULE MCVerityTree ----------------------------
(* VerityTree with two digests to a block and two hash blocks to a task:   *)
(* up to ten data blocks give none to four levels, several tasks in the   *)
(* lowest, a last task of one block, and last blocks of one digest.        *)
EXTENDS VerityTree
=============================================================================
