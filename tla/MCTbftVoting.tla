---------------------------- MODULE MCTbftVoting ----------------------------
(***************************************************************************)
(* Four validators, one of them faulty.  The honest ones are               *)
(* interchangeable, and so are the blocks.                                 *)
(***************************************************************************)
EXTENDS TbftVoting, TLC

Symmetry == Permutations(Honest) \cup Permutations(Blocks)
=============================================================================
