--------------------------- MODULE MCBlockGossip ---------------------------
(***************************************************************************)
(* Instances of BlockGossip: which blocks are proposed.                    *)
(***************************************************************************)
EXTENDS BlockGossip

CONSTANTS A, B

TwoParts == [hash |-> B, total |-> 2]

\* Another block is proposed after the one that is committed.
BThenA == [r \in 0 .. 1 |-> IF r = 0 THEN TwoParts ELSE [hash |-> A, total |-> 1]]
=============================================================================
