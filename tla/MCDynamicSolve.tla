--------------------------- MODULE MCDynamicSolve ---------------------------
(***************************************************************************)
(* The dynamic triangular solves on a matrix of five column blocks, the    *)
(* last two of which are the Schur complement.                             *)
(***************************************************************************)
EXTENDS DynamicSolve

(* Column block 0 faces 2, 2 and 3; 1 faces 2; 2 faces 3 and 4; 3 faces 4. *)
MCFBlok == [c \in 0 .. 5 |-> CASE c = 0 -> 0 [] c = 1 -> 4 [] c = 2 -> 6
                               [] c = 3 -> 9 [] c = 4 -> 11 [] c = 5 -> 12]
MCFCblk == [b \in 0 .. 11 |-> CASE b = 0 -> 0 [] b \in {1, 2} -> 2 [] b = 3 -> 3
                                [] b = 4 -> 1 [] b = 5 -> 2
                                [] b = 6 -> 2 [] b = 7 -> 3 [] b = 8 -> 4
                                [] b = 9 -> 3 [] b \in {10, 11} -> 4]
MCPriority == [c \in 0 .. 4 |-> c \div 2]
=============================================================================
