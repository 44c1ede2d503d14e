-------------------------- MODULE TriangularSolve --------------------------
(***************************************************************************)
(* What the two triangular solves owe to the algorithm, on any number of   *)
(* processes and threads.  Forward, a column block is solved after the     *)
(* contributions of all the blocks that face it, and its own blocks        *)
(* contribute once it is solved.  Backward, the solution of the column     *)
(* block that a block faces contributes to the column block it belongs to, *)
(* which is solved after all of its own blocks.  Contributions reach a     *)
(* column block one by one or summed up.                                   *)
(***************************************************************************)
EXTENDS Integers

CONSTANTS
    Cblks,      \* the column blocks
    Edges,      \* the blocks outside the diagonal
    Src, Dst    \* the column block they belong to and the one they face

VARIABLES
    solved,     \* in each step, how many times each column block was solved
    got         \* in each step, how many times each block was applied

solveVars == <<solved, got>>

Steps == {"forward", "backward"}

(* The column block that a block reads, and the one it updates.            *)
From(s, e) == IF s = "forward" THEN Src[e] ELSE Dst[e]
To(s, e)   == IF s = "forward" THEN Dst[e] ELSE Src[e]

TSInit ==
    /\ solved = [s \in Steps |-> [c \in Cblks |-> 0]]
    /\ got    = [s \in Steps |-> [e \in Edges |-> 0]]

Solve(s, c) ==
    /\ solved[s][c] = 0
    /\ \A e \in Edges : To(s, e) = c => got[s][e] = 1
    /\ s = "backward" => solved["forward"][c] = 1
    /\ solved' = [solved EXCEPT ![s][c] = 1]
    /\ UNCHANGED got

(* Contributions that are due reach the column blocks they update.         *)
Due(s, e) ==
    /\ solved[s][From(s, e)] = 1 /\ got[s][e] = 0
    /\ s = "backward" => solved["forward"][To(s, e)] = 1

Apply(s) ==
    /\ got' \in [Steps -> [Edges -> {0, 1}]]
    /\ \A e \in Edges : got'[s][e] = got[s][e] \/ (Due(s, e) /\ got'[s][e] = 1)
    /\ \A r \in Steps \ {s} : got'[r] = got[r]
    /\ UNCHANGED solved

TSNext == \E s \in Steps : Apply(s) \/ \E c \in Cblks : Solve(s, c)

TSSpec == TSInit /\ [][TSNext]_solveVars
=============================================================================
