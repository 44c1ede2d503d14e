------------------------------ MODULE TaskDag ------------------------------
(***************************************************************************)
(* What a scheduler of the numerical phases owes to the algorithm, however *)
(* many threads or processes it uses.  A task is the computation of one    *)
(* column block; an edge is one contribution (one off-diagonal block) of a *)
(* task to a later column block.  Every task is computed exactly once,     *)
(* after all the contributions it waits for, and every contribution is     *)
(* applied exactly once, after the task it comes from.                     *)
(***************************************************************************)
EXTENDS Integers

CONSTANTS
    Cblks,      \* the column blocks
    Tasks,      \* those to compute
    Edges,      \* the contributions
    Src, Dst    \* the column blocks a contribution comes from and goes to

VARIABLES
    runs,       \* how many times each column block was computed
    applied     \* how many times each contribution was applied

dagVars == <<runs, applied>>

DagInit ==
    /\ runs    = [c \in Cblks |-> 0]
    /\ applied = [e \in Edges |-> 0]

Ready(c) == \A e \in Edges : Dst[e] = c => applied[e] = 1

Compute(c) ==
    /\ runs[c] = 0 /\ Ready(c)
    /\ runs' = [runs EXCEPT ![c] = 1]
    /\ UNCHANGED applied

Apply(e) ==
    /\ runs[Src[e]] = 1 /\ applied[e] = 0
    /\ applied' = [applied EXCEPT ![e] = 1]
    /\ UNCHANGED runs

DagNext == (\E c \in Tasks : Compute(c)) \/ (\E e \in Edges : Apply(e))

(* No task that is ready and no contribution that is due waits forever.    *)
DagFairness ==
    /\ \A c \in Tasks : WF_dagVars(Compute(c))
    /\ \A e \in Edges : WF_dagVars(Apply(e))

DagSpec == DagInit /\ [][DagNext]_dagVars /\ DagFairness
=============================================================================
