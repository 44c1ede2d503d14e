------------------------------ MODULE SimuRun ------------------------------
(***************************************************************************)
(* The simulation of the factorization that ends the analysis (simuInit,   *)
(* simuTaskBuild and simuRun, blend/simu*.c): it maps every column block   *)
(* to one of its candidate cores, and the order in which it does so is     *)
(* that of the lists of the static scheduler (solvMatGen_fill_ttsktab).    *)
(* Every process runs it, on the same data.                                *)
(*                                                                         *)
(* The dates it predicts are abstracted: any task that is queued may be    *)
(* the earliest one, on any of the cores whose heaps hold it (readytask    *)
(* and futuretask, here one set).  The fan-ins it sums up only serve to    *)
(* predict dates.                                                          *)
(***************************************************************************)
EXTENDS Integers, Sequences, FiniteSets

CONSTANTS
    CblkNbr,        \* symbptr->cblknbr
    CoreNbr,        \* ctrl->total_nbcores
    ClustNbr,       \* ctrl->clustnbr: the MPI processes
    Symbols,        \* the symbolic structures: the column blocks each one faces
    Candidates(_)   \* candtab as it may be for each: the first and last core

Cblks  == 0 .. CblkNbr - 1
Cores  == 0 .. CoreNbr - 1
Clusts == 0 .. ClustNbr - 1

ASSUME SizeAssumption ==
    /\ CblkNbr \in Nat \ {0} /\ CoreNbr \in Nat \ {0} /\ ClustNbr \in Nat \ {0}
    /\ \E n \in 1 .. CoreNbr : CoreNbr = n * ClustNbr

(* A block faces a later column block.                                     *)
ASSUME SymbolAssumption ==
    \A s \in Symbols :
        /\ s \in [Cblks -> SUBSET Cblks]
        /\ \A c \in Cblks : \A f \in s[c] : c < f

ASSUME CandidatesAssumption ==
    \A s \in Symbols : \A t \in Candidates(s) :
        /\ t \in [Cblks -> Cores \X Cores]
        /\ \A c \in Cblks : t[c][1] <= t[c][2]

VARIABLES
    symb,       \* the symbolic structure
    candtab,    \* the first and last candidate of each column block
    phase,      \* where simuRun stands
    ctrbcnt,    \* simuctrl->cblktab[].ctrbcnt
    queue,      \* the heaps of each core, but for what is mapped already
    ownetab,    \* simuctrl->ownetab: the core of each column block, or -1
    tasktab,    \* simuctrl->proctab[].tasktab
    prionum,    \* task->prionum
    clustprio,  \* simuctrl->clustab[].prionum
    rank        \* history: how many were mapped before each column block

simuVars == <<symb, candtab, phase, ctrbcnt, queue, ownetab, tasktab, prionum, clustprio, rank>>

Core2Clust(p) == p \div (CoreNbr \div ClustNbr)
IsCand(p, c) == candtab[c][1] <= p /\ p <= candtab[c][2]
Mapped == {c \in Cblks : ownetab[c] # -1}

(* The contributions of a column block to one it faces: a block with each  *)
(* of the next ones, itself included.                                      *)
Contributions(c, f) == {<<c, j>> : j \in {j \in symb[c] : f \in symb[c] /\ f <= j}}
CtrbTo(f) == UNION {Contributions(c, f) : c \in Cblks}

SimuInit ==
    /\ symb \in Symbols
    /\ candtab \in Candidates(symb)
    /\ phase     = "start"
    /\ ctrbcnt   = [c \in Cblks |-> 0]
    /\ queue     = [p \in Cores |-> {}]
    /\ ownetab   = [c \in Cblks |-> -1]
    /\ tasktab   = [p \in Cores |-> <<>>]
    /\ prionum   = [c \in Cblks |-> -1]
    /\ clustprio = [k \in Clusts |-> 0]
    /\ rank      = [c \in Cblks |-> 0]

(* Mutant: the contribution of a block with itself is forgotten.           *)
CountOffDiagonal ==
    [f \in Cblks |-> Cardinality({x \in CtrbTo(f) : f < x[2]})]

(* simu_computeBlockCtrbNbr.                                               *)
BlockCtrbNbr == [f \in Cblks |-> Cardinality(CtrbTo(f))]

(* simu_putInAllReadyQueues: a task is put in the heaps of all its         *)
(* candidates.                                                             *)
PutInReadyQueues(q, ready) ==
    [p \in Cores |-> q[p] \cup {c \in ready : IsCand(p, c)}]

(* The tasks that wait for nothing.                                        *)
Start ==
    /\ phase = "start"
    /\ ctrbcnt' = BlockCtrbNbr
    /\ queue' = PutInReadyQueues(queue, {c \in Cblks : BlockCtrbNbr[c] = 0})
    /\ phase' = "run"
    /\ UNCHANGED <<symb, candtab, ownetab, tasktab, prionum, clustprio, rank>>

(* Mutant: the task is put in the heaps at its last contribution but one.  *)
ReadyTooEarly(left, c) == {f \in symb[c] : left[f] <= 1}

(* Those that the computation of c makes ready.                            *)
MadeReady(left, c) == {f \in symb[c] : left[f] = 0}

(* simu_computeTask: its contributions are taken off.                      *)
ComputeTask(c) ==
    LET left == [f \in Cblks |-> ctrbcnt[f] - Cardinality(Contributions(c, f))] IN
    /\ ctrbcnt' = left
    /\ queue' = PutInReadyQueues([p \in Cores |-> queue[p] \ {c}], MadeReady(left, c))

(* The turn of the loop of simuRun that maps c to the core p.              *)
MapTask(p, c) ==
    LET k == Core2Clust(p) IN
    /\ phase = "run" /\ c \in queue[p]
    /\ ownetab'   = [ownetab EXCEPT ![c] = p]
    /\ prionum'   = [prionum EXCEPT ![c] = clustprio[k]]
    /\ clustprio' = [clustprio EXCEPT ![k] = @ + 1]
    /\ tasktab'   = [tasktab EXCEPT ![p] = Append(@, c)]
    /\ rank'      = [rank EXCEPT ![c] = Cardinality(Mapped)]
    /\ ComputeTask(c)
    /\ UNCHANGED <<symb, candtab, phase>>

(* simu_getNextTaskNextProc finds no task.                                 *)
Stop ==
    /\ phase = "run" /\ \A p \in Cores : queue[p] = {}
    /\ phase' = "done"
    /\ UNCHANGED <<symb, candtab, ctrbcnt, queue, ownetab, tasktab, prionum, clustprio, rank>>

Returned == phase = "done" /\ UNCHANGED simuVars

SimuNext ==
    \/ Start
    \/ \E p \in Cores, c \in Cblks : MapTask(p, c)
    \/ Stop
    \/ Returned

SimuSpec == SimuInit /\ [][SimuNext]_simuVars

-----------------------------------------------------------------------------
(* The candidates of a column block are among those of each column block   *)
(* it contributes to (candCheck): all the contributions to one that has    *)
(* its candidates in a single process are local, as simu_computeTask takes *)
(* them to be.                                                             *)
CandidatesNested ==
    \A c \in Cblks : \A f \in symb[c] :
        candtab[f][1] <= candtab[c][1] /\ candtab[c][2] <= candtab[f][2]

(* The lists of the static scheduler can always be run to their end: there *)
(* is one order of the column blocks that agrees with every list, with the *)
(* priorities of every process, and in which each one comes after all      *)
(* those that contribute to it.                                            *)
OneOrder ==
    \A c, d \in Mapped :
        /\ d \in symb[c] => rank[c] < rank[d]
        /\ Core2Clust(ownetab[c]) = Core2Clust(ownetab[d]) /\ prionum[c] < prionum[d]
              => rank[c] < rank[d]
        /\ \A p \in Cores : \A i, j \in 1 .. Len(tasktab[p]) :
              tasktab[p][i] = c /\ tasktab[p][j] = d /\ i < j => rank[c] < rank[d]

(* Nothing is mapped before what contributes to it, and when no task is    *)
(* queued any more every column block is in one list, of one of its        *)
(* candidates, once: what the structure of the distributed matrix and both *)
(* schedulers rely on.                                                     *)
AllMapped ==
    /\ \A d \in Mapped : \A c \in Cblks : d \in symb[c] => c \in Mapped
    /\ phase = "done" =>
          /\ Mapped = Cblks
          /\ \A c \in Cblks :
                /\ IsCand(ownetab[c], c)
                /\ \A p \in Cores : \A i \in 1 .. Len(tasktab[p]) :
                      tasktab[p][i] = c =>
                          /\ p = ownetab[c]
                          /\ \A j \in 1 .. Len(tasktab[p]) : tasktab[p][j] = c => i = j
                /\ \E i \in 1 .. Len(tasktab[ownetab[c]]) : tasktab[ownetab[c]][i] = c
=============================================================================
