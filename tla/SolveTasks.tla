----------------------------- MODULE SolveTasks -----------------------------
(***************************************************************************)
(* The forward and backward triangular solves as graphs of tasks: the      *)
(* values that dynamic_ztrsm and thread_ztrsm_dynamic                      *)
(* (sopalin/sequential_ztrsm.c), with the tasks                            *)
(* solve_cblk_ztrsmsp_forward and solve_cblk_ztrsmsp_backward              *)
(* (kernels/solve_ztrsmsp.c), give to the parameters of DynamicLoop, when  *)
(* one process owns the whole matrix.  They depend on the mode, which says *)
(* what part of the Schur complement is solved.                            *)
(***************************************************************************)
EXTENDS SolverStructure

InSchur(c) == c \in SchurSet

-----------------------------------------------------------------------------
(* Forward: a column block updates those its off-diagonal blocks face.     *)
(* The column blocks of the Schur complement are dropped unless the mode   *)
(* is schur, and in local mode they are not even updated.                  *)
ForwardSkipped(mode) == IF mode = "schur" THEN {} ELSE SchurSet

ForwardEdges(mode) ==
    {b \in OffDiagSet :
        /\ LCblk(b) \notin ForwardSkipped(mode)
        /\ ~ (InSchur(FCblk[b]) /\ mode = "local")}

ForwardCtrb == [c \in CblkSet |-> Cardinality(Brow(c))]

(* Mutant: one task is forgotten.                                          *)
ForwardTaskCntShort == CblkSchur - 1

(* taskcnt = tasknbr - (cblknbr - cblkschur)                               *)
ForwardTaskCnt == CblkNbr - (CblkNbr - CblkSchur)

-----------------------------------------------------------------------------
(* Backward: a column block updates those that own the off-diagonal blocks *)
(* that face it, from the last to the first; every column block is a task, *)
(* even those of the Schur complement, which have nothing to solve unless  *)
(* the mode is schur.                                                      *)

(* In interface mode the Schur complement does not update itself, and in   *)
(* local mode it updates nothing: it only releases the column blocks       *)
(* outside of it.                                                          *)
BackwardBloks(mode) ==
    {b \in OffDiagSet : InSchur(LCblk(b)) => mode = "schur"}

(* DynamicLoop takes edges in increasing order.  The code takes the blocks *)
(* in decreasing order, except for the column blocks of the Schur          *)
(* complement in local mode.                                               *)
BackwardEdge(mode, b) == IF InSchur(FCblk[b]) /\ mode = "local" THEN b ELSE - 1 - b
BackwardEdges(mode) == {BackwardEdge(mode, b) : b \in BackwardBloks(mode)}
BackwardBlok(mode, e) == CHOOSE b \in BackwardBloks(mode) : BackwardEdge(mode, b) = e

(* Mutant: the Schur complement waits for what it does not get.            *)
BackwardCtrbAll(mode) == [c \in CblkSet |-> Cardinality(OffDiag(c))]

BackwardCtrb(mode) ==
    [c \in CblkSet |->
        IF InSchur(c) /\ mode # "schur" THEN 0 ELSE Cardinality(OffDiag(c))]

(* Mutant: the Schur complement is not waited for.                         *)
BackwardTaskCntNoSchur == CblkSchur

(* taskcnt = cblknbr - recvnbr                                             *)
BackwardTaskCnt == CblkNbr

-----------------------------------------------------------------------------
(* The thread that initialises the counter of a column block, and queues   *)
(* it if it is ready: equal slices, the last one takes the rest.           *)
SliceOwner(c, n) ==
    LET slice == CblkNbr \div n IN
    IF c >= slice * (n - 1) THEN n - 1 ELSE c \div slice

(* The mode is iparm[IPARM_SCHUR_SOLV_MODE], the step enums->solve_step.    *)
SolveModes == {"local", "interface", "schur"}
SolveSteps == {"forward", "backward"}
Forward(s) == s = "forward"

SolveSkipped(m, s) == IF Forward(s) THEN ForwardSkipped(m) ELSE {}
SolveEdges(m, s)   == IF Forward(s) THEN ForwardEdges(m) ELSE BackwardEdges(m)
SolveSrc(m, s) ==
    [e \in SolveEdges(m, s) |-> IF Forward(s) THEN LCblk(e) ELSE FCblk[BackwardBlok(m, e)]]
SolveDst(m, s) ==
    [e \in SolveEdges(m, s) |-> IF Forward(s) THEN FCblk[e] ELSE LCblk(BackwardBlok(m, e))]
SolveCtrb(m, s)    == IF Forward(s) THEN ForwardCtrb ELSE BackwardCtrb(m)
SolveKey(s)        == [c \in CblkSet |-> IF Forward(s) THEN Priority[c] ELSE - Priority[c]]
SolveTaskCnt(s)    == IF Forward(s) THEN ForwardTaskCnt ELSE BackwardTaskCnt
=============================================================================
