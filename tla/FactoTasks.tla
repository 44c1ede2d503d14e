----------------------------- MODULE FactoTasks -----------------------------
(***************************************************************************)
(* The numerical factorization as a graph of tasks: the values that        *)
(* dynamic_zpotrf (and its LU, LDLt, LDLh and LLt-complex copies) gives to *)
(* the parameters of DynamicLoop, when one process owns the whole matrix.  *)
(***************************************************************************)
EXTENDS SolverStructure

(* One task per column block (cpucblk_zpotrfsp1d); those of the Schur      *)
(* complement are only updated.                                            *)
FactoSkipped == SchurSet

(* A task updates the column blocks faced by its off-diagonal blocks.      *)
FactoEdges == {b \in OffDiagSet : LCblk(b) \notin FactoSkipped}
FactoSrc == [b \in FactoEdges |-> LCblk(b)]
FactoDst == [b \in FactoEdges |-> FCblk[b]]

(* cblk->ctrbcnt = cblk[1].brownum - cblk[0].brownum                       *)
FactoCtrb == [c \in CblkSet |-> Cardinality(Brow(c))]

(* taskcnt = tasknbr - (cblknbr - cblkschur)                               *)
FactoTaskCnt == CblkNbr - (CblkNbr - CblkSchur)
=============================================================================
