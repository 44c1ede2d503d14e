-------------------------- MODULE SolverStructure --------------------------
(***************************************************************************)
(* The structure of the factorized matrix as one process stores it when it *)
(* owns all of it (SolverMatrix, blend/solver.h): column blocks, each a    *)
(* diagonal block followed by off-diagonal blocks; every block faces the   *)
(* column block its rows belong to.  The last column blocks may form the   *)
(* Schur complement.                                                       *)
(***************************************************************************)
EXTENDS Integers, FiniteSets

CONSTANTS
    CblkNbr,    \* solvmtx->cblknbr
    FBlok,      \* cblk[i].fblokptr, with a last entry that ends the table
    FCblk,      \* bloktab[b].fcblknm
    CblkSchur,  \* solvmtx->cblkschur: first column block of the Schur complement
    Priority    \* cblk[i].priority

CblkSet  == 0 .. CblkNbr - 1
BlokSet  == 0 .. FBlok[CblkNbr] - 1
SchurSet == CblkSchur .. CblkNbr - 1

(* The off-diagonal blocks of a column block, cblk[0].fblokptr + 1 up to   *)
(* cblk[1].fblokptr.                                                       *)
OffDiag(c) == FBlok[c] + 1 .. FBlok[c + 1] - 1
OffDiagSet == UNION {OffDiag(c) : c \in CblkSet}

(* The column block a block belongs to: bloktab[b].lcblknm.                *)
LCblk(b) == CHOOSE c \in CblkSet : FBlok[c] <= b /\ b < FBlok[c + 1]

(* The off-diagonal blocks that face a column block: browtab from          *)
(* cblk[0].brownum up to cblk[1].brownum.                                  *)
Brow(c) == {b \in OffDiagSet : FCblk[b] = c}

ASSUME StructureAssumption ==
    /\ CblkNbr \in Nat \ {0} /\ CblkSchur \in 0 .. CblkNbr
    /\ FBlok \in [0 .. CblkNbr -> Nat] /\ FBlok[0] = 0
    /\ \A c, d \in 0 .. CblkNbr : c < d => FBlok[c] < FBlok[d]
    /\ FCblk \in [BlokSet -> CblkSet]
    /\ \A c \in CblkSet : FCblk[FBlok[c]] = c
    /\ \A c \in CblkSet : \A b \in OffDiag(c) :
          FCblk[b] > c /\ FCblk[b] >= FCblk[b - 1]
    /\ Priority \in [CblkSet -> Nat]

(* The Schur complement comes from one supernode, dense, that may have     *)
(* been split: each of its column blocks faces all the next ones.          *)
ASSUME SchurAssumption ==
    \A c, d \in SchurSet : c < d => \E b \in OffDiag(c) : FCblk[b] = d
=============================================================================
