-------------------------- MODULE DynamicSolveProofs --------------------------
(***************************************************************************)
(* TLAPS proofs that the counters and the task counts the code computes    *)
(* from the structure of the matrix are those the dynamic scheduler needs  *)
(* (CounterAssumption of DynamicLoop, and TaskCnt = Cardinality(Tasks) of  *)
(* StopsWhenDoneAlways in DynamicLoopProofs), for any matrix: any number   *)
(* of column blocks and of off-diagonal blocks, and any Schur complement.  *)
(***************************************************************************)
EXTENDS DynamicSolve, FactoTasks, FiniteSetTheorems, TLAPS

-----------------------------------------------------------------------------
(* The structure of the matrix.                                            *)

LEMMA Structure ==
    /\ CblkNbr \in Nat \ {0} /\ CblkSchur \in 0 .. CblkNbr
    /\ SchurSet \subseteq CblkSet
    /\ \A c \in CblkSet : c \in 0 .. CblkNbr /\ c + 1 \in 0 .. CblkNbr
    /\ \A c \in 0 .. CblkNbr : FBlok[c] \in Nat
    /\ \A c, d \in 0 .. CblkNbr : c < d => FBlok[c] < FBlok[d]
BY StructureAssumption DEF SchurSet, CblkSet

(* An off-diagonal block belongs to the column block it was listed under,  *)
(* and to no other, and faces a later one.                                 *)
LEMMA OffDiagBlok ==
    ASSUME NEW c \in CblkSet, NEW b \in OffDiag(c)
    PROVE  b \in OffDiagSet /\ b \in Nat /\ LCblk(b) = c /\ FCblk[b] \in CblkSet /\ FCblk[b] > c
<1>1. b \in Int /\ FBlok[c] < b /\ b < FBlok[c + 1] /\ b \in Nat
  BY Structure DEF OffDiag
<1>2. ASSUME NEW d \in CblkSet, FBlok[d] <= b, b < FBlok[d + 1]
      PROVE  d = c
  <2>1. CASE d < c
    <3>1. d + 1 = c \/ d + 1 < c
      BY <2>1 DEF CblkSet
    <3>2. FBlok[d + 1] <= FBlok[c]
      BY <3>1, Structure
    <3> QED
      BY <1>1, <1>2, <3>2, Structure
  <2>2. CASE c < d
    <3>1. c + 1 = d \/ c + 1 < d
      BY <2>2 DEF CblkSet
    <3>2. FBlok[c + 1] <= FBlok[d]
      BY <3>1, Structure
    <3> QED
      BY <1>1, <1>2, <3>2, Structure
  <2> QED
    BY <2>1, <2>2 DEF CblkSet
<1>3. LCblk(b) = c
  BY <1>1, <1>2 DEF LCblk
<1>4. b \in BlokSet
  <2>1. c + 1 = CblkNbr \/ c + 1 < CblkNbr
    BY Structure DEF CblkSet
  <2>2. FBlok[c + 1] <= FBlok[CblkNbr]
    BY <2>1, Structure
  <2> QED
    BY <1>1, <2>2, Structure DEF BlokSet
<1> QED
  BY <1>1, <1>3, <1>4, StructureAssumption DEF OffDiagSet

(* The other way around: every off-diagonal block has a column block.      *)
LEMMA OffDiagOwner ==
    ASSUME NEW b \in OffDiagSet
    PROVE  /\ LCblk(b) \in CblkSet /\ b \in OffDiag(LCblk(b)) /\ b \in Nat
           /\ FCblk[b] \in CblkSet /\ FCblk[b] > LCblk(b)
<1>1. PICK c \in CblkSet : b \in OffDiag(c)
  BY DEF OffDiagSet
<1> QED
  BY <1>1, OffDiagBlok

LEMMA BlokFinite ==
    ASSUME NEW c \in CblkSet
    PROVE  IsFiniteSet(OffDiag(c)) /\ IsFiniteSet(Brow(c))
<1>1. OffDiagSet \subseteq BlokSet
  <2> SUFFICES ASSUME NEW d \in CblkSet, NEW b \in OffDiag(d) PROVE b \in BlokSet
    BY DEF OffDiagSet
  <2>1. d + 1 = CblkNbr \/ d + 1 < CblkNbr
    BY Structure DEF CblkSet
  <2>2. FBlok[d + 1] <= FBlok[CblkNbr]
    BY <2>1, Structure
  <2> QED
    BY <2>2, Structure DEF BlokSet, OffDiag
<1>2. /\ FBlok[CblkNbr] - 1 \in Int /\ FBlok[c] + 1 \in Int /\ FBlok[c + 1] - 1 \in Int
  BY Structure
<1>3. IsFiniteSet(0 .. FBlok[CblkNbr] - 1) /\ IsFiniteSet(FBlok[c] + 1 .. FBlok[c + 1] - 1)
  BY <1>2, FS_Interval
<1>4. IsFiniteSet(BlokSet) /\ IsFiniteSet(OffDiag(c))
  BY <1>3 DEF BlokSet, OffDiag
<1> QED
  BY <1>1, <1>4, FS_Subset DEF Brow

(* A column block outside of the Schur complement is faced from outside.   *)
LEMMA FacedFromOutside ==
    ASSUME NEW b \in OffDiagSet, FCblk[b] \notin SchurSet
    PROVE  LCblk(b) \notin SchurSet
<1>1. LCblk(b) \in CblkSet /\ FCblk[b] \in CblkSet /\ FCblk[b] > LCblk(b)
  BY OffDiagOwner
<1> QED
  BY <1>1, Structure DEF SchurSet, CblkSet

-----------------------------------------------------------------------------
(* The number of tasks.                                                    *)

LEMMA TaskNbr ==
    /\ IsFiniteSet(CblkSet) /\ Cardinality(CblkSet) = CblkNbr
    /\ Cardinality(SchurSet) = CblkNbr - CblkSchur
    /\ Cardinality(CblkSet \ SchurSet) = CblkSchur
<1>1. IsFiniteSet(CblkSet) /\ Cardinality(CblkSet) = CblkNbr
  BY Structure, FS_Interval DEF CblkSet
<1>2. Cardinality(SchurSet) = CblkNbr - CblkSchur
  BY Structure, FS_Interval DEF SchurSet
<1>3. CblkSet \ SchurSet = 0 .. CblkSchur - 1
  BY Structure DEF CblkSet, SchurSet
<1>4. Cardinality(CblkSet \ SchurSet) = CblkSchur
  <2>1. CblkSchur - 1 \in Int /\ CblkSchur \in Nat
    BY Structure
  <2>2. Cardinality(0 .. CblkSchur - 1) = IF 0 > CblkSchur - 1 THEN 0 ELSE CblkSchur - 1 - 0 + 1
    BY <2>1, FS_Interval
  <2>3. Cardinality(0 .. CblkSchur - 1) = CblkSchur
    BY <2>1, <2>2
  <2> QED
    BY <1>3, <2>3
<1> QED
  BY <1>1, <1>2, <1>4

-----------------------------------------------------------------------------
(* The factorization.                                                      *)

(* cblk->ctrbcnt, the number of blocks that face a column block, is the    *)
(* number of contributions the column block gets if it is computed; the    *)
(* Schur complement may wait for more than it gets, and taskcnt starts     *)
(* from the number of column blocks that are computed.                     *)
THEOREM FactoCounters ==
    /\ \A c \in CblkSet \ FactoSkipped :
          FactoCtrb[c] = Cardinality({b \in FactoEdges : FactoDst[b] = c})
    /\ \A c \in FactoSkipped :
          FactoCtrb[c] >= Cardinality({b \in FactoEdges : FactoDst[b] = c})
    /\ FactoTaskCnt = Cardinality(CblkSet \ FactoSkipped)
<1>1. ASSUME NEW c \in CblkSet
      PROVE  {b \in FactoEdges : FactoDst[b] = c} = {b \in Brow(c) : LCblk(b) \notin SchurSet}
  BY DEF FactoEdges, FactoDst, FactoSkipped, Brow
<1>2. ASSUME NEW c \in CblkSet \ FactoSkipped
      PROVE  {b \in Brow(c) : LCblk(b) \notin SchurSet} = Brow(c)
  BY FacedFromOutside DEF FactoSkipped, Brow
<1>3. ASSUME NEW c \in FactoSkipped
      PROVE  FactoCtrb[c] >= Cardinality({b \in FactoEdges : FactoDst[b] = c})
  <2>1. c \in CblkSet /\ FactoCtrb[c] = Cardinality(Brow(c))
    BY Structure DEF FactoSkipped, FactoCtrb
  <2> DEFINE got == {b \in Brow(c) : LCblk(b) \notin SchurSet}
  <2>2. got \subseteq Brow(c)
    OBVIOUS
  <2>3. {b \in FactoEdges : FactoDst[b] = c} = got
    BY <1>1, <2>1
  <2> HIDE DEF got
  <2>4. Cardinality(got) <= Cardinality(Brow(c)) /\ IsFiniteSet(got)
    BY <2>1, <2>2, BlokFinite, FS_Subset
  <2>5. Cardinality(got) \in Nat /\ Cardinality(Brow(c)) \in Nat
    BY <2>1, <2>4, BlokFinite, FS_CardinalityType
  <2> QED
    BY <2>1, <2>3, <2>4, <2>5
<1>4. FactoTaskCnt = Cardinality(CblkSet \ FactoSkipped)
  BY TaskNbr, Structure DEF FactoTaskCnt, FactoSkipped
<1> QED
  BY <1>1, <1>2, <1>3, <1>4 DEF FactoCtrb

-----------------------------------------------------------------------------
(* The forward solve.                                                      *)

(* The counters of the forward solve suit its three modes.  taskcnt starts *)
(* from the number of tasks, except in schur mode, where it misses the     *)
(* whole Schur complement: dynamic_ztrsm subtracts it whatever the mode.   *)
THEOREM ForwardCounters ==
    ASSUME NEW m \in SolveModes
    PROVE  /\ \A c \in CblkSet \ SolveSkipped(m, "forward") :
                 SolveCtrb(m, "forward")[c] =
                     Cardinality({b \in SolveEdges(m, "forward") : SolveDst(m, "forward")[b] = c})
           /\ \A c \in SolveSkipped(m, "forward") :
                 SolveCtrb(m, "forward")[c] >=
                     Cardinality({b \in SolveEdges(m, "forward") : SolveDst(m, "forward")[b] = c})
           /\ m # "schur" =>
                 SolveTaskCnt("forward") = Cardinality(CblkSet \ SolveSkipped(m, "forward"))
           /\ m = "schur" =>
                 SolveTaskCnt("forward") =
                     Cardinality(CblkSet \ SolveSkipped(m, "forward")) - Cardinality(SchurSet)
<1>1. /\ SolveSkipped(m, "forward") = (IF m = "schur" THEN {} ELSE SchurSet)
      /\ SolveCtrb(m, "forward") = ForwardCtrb /\ SolveTaskCnt("forward") = ForwardTaskCnt
      /\ SolveEdges(m, "forward") = ForwardEdges(m)
      /\ SolveDst(m, "forward") = [b \in ForwardEdges(m) |-> FCblk[b]]
  BY DEF SolveSkipped, SolveCtrb, SolveTaskCnt, SolveEdges, SolveDst, Forward, ForwardSkipped
<1> DEFINE got(c) == {b \in SolveEdges(m, "forward") : SolveDst(m, "forward")[b] = c}
<1>2. ASSUME NEW c \in CblkSet
      PROVE  got(c) \subseteq Brow(c)
  BY <1>1 DEF ForwardEdges, Brow
<1>3. ASSUME NEW c \in CblkSet \ SolveSkipped(m, "forward")
      PROVE  got(c) = Brow(c)
  <2>1. Brow(c) \subseteq ForwardEdges(m)
    <3> SUFFICES ASSUME NEW b \in Brow(c) PROVE b \in ForwardEdges(m)
      OBVIOUS
    <3>1. b \in OffDiagSet /\ FCblk[b] = c
      BY DEF Brow
    <3>2. CASE m = "schur"
      BY <3>1, <3>2 DEF ForwardEdges, ForwardSkipped
    <3>3. CASE m # "schur"
      BY <1>1, <3>1, <3>3, FacedFromOutside DEF ForwardEdges, ForwardSkipped, InSchur
    <3> QED
      BY <3>2, <3>3
  <2> QED
    BY <1>1, <1>2, <2>1 DEF Brow
<1> HIDE DEF got
<1>4. ASSUME NEW c \in CblkSet
      PROVE  ForwardCtrb[c] = Cardinality(Brow(c)) /\ Cardinality(got(c)) <= Cardinality(Brow(c))
             /\ Cardinality(got(c)) \in Nat /\ Cardinality(Brow(c)) \in Nat
  <2>1. Cardinality(got(c)) <= Cardinality(Brow(c)) /\ IsFiniteSet(got(c))
    BY <1>2, BlokFinite, FS_Subset
  <2> QED
    BY <2>1, BlokFinite, FS_CardinalityType DEF ForwardCtrb
<1>5. \A c \in CblkSet \ SolveSkipped(m, "forward") : SolveCtrb(m, "forward")[c] = Cardinality(got(c))
  BY <1>1, <1>3, <1>4
<1>6. \A c \in SolveSkipped(m, "forward") : SolveCtrb(m, "forward")[c] >= Cardinality(got(c))
  BY <1>1, <1>4, Structure
<1>7. ForwardTaskCnt = CblkSchur
  BY Structure DEF ForwardTaskCnt
<1>8. m # "schur" => SolveTaskCnt("forward") = Cardinality(CblkSet \ SolveSkipped(m, "forward"))
  BY <1>1, <1>7, TaskNbr
<1>9. m = "schur" =>
         SolveTaskCnt("forward") =
                     Cardinality(CblkSet \ SolveSkipped(m, "forward")) - Cardinality(SchurSet)
  <2> SUFFICES ASSUME m = "schur"
               PROVE  SolveTaskCnt("forward") =
                     Cardinality(CblkSet \ SolveSkipped(m, "forward")) - Cardinality(SchurSet)
    OBVIOUS
  <2>1. CblkSet \ SolveSkipped(m, "forward") = CblkSet
    BY <1>1
  <2>2. CblkSchur = CblkNbr - (CblkNbr - CblkSchur)
    BY Structure
  <2> QED
    BY <1>1, <1>7, <2>1, <2>2, TaskNbr
<1> QED
  BY <1>5, <1>6, <1>8, <1>9 DEF got

(* One column block of the Schur complement at most is queued at the start *)
(* of a forward solve that drops it: the first one.  It is what            *)
(* QueuesEmptyAlways of DynamicLoopProofs asks of the graph; no column     *)
(* block is dropped in the backward solve.                                 *)
THEOREM ForwardLeftovers ==
    ASSUME NEW m \in SolveModes
    PROVE  \A c, d \in SolveSkipped(m, "forward") :
              SolveCtrb(m, "forward")[c] = 0 /\ SolveCtrb(m, "forward")[d] = 0 => c = d
<1>1. SolveSkipped(m, "forward") \subseteq SchurSet /\ SolveCtrb(m, "forward") = ForwardCtrb
  BY DEF SolveSkipped, SolveCtrb, Forward, ForwardSkipped
<1>2. ASSUME NEW c \in SchurSet, NEW d \in SchurSet, c < d PROVE ForwardCtrb[d] # 0
  <2>1. PICK b \in OffDiag(c) : FCblk[b] = d
    BY <1>2, SchurAssumption
  <2>2. c \in CblkSet /\ d \in CblkSet
    BY Structure
  <2>3. b \in Brow(d)
    BY <2>1, <2>2 DEF Brow, OffDiagSet
  <2>4. Cardinality(Brow(d)) # 0
    BY <2>2, <2>3, BlokFinite, FS_EmptySet
  <2> QED
    BY <2>2, <2>4 DEF ForwardCtrb
<1>3. SchurSet \subseteq Int
  BY Structure DEF SchurSet
<1>4. ASSUME NEW c \in SchurSet, NEW d \in SchurSet, ForwardCtrb[c] = 0, ForwardCtrb[d] = 0
      PROVE  c = d
  <2>1. c \in Int /\ d \in Int
    BY <1>3
  <2>2. ~ (c < d) /\ ~ (d < c)
    BY <1>2, <1>4
  <2> QED
    BY <2>1, <2>2
<1> QED
  BY <1>1, <1>4

-----------------------------------------------------------------------------
(* The backward solve.                                                     *)

(* A contribution of the backward solve stands for one block.              *)
LEMMA BackwardBlokOf ==
    ASSUME NEW m, NEW b \in BackwardBloks(m)
    PROVE  /\ BackwardEdge(m, b) \in BackwardEdges(m)
           /\ BackwardBlok(m, BackwardEdge(m, b)) = b
<1>1. ASSUME NEW a \in BackwardBloks(m), BackwardEdge(m, a) = BackwardEdge(m, b)
      PROVE  a = b
  <2>1. a \in Nat /\ b \in Nat
    BY OffDiagOwner DEF BackwardBloks
  <2> QED
    BY <1>1, <2>1 DEF BackwardEdge
<1> QED
  BY <1>1 DEF BackwardBlok, BackwardEdges

(* The counters of the backward solve suit its three modes, although the   *)
(* initialisation reads cblk[1].fblokptr - cblk[0].fblokptr only outside   *)
(* of the Schur complement, and taskcnt counts every column block, the     *)
(* Schur complement included.                                              *)
THEOREM BackwardCounters ==
    ASSUME NEW m \in SolveModes
    PROVE  /\ SolveSkipped(m, "backward") = {}
           /\ \A c \in CblkSet :
                 SolveCtrb(m, "backward")[c] =
                     Cardinality({e \in SolveEdges(m, "backward") : SolveDst(m, "backward")[e] = c})
           /\ SolveTaskCnt("backward") = Cardinality(CblkSet \ SolveSkipped(m, "backward"))
<1>1. /\ SolveSkipped(m, "backward") = {}
      /\ SolveCtrb(m, "backward") = BackwardCtrb(m)
      /\ SolveTaskCnt("backward") = CblkNbr
      /\ SolveEdges(m, "backward") = BackwardEdges(m)
      /\ SolveDst(m, "backward") = [e \in BackwardEdges(m) |-> LCblk(BackwardBlok(m, e))]
  BY DEF SolveSkipped, SolveCtrb, SolveTaskCnt, SolveEdges, SolveDst, Forward, BackwardTaskCnt
<1>2. ASSUME NEW c \in CblkSet
      PROVE  SolveCtrb(m, "backward")[c] =
                 Cardinality({e \in SolveEdges(m, "backward") : SolveDst(m, "backward")[e] = c})
  <2> DEFINE got == {e \in BackwardEdges(m) : LCblk(BackwardBlok(m, e)) = c}
  <2>1. {e \in SolveEdges(m, "backward") : SolveDst(m, "backward")[e] = c} = got
    BY <1>1
  <2>2. CASE InSchur(c) /\ m # "schur"
    <3>1. got = {}
      <4> SUFFICES ASSUME NEW e \in got PROVE FALSE
        OBVIOUS
      <4>1. PICK b \in BackwardBloks(m) : e = BackwardEdge(m, b)
        BY DEF BackwardEdges
      <4>2. LCblk(b) = c
        BY <4>1, BackwardBlokOf
      <4> QED
        BY <2>2, <4>1, <4>2 DEF BackwardBloks
    <3> QED
      BY <1>1, <2>1, <2>2, <3>1, FS_EmptySet DEF BackwardCtrb
  <2>3. CASE ~ (InSchur(c) /\ m # "schur")
    <3>1. \A b \in OffDiag(c) : b \in BackwardBloks(m) /\ LCblk(b) = c
      BY <2>3, OffDiagBlok DEF BackwardBloks
    <3> DEFINE f == [b \in OffDiag(c) |-> BackwardEdge(m, b)]
    <3>2. f \in [OffDiag(c) -> got]
      BY <3>1, BackwardBlokOf
    <3>3. \A a, b \in OffDiag(c) : f[a] = f[b] => a = b
      BY <3>1, BackwardBlokOf
    <3>4. \A e \in got : \E b \in OffDiag(c) : f[b] = e
      <4> SUFFICES ASSUME NEW e \in got PROVE \E b \in OffDiag(c) : f[b] = e
        OBVIOUS
      <4>1. PICK b \in BackwardBloks(m) : e = BackwardEdge(m, b)
        BY DEF BackwardEdges
      <4>2. LCblk(b) = c /\ b \in OffDiagSet
        BY <4>1, BackwardBlokOf DEF BackwardBloks
      <4>3. b \in OffDiag(c)
        BY <4>2, OffDiagOwner
      <4> QED
        BY <4>1, <4>3
    <3>5. ExistsBijection(OffDiag(c), got)
      BY <3>2, <3>3, <3>4 DEF ExistsBijection, Bijection, Injection, Surjection, IsInjective
    <3>6. Cardinality(got) = Cardinality(OffDiag(c))
      BY <3>5, BlokFinite, FS_Bijection
    <3> QED
      BY <1>1, <2>1, <2>3, <3>6 DEF BackwardCtrb
  <2> QED
    BY <2>2, <2>3
<1>3. SolveTaskCnt("backward") = Cardinality(CblkSet \ SolveSkipped(m, "backward"))
  BY <1>1, TaskNbr
<1> QED
  BY <1>1, <1>2, <1>3

-----------------------------------------------------------------------------
(* The graphs of the jobs.                                                 *)

(* Equal slices cover the column blocks.                                   *)
LEMMA Slices == SliceOf \in [CblkSet -> 0 .. ThreadNbr - 1]
<1> SUFFICES ASSUME NEW c \in CblkSet
             PROVE  SliceOwner(c, ThreadNbr) \in 0 .. ThreadNbr - 1
  BY DEF SliceOf
<1> DEFINE slice == CblkNbr \div ThreadNbr
<1>1. ThreadNbr \in Nat /\ ThreadNbr >= 1 /\ CblkNbr \in Nat /\ c \in Nat
  BY SolveAssumption, Structure DEF CblkSet
<1>2. slice \in Nat
  BY <1>1
<1> HIDE DEF slice
<1>3. ASSUME c < slice * (ThreadNbr - 1)
      PROVE  c \div slice \in 0 .. ThreadNbr - 1
  <2>1. slice > 0
    <3> SUFFICES ASSUME slice = 0 PROVE FALSE
      BY <1>2
    <3>1. slice * (ThreadNbr - 1) = 0
      BY <1>1
    <3> QED
      BY <1>1, <1>3, <3>1
  <2> DEFINE q == c \div slice
  <2>2. q \in Nat /\ slice * q <= c
    BY <1>1, <1>2, <2>1
  <2> HIDE DEF q
  <2>3. q < ThreadNbr - 1
    <3> SUFFICES ASSUME q >= ThreadNbr - 1 PROVE FALSE
      BY <1>1, <2>2
    <3> DEFINE d == q - (ThreadNbr - 1)
    <3>1. d \in Nat /\ q = (ThreadNbr - 1) + d
      BY <1>1, <2>2
    <3> HIDE DEF d
    <3>2. slice * q = slice * (ThreadNbr - 1) + slice * d /\ slice * d >= 0
      BY <1>1, <1>2, <3>1
    <3>3. slice * (ThreadNbr - 1) \in Int /\ slice * d \in Int /\ slice * q \in Int
      BY <1>1, <1>2, <2>2, <3>1
    <3> QED
      BY <1>1, <1>3, <2>2, <3>2, <3>3
  <2> QED
    BY <1>1, <2>2, <2>3 DEF q
<1> QED
  BY <1>1, <1>2, <1>3 DEF SliceOwner, slice

LEMMA EdgesFinite ==
    ASSUME NEW m \in SolveModes, NEW s \in SolveSteps
    PROVE  SolveEdges(m, s) \subseteq Int /\ IsFiniteSet(SolveEdges(m, s))
<1>1. OffDiagSet \subseteq Int /\ IsFiniteSet(OffDiagSet)
  <2>1. OffDiagSet \subseteq BlokSet
    <3> SUFFICES ASSUME NEW c \in CblkSet, NEW b \in OffDiag(c) PROVE b \in BlokSet
      BY DEF OffDiagSet
    <3>1. c + 1 = CblkNbr \/ c + 1 < CblkNbr
      BY Structure DEF CblkSet
    <3>2. FBlok[c + 1] <= FBlok[CblkNbr]
      BY <3>1, Structure
    <3> QED
      BY <3>2, Structure DEF BlokSet, OffDiag
  <2>2. FBlok[CblkNbr] - 1 \in Int
    BY Structure
  <2>3. IsFiniteSet(BlokSet) /\ BlokSet \subseteq Int
    BY <2>2, FS_Interval DEF BlokSet
  <2> QED
    BY <2>1, <2>3, FS_Subset
<1>2. CASE s = "forward"
  BY <1>1, <1>2, FS_Subset DEF SolveEdges, Forward, ForwardEdges
<1>3. CASE s = "backward"
  <2>1. BackwardBloks(m) \subseteq OffDiagSet /\ IsFiniteSet(BackwardBloks(m))
    BY <1>1, FS_Subset DEF BackwardBloks
  <2> DEFINE f == [b \in BackwardBloks(m) |-> BackwardEdge(m, b)]
  <2>2. f \in Surjection(BackwardBloks(m), BackwardEdges(m))
    BY DEF BackwardEdges, Surjection, Range
  <2>3. IsFiniteSet(BackwardEdges(m))
    BY <2>1, <2>2, FS_Surjection
  <2>4. BackwardEdges(m) \subseteq Int
    <3>1. \A b \in BackwardBloks(m) : b \in Int
      BY <1>1, <2>1
    <3>2. \A b \in BackwardBloks(m) : BackwardEdge(m, b) \in Int
      BY <3>1 DEF BackwardEdge
    <3> QED
      BY <3>2 DEF BackwardEdges
  <2> QED
    BY <1>3, <2>3, <2>4 DEF SolveEdges, Forward
<1> QED
  BY <1>2, <1>3 DEF SolveSteps

(* A contribution comes from a column block that is computed.              *)
LEMMA EdgesOfTasks ==
    ASSUME NEW m \in SolveModes, NEW s \in SolveSteps, NEW e \in SolveEdges(m, s)
    PROVE  /\ SolveSrc(m, s)[e] \in CblkSet \ SolveSkipped(m, s)
           /\ SolveDst(m, s)[e] \in CblkSet
<1>1. CASE s = "forward"
  <2>1. e \in ForwardEdges(m)
    BY <1>1 DEF SolveEdges, Forward
  <2>2. e \in OffDiagSet /\ LCblk(e) \notin ForwardSkipped(m)
    BY <2>1 DEF ForwardEdges
  <2> QED
    BY <1>1, <2>2, OffDiagOwner DEF SolveSrc, SolveDst, SolveSkipped, Forward
<1>2. CASE s = "backward"
  <2>1. e \in BackwardEdges(m)
    BY <1>2 DEF SolveEdges, Forward
  <2>2. PICK b \in BackwardBloks(m) : e = BackwardEdge(m, b)
    BY <2>1 DEF BackwardEdges
  <2>3. BackwardBlok(m, e) = b /\ b \in OffDiagSet
    BY <2>2, BackwardBlokOf DEF BackwardBloks
  <2> QED
    BY <1>2, <2>3, OffDiagOwner DEF SolveSrc, SolveDst, SolveSkipped, Forward
<1> QED
  BY <1>1, <1>2 DEF SolveSteps

(* Each job gives DynamicLoop what it assumes of its parameters.           *)
LEMMA JobGraph ==
    ASSUME NEW m \in SolveModes, NEW s \in SolveSteps
    PROVE  /\ EdgesOf[m][s] \subseteq Int /\ IsFiniteSet(EdgesOf[m][s])
           /\ SrcOf[m][s] \in [EdgesOf[m][s] -> CblkSet \ SkippedOf[m][s]]
           /\ DstOf[m][s] \in [EdgesOf[m][s] -> CblkSet]
           /\ CtrbOf[m][s] \in [CblkSet -> Nat] /\ SolveKey(s) \in [CblkSet -> Int]
           /\ SolveTaskCnt(s) \in Int
           /\ \A c \in CblkSet \ SkippedOf[m][s] :
                 CtrbOf[m][s][c] = Cardinality({e \in EdgesOf[m][s] : DstOf[m][s][e] = c})
           /\ \A c \in SkippedOf[m][s] :
                 CtrbOf[m][s][c] >= Cardinality({e \in EdgesOf[m][s] : DstOf[m][s][e] = c})
<1>1. /\ SkippedOf[m][s] = SolveSkipped(m, s) /\ EdgesOf[m][s] = SolveEdges(m, s)
      /\ SrcOf[m][s] = SolveSrc(m, s) /\ DstOf[m][s] = SolveDst(m, s)
      /\ CtrbOf[m][s] = SolveCtrb(m, s)
  BY DEF SkippedOf, EdgesOf, SrcOf, DstOf, CtrbOf
<1>2. /\ SolveSrc(m, s) \in [SolveEdges(m, s) -> CblkSet \ SolveSkipped(m, s)]
      /\ SolveDst(m, s) \in [SolveEdges(m, s) -> CblkSet]
  <2>1. DOMAIN SolveSrc(m, s) = SolveEdges(m, s) /\ DOMAIN SolveDst(m, s) = SolveEdges(m, s)
    BY DEF SolveSrc, SolveDst
  <2>2. /\ SolveSrc(m, s) = [e \in SolveEdges(m, s) |-> SolveSrc(m, s)[e]]
        /\ SolveDst(m, s) = [e \in SolveEdges(m, s) |-> SolveDst(m, s)[e]]
    BY DEF SolveSrc, SolveDst
  <2> QED
    BY <2>2, EdgesOfTasks
<1>3. SolveCtrb(m, s) \in [CblkSet -> Nat]
  <2>1. \A c \in CblkSet : Cardinality(Brow(c)) \in Nat /\ Cardinality(OffDiag(c)) \in Nat
    BY BlokFinite, FS_CardinalityType
  <2> QED
    BY <2>1 DEF SolveCtrb, ForwardCtrb, BackwardCtrb
<1>4. SolveKey(s) \in [CblkSet -> Int]
  BY StructureAssumption DEF SolveKey
<1>5. SolveTaskCnt(s) \in Int
  BY Structure DEF SolveTaskCnt, ForwardTaskCnt, BackwardTaskCnt
<1>6. /\ \A c \in CblkSet \ SolveSkipped(m, s) :
           SolveCtrb(m, s)[c] = Cardinality({e \in SolveEdges(m, s) : SolveDst(m, s)[e] = c})
      /\ \A c \in SolveSkipped(m, s) :
           SolveCtrb(m, s)[c] >= Cardinality({e \in SolveEdges(m, s) : SolveDst(m, s)[e] = c})
  <2>1. CASE s = "forward"
    <3>1. /\ \A c \in CblkSet \ SolveSkipped(m, "forward") :
               SolveCtrb(m, "forward")[c] =
                   Cardinality({e \in SolveEdges(m, "forward") : SolveDst(m, "forward")[e] = c})
          /\ \A c \in SolveSkipped(m, "forward") :
               SolveCtrb(m, "forward")[c] >=
                   Cardinality({e \in SolveEdges(m, "forward") : SolveDst(m, "forward")[e] = c})
      BY ForwardCounters
    <3> QED
      BY <2>1, <3>1, Zenon
  <2>2. CASE s = "backward"
    <3>1. /\ SolveSkipped(m, "backward") = {}
          /\ \A c \in CblkSet :
               SolveCtrb(m, "backward")[c] =
                   Cardinality({e \in SolveEdges(m, "backward") : SolveDst(m, "backward")[e] = c})
      BY BackwardCounters
    <3> QED
      BY <2>2, <3>1, Zenon
  <2> QED
    BY <2>1, <2>2 DEF SolveSteps
<1> QED
  BY <1>1, <1>2, <1>3, <1>4, <1>5, <1>6, EdgesFinite

(* But for the forward step in schur mode, the count of the tasks is       *)
(* right; and the queues can be emptied if something is not in the Schur   *)
(* complement.                                                             *)
LEMMA JobCount ==
    ASSUME NEW m \in SolveModes, NEW s \in SolveSteps, ~ (m = "schur" /\ s = "forward")
    PROVE  /\ SolveTaskCnt(s) = Cardinality(CblkSet \ SkippedOf[m][s])
           /\ CblkSchur > 0 => CblkSet \ SkippedOf[m][s] # {}
           /\ \A c, d \in SkippedOf[m][s] \cap CblkSet :
                 CtrbOf[m][s][c] = 0 /\ CtrbOf[m][s][d] = 0 => c = d
<1>1. SkippedOf[m][s] = SolveSkipped(m, s) /\ CtrbOf[m][s] = SolveCtrb(m, s)
  BY DEF SkippedOf, CtrbOf
<1>2. CASE s = "forward"
  <2>1. SolveSkipped(m, s) = SchurSet
    BY <1>2 DEF SolveSkipped, Forward, ForwardSkipped
  <2>2. CblkSchur > 0 => 0 \in CblkSet \ SchurSet
    BY Structure DEF CblkSet, SchurSet
  <2> QED
    BY <1>1, <1>2, <2>1, <2>2, ForwardCounters, ForwardLeftovers
<1>3. CASE s = "backward"
  <2>1. 0 \in CblkSet
    BY Structure DEF CblkSet
  <2> QED
    BY <1>1, <1>3, <2>1, BackwardCounters
<1> QED
  BY <1>2, <1>3 DEF SolveSteps

-----------------------------------------------------------------------------
(* The six jobs, as the modules that DynamicLoopProofs is about: what each *)
(* of them keeps, from its start to the exit of the threads.               *)

LocalFwdP == INSTANCE DynamicLoopProofs WITH
    Cblks <- CblkSet, Owner <- SliceOf,
    Key <- SolveKey("forward"), TaskCnt <- SolveTaskCnt("forward"),
    Skipped <- SkippedOf["local"]["forward"], Edges <- EdgesOf["local"]["forward"],
    Src <- SrcOf["local"]["forward"], Dst <- DstOf["local"]["forward"],
    Ctrb <- CtrbOf["local"]["forward"]

LEMMA LocalFwdSizes ==
    ASSUME NEW S
    PROVE  LocalFwdP!Cardinality(S) = Cardinality(S) /\ (LocalFwdP!IsFiniteSet(S) <=> IsFiniteSet(S))
<1>1. LocalFwdP!Cardinality(S) = Cardinality(S)
  BY DEF LocalFwdP!Cardinality, Cardinality
<1>2. LocalFwdP!IsFiniteSet(S) <=> IsFiniteSet(S)
  BY DEF LocalFwdP!IsFiniteSet, IsFiniteSet
<1> QED
  BY <1>1, <1>2

LEMMA LocalFwdGraph == LocalFwdP!LoopAssumption /\ LocalFwdP!CounterAssumption
<1>1. "local" \in SolveModes /\ "forward" \in SolveSteps
  BY DEF SolveModes, SolveSteps
<1>2. /\ ThreadNbr \in Nat \ {0} /\ NoCblk \notin CblkSet
      /\ LocalFwdP!IsFiniteSet(CblkSet) /\ LocalFwdP!IsFiniteSet(EdgesOf["local"]["forward"])
  BY <1>1, SolveAssumption, TaskNbr, JobGraph, LocalFwdSizes
<1>3. LocalFwdP!LoopAssumption
  BY <1>1, <1>2, JobGraph, Slices DEF LocalFwdP!LoopAssumption, LocalFwdP!Tasks, LocalFwdP!Ranks
<1>4. LocalFwdP!CounterAssumption
  <2> DEFINE got(c) == {e \in EdgesOf["local"]["forward"] : DstOf["local"]["forward"][e] = c}
  <2>1. /\ \A c \in CblkSet \ SkippedOf["local"]["forward"] : CtrbOf["local"]["forward"][c] = Cardinality(got(c))
        /\ \A c \in SkippedOf["local"]["forward"] : CtrbOf["local"]["forward"][c] >= Cardinality(got(c))
    BY <1>1, JobGraph
  <2>2. ASSUME NEW c PROVE LocalFwdP!Into(c) = got(c) /\ LocalFwdP!Cardinality(got(c)) = Cardinality(got(c))
    BY LocalFwdSizes DEF LocalFwdP!Into
  <2> HIDE DEF got
  <2>3. ASSUME NEW c PROVE LocalFwdP!Cardinality(LocalFwdP!Into(c)) = Cardinality(got(c))
    BY <2>2
  <2> QED
    BY <2>1, <2>3 DEF LocalFwdP!CounterAssumption, LocalFwdP!Tasks
<1> QED
  BY <1>3, <1>4

LEMMA LocalFwdStarts == LocalFwd!Init => LocalFwdP!JobInv
<1>1. LocalFwd!Init => LocalFwdP!Fresh
  <2>1. 0 \in 0 .. ThreadNbr - 1
    BY SolveAssumption
  <2> QED
    BY <2>1 DEF LocalFwd!Init, LocalFwdP!Fresh, LocalFwd!Ranks, LocalFwdP!Ranks
<1> QED
  BY <1>1, LocalFwdGraph, LocalFwdP!JobStarts

LEMMA LocalFwdGoesOn ==
    ASSUME LocalFwdP!JobInv,
           LocalFwd!Start \/ LocalFwd!End \/ \E t \in 0 .. ThreadNbr - 1 : LocalFwd!Step(t)
    PROVE  LocalFwdP!JobInv'
<1>1. CASE LocalFwd!Start \/ LocalFwd!End
  <2>1. LocalFwdP!Start \/ LocalFwdP!End
    BY <1>1 DEF LocalFwd!Start, LocalFwdP!Start, LocalFwd!End, LocalFwdP!End, LocalFwd!Ranks, LocalFwdP!Ranks
  <2> QED
    BY <2>1, LocalFwdGraph, LocalFwdP!JobGoesOn
<1>2. ASSUME NEW t \in 0 .. ThreadNbr - 1, LocalFwd!Step(t)
      PROVE  LocalFwdP!JobInv'
  <2>1. t \in LocalFwdP!Ranks /\ LocalFwdP!Step(t)
    BY <1>2 DEF
       LocalFwd!Step, LocalFwdP!Step, LocalFwd!FillQueue, LocalFwdP!FillQueue,
       LocalFwd!TestTaskCnt, LocalFwdP!TestTaskCnt, LocalFwd!Pop, LocalFwdP!Pop,
       LocalFwd!Flush, LocalFwdP!Flush, LocalFwd!Steal, LocalFwdP!Steal, LocalFwd!Skip,
       LocalFwdP!Skip, LocalFwd!Compute, LocalFwdP!Compute, LocalFwd!Update,
       LocalFwdP!Update, LocalFwd!Release, LocalFwdP!Release, LocalFwd!Push,
       LocalFwdP!Push, LocalFwd!Count, LocalFwdP!Count, LocalFwd!Ranks, LocalFwdP!Ranks,
       LocalFwd!Goto, LocalFwdP!Goto, LocalFwd!Take, LocalFwdP!Take, LocalFwd!IsFirst,
       LocalFwdP!IsFirst, LocalFwd!IsNext, LocalFwdP!IsNext, LocalFwd!OutOf,
       LocalFwdP!OutOf, LocalFwd!Tasks, LocalFwdP!Tasks
  <2> QED
    BY <2>1, LocalFwdGraph, LocalFwdP!JobGoesOn
<1> QED
  BY <1>1, <1>2

LEMMA LocalFwdSafe ==
    ASSUME LocalFwdP!JobInv
    PROVE  /\ DOMAIN pc = 0 .. ThreadNbr - 1 /\ LocalFwd!ComputedAfterAll
           /\ LocalFwd!StopsWhenDone
           /\ CblkSchur > 0 => \A t \in DOMAIN pc : pc[t] = "exit" => queue[t] = {}
<1>1. /\ DOMAIN pc = LocalFwdP!Ranks /\ LocalFwdP!ComputedAfterAll
      /\ LocalFwdP!Covers => LocalFwdP!StopsWhenDone
      /\ LocalFwdP!Drains => LocalFwdP!QueuesEmptyAtExit
  BY LocalFwdGraph, LocalFwdP!JobSafe
<1>2. /\ "local" \in SolveModes /\ "forward" \in SolveSteps
      /\ ~ ("local" = "schur" /\ "forward" = "forward")
  BY DEF SolveModes, SolveSteps
<1>3. LocalFwdP!Covers /\ (CblkSchur > 0 => LocalFwdP!Drains)
  BY <1>2, JobCount, LocalFwdSizes DEF LocalFwdP!Covers, LocalFwdP!Drains, LocalFwdP!Tasks, LocalFwdP!FewReady
<1> QED
  BY <1>1, <1>3 DEF LocalFwd!ComputedAfterAll, LocalFwdP!ComputedAfterAll, LocalFwd!StopsWhenDone,
     LocalFwdP!StopsWhenDone, LocalFwdP!QueuesEmptyAtExit, LocalFwdP!Ranks, LocalFwd!Tasks, LocalFwdP!Tasks,
     LocalFwd!Into, LocalFwdP!Into

LocalBwdP == INSTANCE DynamicLoopProofs WITH
    Cblks <- CblkSet, Owner <- SliceOf,
    Key <- SolveKey("backward"), TaskCnt <- SolveTaskCnt("backward"),
    Skipped <- SkippedOf["local"]["backward"], Edges <- EdgesOf["local"]["backward"],
    Src <- SrcOf["local"]["backward"], Dst <- DstOf["local"]["backward"],
    Ctrb <- CtrbOf["local"]["backward"]

LEMMA LocalBwdSizes ==
    ASSUME NEW S
    PROVE  LocalBwdP!Cardinality(S) = Cardinality(S) /\ (LocalBwdP!IsFiniteSet(S) <=> IsFiniteSet(S))
<1>1. LocalBwdP!Cardinality(S) = Cardinality(S)
  BY DEF LocalBwdP!Cardinality, Cardinality
<1>2. LocalBwdP!IsFiniteSet(S) <=> IsFiniteSet(S)
  BY DEF LocalBwdP!IsFiniteSet, IsFiniteSet
<1> QED
  BY <1>1, <1>2

LEMMA LocalBwdGraph == LocalBwdP!LoopAssumption /\ LocalBwdP!CounterAssumption
<1>1. "local" \in SolveModes /\ "backward" \in SolveSteps
  BY DEF SolveModes, SolveSteps
<1>2. /\ ThreadNbr \in Nat \ {0} /\ NoCblk \notin CblkSet
      /\ LocalBwdP!IsFiniteSet(CblkSet) /\ LocalBwdP!IsFiniteSet(EdgesOf["local"]["backward"])
  BY <1>1, SolveAssumption, TaskNbr, JobGraph, LocalBwdSizes
<1>3. LocalBwdP!LoopAssumption
  BY <1>1, <1>2, JobGraph, Slices DEF LocalBwdP!LoopAssumption, LocalBwdP!Tasks, LocalBwdP!Ranks
<1>4. LocalBwdP!CounterAssumption
  <2> DEFINE got(c) == {e \in EdgesOf["local"]["backward"] : DstOf["local"]["backward"][e] = c}
  <2>1. /\ \A c \in CblkSet \ SkippedOf["local"]["backward"] : CtrbOf["local"]["backward"][c] = Cardinality(got(c))
        /\ \A c \in SkippedOf["local"]["backward"] : CtrbOf["local"]["backward"][c] >= Cardinality(got(c))
    BY <1>1, JobGraph
  <2>2. ASSUME NEW c PROVE LocalBwdP!Into(c) = got(c) /\ LocalBwdP!Cardinality(got(c)) = Cardinality(got(c))
    BY LocalBwdSizes DEF LocalBwdP!Into
  <2> HIDE DEF got
  <2>3. ASSUME NEW c PROVE LocalBwdP!Cardinality(LocalBwdP!Into(c)) = Cardinality(got(c))
    BY <2>2
  <2> QED
    BY <2>1, <2>3 DEF LocalBwdP!CounterAssumption, LocalBwdP!Tasks
<1> QED
  BY <1>3, <1>4

LEMMA LocalBwdStarts == (LocalBwdP!Fresh => LocalBwdP!JobInv)'
<1>1. LocalBwdP!Fresh => LocalBwdP!JobInv
  BY LocalBwdGraph, LocalBwdP!JobStarts
<1> QED
  BY <1>1, PTL

LEMMA LocalBwdGoesOn ==
    ASSUME LocalBwdP!JobInv,
           LocalBwd!Start \/ LocalBwd!End \/ \E t \in 0 .. ThreadNbr - 1 : LocalBwd!Step(t)
    PROVE  LocalBwdP!JobInv'
<1>1. CASE LocalBwd!Start \/ LocalBwd!End
  <2>1. LocalBwdP!Start \/ LocalBwdP!End
    BY <1>1 DEF LocalBwd!Start, LocalBwdP!Start, LocalBwd!End, LocalBwdP!End, LocalBwd!Ranks, LocalBwdP!Ranks
  <2> QED
    BY <2>1, LocalBwdGraph, LocalBwdP!JobGoesOn
<1>2. ASSUME NEW t \in 0 .. ThreadNbr - 1, LocalBwd!Step(t)
      PROVE  LocalBwdP!JobInv'
  <2>1. t \in LocalBwdP!Ranks /\ LocalBwdP!Step(t)
    BY <1>2 DEF
       LocalBwd!Step, LocalBwdP!Step, LocalBwd!FillQueue, LocalBwdP!FillQueue,
       LocalBwd!TestTaskCnt, LocalBwdP!TestTaskCnt, LocalBwd!Pop, LocalBwdP!Pop,
       LocalBwd!Flush, LocalBwdP!Flush, LocalBwd!Steal, LocalBwdP!Steal, LocalBwd!Skip,
       LocalBwdP!Skip, LocalBwd!Compute, LocalBwdP!Compute, LocalBwd!Update,
       LocalBwdP!Update, LocalBwd!Release, LocalBwdP!Release, LocalBwd!Push,
       LocalBwdP!Push, LocalBwd!Count, LocalBwdP!Count, LocalBwd!Ranks, LocalBwdP!Ranks,
       LocalBwd!Goto, LocalBwdP!Goto, LocalBwd!Take, LocalBwdP!Take, LocalBwd!IsFirst,
       LocalBwdP!IsFirst, LocalBwd!IsNext, LocalBwdP!IsNext, LocalBwd!OutOf,
       LocalBwdP!OutOf, LocalBwd!Tasks, LocalBwdP!Tasks
  <2> QED
    BY <2>1, LocalBwdGraph, LocalBwdP!JobGoesOn
<1> QED
  BY <1>1, <1>2

LEMMA LocalBwdSafe ==
    ASSUME LocalBwdP!JobInv
    PROVE  /\ DOMAIN pc = 0 .. ThreadNbr - 1 /\ LocalBwd!ComputedAfterAll
           /\ LocalBwd!StopsWhenDone
           /\ CblkSchur > 0 => \A t \in DOMAIN pc : pc[t] = "exit" => queue[t] = {}
<1>1. /\ DOMAIN pc = LocalBwdP!Ranks /\ LocalBwdP!ComputedAfterAll
      /\ LocalBwdP!Covers => LocalBwdP!StopsWhenDone
      /\ LocalBwdP!Drains => LocalBwdP!QueuesEmptyAtExit
  BY LocalBwdGraph, LocalBwdP!JobSafe
<1>2. /\ "local" \in SolveModes /\ "backward" \in SolveSteps
      /\ ~ ("local" = "schur" /\ "backward" = "forward")
  BY DEF SolveModes, SolveSteps
<1>3. LocalBwdP!Covers /\ (CblkSchur > 0 => LocalBwdP!Drains)
  BY <1>2, JobCount, LocalBwdSizes DEF LocalBwdP!Covers, LocalBwdP!Drains, LocalBwdP!Tasks, LocalBwdP!FewReady
<1> QED
  BY <1>1, <1>3 DEF LocalBwd!ComputedAfterAll, LocalBwdP!ComputedAfterAll, LocalBwd!StopsWhenDone,
     LocalBwdP!StopsWhenDone, LocalBwdP!QueuesEmptyAtExit, LocalBwdP!Ranks, LocalBwd!Tasks, LocalBwdP!Tasks,
     LocalBwd!Into, LocalBwdP!Into

LEMMA LocalFwdEnds ==
    ASSUME LocalFwdP!JobInv, mode = "local", NextStep
    PROVE  LocalBwdP!JobInv'
<1>1. DOMAIN pc = 0 .. ThreadNbr - 1
  BY LocalFwdSafe
<1>2. \A t \in LocalFwdP!Ranks : pc[t] = "exit"
  BY <1>1 DEF NextStep, Returned, LocalFwdP!Ranks
<1>3. /\ cur = [t \in LocalFwdP!Ranks |-> NoCblk] /\ todo = [t \in LocalFwdP!Ranks |-> {}]
      /\ threadid \in [CblkSet -> LocalFwdP!Ranks]
  BY <1>2, LocalFwdGraph, LocalFwdP!JobEnds
<1>4. LocalBwdP!Fresh'
  BY <1>1, <1>3 DEF NextStep, LocalFwdP!Ranks, LocalBwdP!Ranks, LocalBwdP!Fresh
<1> QED
  BY <1>4, LocalBwdStarts

InterfaceFwdP == INSTANCE DynamicLoopProofs WITH
    Cblks <- CblkSet, Owner <- SliceOf,
    Key <- SolveKey("forward"), TaskCnt <- SolveTaskCnt("forward"),
    Skipped <- SkippedOf["interface"]["forward"], Edges <- EdgesOf["interface"]["forward"],
    Src <- SrcOf["interface"]["forward"], Dst <- DstOf["interface"]["forward"],
    Ctrb <- CtrbOf["interface"]["forward"]

LEMMA InterfaceFwdSizes ==
    ASSUME NEW S
    PROVE  InterfaceFwdP!Cardinality(S) = Cardinality(S) /\ (InterfaceFwdP!IsFiniteSet(S) <=> IsFiniteSet(S))
<1>1. InterfaceFwdP!Cardinality(S) = Cardinality(S)
  BY DEF InterfaceFwdP!Cardinality, Cardinality
<1>2. InterfaceFwdP!IsFiniteSet(S) <=> IsFiniteSet(S)
  BY DEF InterfaceFwdP!IsFiniteSet, IsFiniteSet
<1> QED
  BY <1>1, <1>2

LEMMA InterfaceFwdGraph == InterfaceFwdP!LoopAssumption /\ InterfaceFwdP!CounterAssumption
<1>1. "interface" \in SolveModes /\ "forward" \in SolveSteps
  BY DEF SolveModes, SolveSteps
<1>2. /\ ThreadNbr \in Nat \ {0} /\ NoCblk \notin CblkSet
      /\ InterfaceFwdP!IsFiniteSet(CblkSet) /\ InterfaceFwdP!IsFiniteSet(EdgesOf["interface"]["forward"])
  BY <1>1, SolveAssumption, TaskNbr, JobGraph, InterfaceFwdSizes
<1>3. InterfaceFwdP!LoopAssumption
  BY <1>1, <1>2, JobGraph, Slices DEF InterfaceFwdP!LoopAssumption, InterfaceFwdP!Tasks, InterfaceFwdP!Ranks
<1>4. InterfaceFwdP!CounterAssumption
  <2> DEFINE got(c) == {e \in EdgesOf["interface"]["forward"] : DstOf["interface"]["forward"][e] = c}
  <2>1. /\ \A c \in CblkSet \ SkippedOf["interface"]["forward"] : CtrbOf["interface"]["forward"][c] = Cardinality(got(c))
        /\ \A c \in SkippedOf["interface"]["forward"] : CtrbOf["interface"]["forward"][c] >= Cardinality(got(c))
    BY <1>1, JobGraph
  <2>2. ASSUME NEW c PROVE InterfaceFwdP!Into(c) = got(c) /\ InterfaceFwdP!Cardinality(got(c)) = Cardinality(got(c))
    BY InterfaceFwdSizes DEF InterfaceFwdP!Into
  <2> HIDE DEF got
  <2>3. ASSUME NEW c PROVE InterfaceFwdP!Cardinality(InterfaceFwdP!Into(c)) = Cardinality(got(c))
    BY <2>2
  <2> QED
    BY <2>1, <2>3 DEF InterfaceFwdP!CounterAssumption, InterfaceFwdP!Tasks
<1> QED
  BY <1>3, <1>4

LEMMA InterfaceFwdStarts == InterfaceFwd!Init => InterfaceFwdP!JobInv
<1>1. InterfaceFwd!Init => InterfaceFwdP!Fresh
  <2>1. 0 \in 0 .. ThreadNbr - 1
    BY SolveAssumption
  <2> QED
    BY <2>1 DEF InterfaceFwd!Init, InterfaceFwdP!Fresh, InterfaceFwd!Ranks, InterfaceFwdP!Ranks
<1> QED
  BY <1>1, InterfaceFwdGraph, InterfaceFwdP!JobStarts

LEMMA InterfaceFwdGoesOn ==
    ASSUME InterfaceFwdP!JobInv,
           InterfaceFwd!Start \/ InterfaceFwd!End \/ \E t \in 0 .. ThreadNbr - 1 : InterfaceFwd!Step(t)
    PROVE  InterfaceFwdP!JobInv'
<1>1. CASE InterfaceFwd!Start \/ InterfaceFwd!End
  <2>1. InterfaceFwdP!Start \/ InterfaceFwdP!End
    BY <1>1 DEF InterfaceFwd!Start, InterfaceFwdP!Start, InterfaceFwd!End, InterfaceFwdP!End, InterfaceFwd!Ranks, InterfaceFwdP!Ranks
  <2> QED
    BY <2>1, InterfaceFwdGraph, InterfaceFwdP!JobGoesOn
<1>2. ASSUME NEW t \in 0 .. ThreadNbr - 1, InterfaceFwd!Step(t)
      PROVE  InterfaceFwdP!JobInv'
  <2>1. t \in InterfaceFwdP!Ranks /\ InterfaceFwdP!Step(t)
    BY <1>2 DEF
       InterfaceFwd!Step, InterfaceFwdP!Step, InterfaceFwd!FillQueue,
       InterfaceFwdP!FillQueue, InterfaceFwd!TestTaskCnt, InterfaceFwdP!TestTaskCnt,
       InterfaceFwd!Pop, InterfaceFwdP!Pop, InterfaceFwd!Flush, InterfaceFwdP!Flush,
       InterfaceFwd!Steal, InterfaceFwdP!Steal, InterfaceFwd!Skip, InterfaceFwdP!Skip,
       InterfaceFwd!Compute, InterfaceFwdP!Compute, InterfaceFwd!Update,
       InterfaceFwdP!Update, InterfaceFwd!Release, InterfaceFwdP!Release,
       InterfaceFwd!Push, InterfaceFwdP!Push, InterfaceFwd!Count, InterfaceFwdP!Count,
       InterfaceFwd!Ranks, InterfaceFwdP!Ranks, InterfaceFwd!Goto, InterfaceFwdP!Goto,
       InterfaceFwd!Take, InterfaceFwdP!Take, InterfaceFwd!IsFirst,
       InterfaceFwdP!IsFirst, InterfaceFwd!IsNext, InterfaceFwdP!IsNext,
       InterfaceFwd!OutOf, InterfaceFwdP!OutOf, InterfaceFwd!Tasks, InterfaceFwdP!Tasks
  <2> QED
    BY <2>1, InterfaceFwdGraph, InterfaceFwdP!JobGoesOn
<1> QED
  BY <1>1, <1>2

LEMMA InterfaceFwdSafe ==
    ASSUME InterfaceFwdP!JobInv
    PROVE  /\ DOMAIN pc = 0 .. ThreadNbr - 1 /\ InterfaceFwd!ComputedAfterAll
           /\ InterfaceFwd!StopsWhenDone
           /\ CblkSchur > 0 => \A t \in DOMAIN pc : pc[t] = "exit" => queue[t] = {}
<1>1. /\ DOMAIN pc = InterfaceFwdP!Ranks /\ InterfaceFwdP!ComputedAfterAll
      /\ InterfaceFwdP!Covers => InterfaceFwdP!StopsWhenDone
      /\ InterfaceFwdP!Drains => InterfaceFwdP!QueuesEmptyAtExit
  BY InterfaceFwdGraph, InterfaceFwdP!JobSafe
<1>2. /\ "interface" \in SolveModes /\ "forward" \in SolveSteps
      /\ ~ ("interface" = "schur" /\ "forward" = "forward")
  BY DEF SolveModes, SolveSteps
<1>3. InterfaceFwdP!Covers /\ (CblkSchur > 0 => InterfaceFwdP!Drains)
  BY <1>2, JobCount, InterfaceFwdSizes DEF InterfaceFwdP!Covers, InterfaceFwdP!Drains, InterfaceFwdP!Tasks, InterfaceFwdP!FewReady
<1> QED
  BY <1>1, <1>3 DEF InterfaceFwd!ComputedAfterAll, InterfaceFwdP!ComputedAfterAll, InterfaceFwd!StopsWhenDone,
     InterfaceFwdP!StopsWhenDone, InterfaceFwdP!QueuesEmptyAtExit, InterfaceFwdP!Ranks, InterfaceFwd!Tasks, InterfaceFwdP!Tasks,
     InterfaceFwd!Into, InterfaceFwdP!Into

InterfaceBwdP == INSTANCE DynamicLoopProofs WITH
    Cblks <- CblkSet, Owner <- SliceOf,
    Key <- SolveKey("backward"), TaskCnt <- SolveTaskCnt("backward"),
    Skipped <- SkippedOf["interface"]["backward"], Edges <- EdgesOf["interface"]["backward"],
    Src <- SrcOf["interface"]["backward"], Dst <- DstOf["interface"]["backward"],
    Ctrb <- CtrbOf["interface"]["backward"]

LEMMA InterfaceBwdSizes ==
    ASSUME NEW S
    PROVE  InterfaceBwdP!Cardinality(S) = Cardinality(S) /\ (InterfaceBwdP!IsFiniteSet(S) <=> IsFiniteSet(S))
<1>1. InterfaceBwdP!Cardinality(S) = Cardinality(S)
  BY DEF InterfaceBwdP!Cardinality, Cardinality
<1>2. InterfaceBwdP!IsFiniteSet(S) <=> IsFiniteSet(S)
  BY DEF InterfaceBwdP!IsFiniteSet, IsFiniteSet
<1> QED
  BY <1>1, <1>2

LEMMA InterfaceBwdGraph == InterfaceBwdP!LoopAssumption /\ InterfaceBwdP!CounterAssumption
<1>1. "interface" \in SolveModes /\ "backward" \in SolveSteps
  BY DEF SolveModes, SolveSteps
<1>2. /\ ThreadNbr \in Nat \ {0} /\ NoCblk \notin CblkSet
      /\ InterfaceBwdP!IsFiniteSet(CblkSet) /\ InterfaceBwdP!IsFiniteSet(EdgesOf["interface"]["backward"])
  BY <1>1, SolveAssumption, TaskNbr, JobGraph, InterfaceBwdSizes
<1>3. InterfaceBwdP!LoopAssumption
  BY <1>1, <1>2, JobGraph, Slices DEF InterfaceBwdP!LoopAssumption, InterfaceBwdP!Tasks, InterfaceBwdP!Ranks
<1>4. InterfaceBwdP!CounterAssumption
  <2> DEFINE got(c) == {e \in EdgesOf["interface"]["backward"] : DstOf["interface"]["backward"][e] = c}
  <2>1. /\ \A c \in CblkSet \ SkippedOf["interface"]["backward"] : CtrbOf["interface"]["backward"][c] = Cardinality(got(c))
        /\ \A c \in SkippedOf["interface"]["backward"] : CtrbOf["interface"]["backward"][c] >= Cardinality(got(c))
    BY <1>1, JobGraph
  <2>2. ASSUME NEW c PROVE InterfaceBwdP!Into(c) = got(c) /\ InterfaceBwdP!Cardinality(got(c)) = Cardinality(got(c))
    BY InterfaceBwdSizes DEF InterfaceBwdP!Into
  <2> HIDE DEF got
  <2>3. ASSUME NEW c PROVE InterfaceBwdP!Cardinality(InterfaceBwdP!Into(c)) = Cardinality(got(c))
    BY <2>2
  <2> QED
    BY <2>1, <2>3 DEF InterfaceBwdP!CounterAssumption, InterfaceBwdP!Tasks
<1> QED
  BY <1>3, <1>4

LEMMA InterfaceBwdStarts == (InterfaceBwdP!Fresh => InterfaceBwdP!JobInv)'
<1>1. InterfaceBwdP!Fresh => InterfaceBwdP!JobInv
  BY InterfaceBwdGraph, InterfaceBwdP!JobStarts
<1> QED
  BY <1>1, PTL

LEMMA InterfaceBwdGoesOn ==
    ASSUME InterfaceBwdP!JobInv,
           InterfaceBwd!Start \/ InterfaceBwd!End \/ \E t \in 0 .. ThreadNbr - 1 : InterfaceBwd!Step(t)
    PROVE  InterfaceBwdP!JobInv'
<1>1. CASE InterfaceBwd!Start \/ InterfaceBwd!End
  <2>1. InterfaceBwdP!Start \/ InterfaceBwdP!End
    BY <1>1 DEF InterfaceBwd!Start, InterfaceBwdP!Start, InterfaceBwd!End, InterfaceBwdP!End, InterfaceBwd!Ranks, InterfaceBwdP!Ranks
  <2> QED
    BY <2>1, InterfaceBwdGraph, InterfaceBwdP!JobGoesOn
<1>2. ASSUME NEW t \in 0 .. ThreadNbr - 1, InterfaceBwd!Step(t)
      PROVE  InterfaceBwdP!JobInv'
  <2>1. t \in InterfaceBwdP!Ranks /\ InterfaceBwdP!Step(t)
    BY <1>2 DEF
       InterfaceBwd!Step, InterfaceBwdP!Step, InterfaceBwd!FillQueue,
       InterfaceBwdP!FillQueue, InterfaceBwd!TestTaskCnt, InterfaceBwdP!TestTaskCnt,
       InterfaceBwd!Pop, InterfaceBwdP!Pop, InterfaceBwd!Flush, InterfaceBwdP!Flush,
       InterfaceBwd!Steal, InterfaceBwdP!Steal, InterfaceBwd!Skip, InterfaceBwdP!Skip,
       InterfaceBwd!Compute, InterfaceBwdP!Compute, InterfaceBwd!Update,
       InterfaceBwdP!Update, InterfaceBwd!Release, InterfaceBwdP!Release,
       InterfaceBwd!Push, InterfaceBwdP!Push, InterfaceBwd!Count, InterfaceBwdP!Count,
       InterfaceBwd!Ranks, InterfaceBwdP!Ranks, InterfaceBwd!Goto, InterfaceBwdP!Goto,
       InterfaceBwd!Take, InterfaceBwdP!Take, InterfaceBwd!IsFirst,
       InterfaceBwdP!IsFirst, InterfaceBwd!IsNext, InterfaceBwdP!IsNext,
       InterfaceBwd!OutOf, InterfaceBwdP!OutOf, InterfaceBwd!Tasks, InterfaceBwdP!Tasks
  <2> QED
    BY <2>1, InterfaceBwdGraph, InterfaceBwdP!JobGoesOn
<1> QED
  BY <1>1, <1>2

LEMMA InterfaceBwdSafe ==
    ASSUME InterfaceBwdP!JobInv
    PROVE  /\ DOMAIN pc = 0 .. ThreadNbr - 1 /\ InterfaceBwd!ComputedAfterAll
           /\ InterfaceBwd!StopsWhenDone
           /\ CblkSchur > 0 => \A t \in DOMAIN pc : pc[t] = "exit" => queue[t] = {}
<1>1. /\ DOMAIN pc = InterfaceBwdP!Ranks /\ InterfaceBwdP!ComputedAfterAll
      /\ InterfaceBwdP!Covers => InterfaceBwdP!StopsWhenDone
      /\ InterfaceBwdP!Drains => InterfaceBwdP!QueuesEmptyAtExit
  BY InterfaceBwdGraph, InterfaceBwdP!JobSafe
<1>2. /\ "interface" \in SolveModes /\ "backward" \in SolveSteps
      /\ ~ ("interface" = "schur" /\ "backward" = "forward")
  BY DEF SolveModes, SolveSteps
<1>3. InterfaceBwdP!Covers /\ (CblkSchur > 0 => InterfaceBwdP!Drains)
  BY <1>2, JobCount, InterfaceBwdSizes DEF InterfaceBwdP!Covers, InterfaceBwdP!Drains, InterfaceBwdP!Tasks, InterfaceBwdP!FewReady
<1> QED
  BY <1>1, <1>3 DEF InterfaceBwd!ComputedAfterAll, InterfaceBwdP!ComputedAfterAll, InterfaceBwd!StopsWhenDone,
     InterfaceBwdP!StopsWhenDone, InterfaceBwdP!QueuesEmptyAtExit, InterfaceBwdP!Ranks, InterfaceBwd!Tasks, InterfaceBwdP!Tasks,
     InterfaceBwd!Into, InterfaceBwdP!Into

LEMMA InterfaceFwdEnds ==
    ASSUME InterfaceFwdP!JobInv, mode = "interface", NextStep
    PROVE  InterfaceBwdP!JobInv'
<1>1. DOMAIN pc = 0 .. ThreadNbr - 1
  BY InterfaceFwdSafe
<1>2. \A t \in InterfaceFwdP!Ranks : pc[t] = "exit"
  BY <1>1 DEF NextStep, Returned, InterfaceFwdP!Ranks
<1>3. /\ cur = [t \in InterfaceFwdP!Ranks |-> NoCblk] /\ todo = [t \in InterfaceFwdP!Ranks |-> {}]
      /\ threadid \in [CblkSet -> InterfaceFwdP!Ranks]
  BY <1>2, InterfaceFwdGraph, InterfaceFwdP!JobEnds
<1>4. InterfaceBwdP!Fresh'
  BY <1>1, <1>3 DEF NextStep, InterfaceFwdP!Ranks, InterfaceBwdP!Ranks, InterfaceBwdP!Fresh
<1> QED
  BY <1>4, InterfaceBwdStarts

SchurFwdP == INSTANCE DynamicLoopProofs WITH
    Cblks <- CblkSet, Owner <- SliceOf,
    Key <- SolveKey("forward"), TaskCnt <- SolveTaskCnt("forward"),
    Skipped <- SkippedOf["schur"]["forward"], Edges <- EdgesOf["schur"]["forward"],
    Src <- SrcOf["schur"]["forward"], Dst <- DstOf["schur"]["forward"],
    Ctrb <- CtrbOf["schur"]["forward"]

LEMMA SchurFwdSizes ==
    ASSUME NEW S
    PROVE  SchurFwdP!Cardinality(S) = Cardinality(S) /\ (SchurFwdP!IsFiniteSet(S) <=> IsFiniteSet(S))
<1>1. SchurFwdP!Cardinality(S) = Cardinality(S)
  BY DEF SchurFwdP!Cardinality, Cardinality
<1>2. SchurFwdP!IsFiniteSet(S) <=> IsFiniteSet(S)
  BY DEF SchurFwdP!IsFiniteSet, IsFiniteSet
<1> QED
  BY <1>1, <1>2

LEMMA SchurFwdGraph == SchurFwdP!LoopAssumption /\ SchurFwdP!CounterAssumption
<1>1. "schur" \in SolveModes /\ "forward" \in SolveSteps
  BY DEF SolveModes, SolveSteps
<1>2. /\ ThreadNbr \in Nat \ {0} /\ NoCblk \notin CblkSet
      /\ SchurFwdP!IsFiniteSet(CblkSet) /\ SchurFwdP!IsFiniteSet(EdgesOf["schur"]["forward"])
  BY <1>1, SolveAssumption, TaskNbr, JobGraph, SchurFwdSizes
<1>3. SchurFwdP!LoopAssumption
  BY <1>1, <1>2, JobGraph, Slices DEF SchurFwdP!LoopAssumption, SchurFwdP!Tasks, SchurFwdP!Ranks
<1>4. SchurFwdP!CounterAssumption
  <2> DEFINE got(c) == {e \in EdgesOf["schur"]["forward"] : DstOf["schur"]["forward"][e] = c}
  <2>1. /\ \A c \in CblkSet \ SkippedOf["schur"]["forward"] : CtrbOf["schur"]["forward"][c] = Cardinality(got(c))
        /\ \A c \in SkippedOf["schur"]["forward"] : CtrbOf["schur"]["forward"][c] >= Cardinality(got(c))
    BY <1>1, JobGraph
  <2>2. ASSUME NEW c PROVE SchurFwdP!Into(c) = got(c) /\ SchurFwdP!Cardinality(got(c)) = Cardinality(got(c))
    BY SchurFwdSizes DEF SchurFwdP!Into
  <2> HIDE DEF got
  <2>3. ASSUME NEW c PROVE SchurFwdP!Cardinality(SchurFwdP!Into(c)) = Cardinality(got(c))
    BY <2>2
  <2> QED
    BY <2>1, <2>3 DEF SchurFwdP!CounterAssumption, SchurFwdP!Tasks
<1> QED
  BY <1>3, <1>4

LEMMA SchurFwdStarts == SchurFwd!Init => SchurFwdP!JobInv
<1>1. SchurFwd!Init => SchurFwdP!Fresh
  <2>1. 0 \in 0 .. ThreadNbr - 1
    BY SolveAssumption
  <2> QED
    BY <2>1 DEF SchurFwd!Init, SchurFwdP!Fresh, SchurFwd!Ranks, SchurFwdP!Ranks
<1> QED
  BY <1>1, SchurFwdGraph, SchurFwdP!JobStarts

LEMMA SchurFwdGoesOn ==
    ASSUME SchurFwdP!JobInv,
           SchurFwd!Start \/ SchurFwd!End \/ \E t \in 0 .. ThreadNbr - 1 : SchurFwd!Step(t)
    PROVE  SchurFwdP!JobInv'
<1>1. CASE SchurFwd!Start \/ SchurFwd!End
  <2>1. SchurFwdP!Start \/ SchurFwdP!End
    BY <1>1 DEF SchurFwd!Start, SchurFwdP!Start, SchurFwd!End, SchurFwdP!End, SchurFwd!Ranks, SchurFwdP!Ranks
  <2> QED
    BY <2>1, SchurFwdGraph, SchurFwdP!JobGoesOn
<1>2. ASSUME NEW t \in 0 .. ThreadNbr - 1, SchurFwd!Step(t)
      PROVE  SchurFwdP!JobInv'
  <2>1. t \in SchurFwdP!Ranks /\ SchurFwdP!Step(t)
    BY <1>2 DEF
       SchurFwd!Step, SchurFwdP!Step, SchurFwd!FillQueue, SchurFwdP!FillQueue,
       SchurFwd!TestTaskCnt, SchurFwdP!TestTaskCnt, SchurFwd!Pop, SchurFwdP!Pop,
       SchurFwd!Flush, SchurFwdP!Flush, SchurFwd!Steal, SchurFwdP!Steal, SchurFwd!Skip,
       SchurFwdP!Skip, SchurFwd!Compute, SchurFwdP!Compute, SchurFwd!Update,
       SchurFwdP!Update, SchurFwd!Release, SchurFwdP!Release, SchurFwd!Push,
       SchurFwdP!Push, SchurFwd!Count, SchurFwdP!Count, SchurFwd!Ranks, SchurFwdP!Ranks,
       SchurFwd!Goto, SchurFwdP!Goto, SchurFwd!Take, SchurFwdP!Take, SchurFwd!IsFirst,
       SchurFwdP!IsFirst, SchurFwd!IsNext, SchurFwdP!IsNext, SchurFwd!OutOf,
       SchurFwdP!OutOf, SchurFwd!Tasks, SchurFwdP!Tasks
  <2> QED
    BY <2>1, SchurFwdGraph, SchurFwdP!JobGoesOn
<1> QED
  BY <1>1, <1>2

LEMMA SchurFwdSafe ==
    ASSUME SchurFwdP!JobInv
    PROVE  /\ DOMAIN pc = 0 .. ThreadNbr - 1 /\ SchurFwd!ComputedAfterAll
<1>1. DOMAIN pc = SchurFwdP!Ranks /\ SchurFwdP!ComputedAfterAll
  BY SchurFwdGraph, SchurFwdP!JobSafe
<1> QED
  BY <1>1 DEF SchurFwd!ComputedAfterAll, SchurFwdP!ComputedAfterAll, SchurFwdP!Ranks, SchurFwd!Into, SchurFwdP!Into

SchurBwdP == INSTANCE DynamicLoopProofs WITH
    Cblks <- CblkSet, Owner <- SliceOf,
    Key <- SolveKey("backward"), TaskCnt <- SolveTaskCnt("backward"),
    Skipped <- SkippedOf["schur"]["backward"], Edges <- EdgesOf["schur"]["backward"],
    Src <- SrcOf["schur"]["backward"], Dst <- DstOf["schur"]["backward"],
    Ctrb <- CtrbOf["schur"]["backward"]

LEMMA SchurBwdSizes ==
    ASSUME NEW S
    PROVE  SchurBwdP!Cardinality(S) = Cardinality(S) /\ (SchurBwdP!IsFiniteSet(S) <=> IsFiniteSet(S))
<1>1. SchurBwdP!Cardinality(S) = Cardinality(S)
  BY DEF SchurBwdP!Cardinality, Cardinality
<1>2. SchurBwdP!IsFiniteSet(S) <=> IsFiniteSet(S)
  BY DEF SchurBwdP!IsFiniteSet, IsFiniteSet
<1> QED
  BY <1>1, <1>2

LEMMA SchurBwdGraph == SchurBwdP!LoopAssumption /\ SchurBwdP!CounterAssumption
<1>1. "schur" \in SolveModes /\ "backward" \in SolveSteps
  BY DEF SolveModes, SolveSteps
<1>2. /\ ThreadNbr \in Nat \ {0} /\ NoCblk \notin CblkSet
      /\ SchurBwdP!IsFiniteSet(CblkSet) /\ SchurBwdP!IsFiniteSet(EdgesOf["schur"]["backward"])
  BY <1>1, SolveAssumption, TaskNbr, JobGraph, SchurBwdSizes
<1>3. SchurBwdP!LoopAssumption
  BY <1>1, <1>2, JobGraph, Slices DEF SchurBwdP!LoopAssumption, SchurBwdP!Tasks, SchurBwdP!Ranks
<1>4. SchurBwdP!CounterAssumption
  <2> DEFINE got(c) == {e \in EdgesOf["schur"]["backward"] : DstOf["schur"]["backward"][e] = c}
  <2>1. /\ \A c \in CblkSet \ SkippedOf["schur"]["backward"] : CtrbOf["schur"]["backward"][c] = Cardinality(got(c))
        /\ \A c \in SkippedOf["schur"]["backward"] : CtrbOf["schur"]["backward"][c] >= Cardinality(got(c))
    BY <1>1, JobGraph
  <2>2. ASSUME NEW c PROVE SchurBwdP!Into(c) = got(c) /\ SchurBwdP!Cardinality(got(c)) = Cardinality(got(c))
    BY SchurBwdSizes DEF SchurBwdP!Into
  <2> HIDE DEF got
  <2>3. ASSUME NEW c PROVE SchurBwdP!Cardinality(SchurBwdP!Into(c)) = Cardinality(got(c))
    BY <2>2
  <2> QED
    BY <2>1, <2>3 DEF SchurBwdP!CounterAssumption, SchurBwdP!Tasks
<1> QED
  BY <1>3, <1>4

LEMMA SchurBwdStarts == (SchurBwdP!Fresh => SchurBwdP!JobInv)'
<1>1. SchurBwdP!Fresh => SchurBwdP!JobInv
  BY SchurBwdGraph, SchurBwdP!JobStarts
<1> QED
  BY <1>1, PTL

LEMMA SchurBwdGoesOn ==
    ASSUME SchurBwdP!JobInv,
           SchurBwd!Start \/ SchurBwd!End \/ \E t \in 0 .. ThreadNbr - 1 : SchurBwd!Step(t)
    PROVE  SchurBwdP!JobInv'
<1>1. CASE SchurBwd!Start \/ SchurBwd!End
  <2>1. SchurBwdP!Start \/ SchurBwdP!End
    BY <1>1 DEF SchurBwd!Start, SchurBwdP!Start, SchurBwd!End, SchurBwdP!End, SchurBwd!Ranks, SchurBwdP!Ranks
  <2> QED
    BY <2>1, SchurBwdGraph, SchurBwdP!JobGoesOn
<1>2. ASSUME NEW t \in 0 .. ThreadNbr - 1, SchurBwd!Step(t)
      PROVE  SchurBwdP!JobInv'
  <2>1. t \in SchurBwdP!Ranks /\ SchurBwdP!Step(t)
    BY <1>2 DEF
       SchurBwd!Step, SchurBwdP!Step, SchurBwd!FillQueue, SchurBwdP!FillQueue,
       SchurBwd!TestTaskCnt, SchurBwdP!TestTaskCnt, SchurBwd!Pop, SchurBwdP!Pop,
       SchurBwd!Flush, SchurBwdP!Flush, SchurBwd!Steal, SchurBwdP!Steal, SchurBwd!Skip,
       SchurBwdP!Skip, SchurBwd!Compute, SchurBwdP!Compute, SchurBwd!Update,
       SchurBwdP!Update, SchurBwd!Release, SchurBwdP!Release, SchurBwd!Push,
       SchurBwdP!Push, SchurBwd!Count, SchurBwdP!Count, SchurBwd!Ranks, SchurBwdP!Ranks,
       SchurBwd!Goto, SchurBwdP!Goto, SchurBwd!Take, SchurBwdP!Take, SchurBwd!IsFirst,
       SchurBwdP!IsFirst, SchurBwd!IsNext, SchurBwdP!IsNext, SchurBwd!OutOf,
       SchurBwdP!OutOf, SchurBwd!Tasks, SchurBwdP!Tasks
  <2> QED
    BY <2>1, SchurBwdGraph, SchurBwdP!JobGoesOn
<1> QED
  BY <1>1, <1>2

LEMMA SchurBwdSafe ==
    ASSUME SchurBwdP!JobInv
    PROVE  /\ DOMAIN pc = 0 .. ThreadNbr - 1 /\ SchurBwd!ComputedAfterAll
           /\ SchurBwd!StopsWhenDone
           /\ CblkSchur > 0 => \A t \in DOMAIN pc : pc[t] = "exit" => queue[t] = {}
<1>1. /\ DOMAIN pc = SchurBwdP!Ranks /\ SchurBwdP!ComputedAfterAll
      /\ SchurBwdP!Covers => SchurBwdP!StopsWhenDone
      /\ SchurBwdP!Drains => SchurBwdP!QueuesEmptyAtExit
  BY SchurBwdGraph, SchurBwdP!JobSafe
<1>2. /\ "schur" \in SolveModes /\ "backward" \in SolveSteps
      /\ ~ ("schur" = "schur" /\ "backward" = "forward")
  BY DEF SolveModes, SolveSteps
<1>3. SchurBwdP!Covers /\ (CblkSchur > 0 => SchurBwdP!Drains)
  BY <1>2, JobCount, SchurBwdSizes DEF SchurBwdP!Covers, SchurBwdP!Drains, SchurBwdP!Tasks, SchurBwdP!FewReady
<1> QED
  BY <1>1, <1>3 DEF SchurBwd!ComputedAfterAll, SchurBwdP!ComputedAfterAll, SchurBwd!StopsWhenDone,
     SchurBwdP!StopsWhenDone, SchurBwdP!QueuesEmptyAtExit, SchurBwdP!Ranks, SchurBwd!Tasks, SchurBwdP!Tasks,
     SchurBwd!Into, SchurBwdP!Into

LEMMA SchurFwdEnds ==
    ASSUME SchurFwdP!JobInv, mode = "schur", NextStep
    PROVE  SchurBwdP!JobInv'
<1>1. DOMAIN pc = 0 .. ThreadNbr - 1
  BY SchurFwdSafe
<1>2. \A t \in SchurFwdP!Ranks : pc[t] = "exit"
  BY <1>1 DEF NextStep, Returned, SchurFwdP!Ranks
<1>3. /\ cur = [t \in SchurFwdP!Ranks |-> NoCblk] /\ todo = [t \in SchurFwdP!Ranks |-> {}]
      /\ threadid \in [CblkSet -> SchurFwdP!Ranks]
  BY <1>2, SchurFwdGraph, SchurFwdP!JobEnds
<1>4. SchurBwdP!Fresh'
  BY <1>1, <1>3 DEF NextStep, SchurFwdP!Ranks, SchurBwdP!Ranks, SchurBwdP!Fresh
<1> QED
  BY <1>4, SchurBwdStarts

-----------------------------------------------------------------------------
(* The two steps.                                                          *)

(* The job of the mode and of the step keeps its invariant.                *)
SolveInv ==
    /\ mode \in SolveModes /\ step \in SolveSteps
    /\ IsJob("local", "forward") => LocalFwdP!JobInv
    /\ IsJob("local", "backward") => LocalBwdP!JobInv
    /\ IsJob("interface", "forward") => InterfaceFwdP!JobInv
    /\ IsJob("interface", "backward") => InterfaceBwdP!JobInv
    /\ IsJob("schur", "forward") => SchurFwdP!JobInv
    /\ IsJob("schur", "backward") => SchurBwdP!JobInv

LEMMA SolveInvInit == Init => SolveInv
BY SolveAssumption, LocalFwdStarts, InterfaceFwdStarts, SchurFwdStarts
   DEF Init, SolveInv, IsJob, SolveModes, SolveSteps

LEMMA SolveInvNext == SolveInv /\ [Next]_vars => SolveInv'
<1> SUFFICES ASSUME SolveInv, [Next]_vars PROVE SolveInv'
  OBVIOUS
<1>1. ASSUME IsJob("local", "forward"), Run
      PROVE  LocalFwdP!JobInv'
  <2>1. LocalFwdP!JobInv
    BY <1>1 DEF SolveInv
  <2>2. LocalFwd!Start \/ LocalFwd!End \/ \E t \in 0 .. ThreadNbr - 1 : LocalFwd!Step(t)
    BY <1>1 DEF Run, Barrier, Step, IsJob
  <2> QED
    BY <2>1, <2>2, LocalFwdGoesOn
<1>2. ASSUME IsJob("local", "backward"), Run
      PROVE  LocalBwdP!JobInv'
  <2>1. LocalBwdP!JobInv
    BY <1>2 DEF SolveInv
  <2>2. LocalBwd!Start \/ LocalBwd!End \/ \E t \in 0 .. ThreadNbr - 1 : LocalBwd!Step(t)
    BY <1>2 DEF Run, Barrier, Step, IsJob
  <2> QED
    BY <2>1, <2>2, LocalBwdGoesOn
<1>3. ASSUME IsJob("interface", "forward"), Run
      PROVE  InterfaceFwdP!JobInv'
  <2>1. InterfaceFwdP!JobInv
    BY <1>3 DEF SolveInv
  <2>2. InterfaceFwd!Start \/ InterfaceFwd!End \/ \E t \in 0 .. ThreadNbr - 1 : InterfaceFwd!Step(t)
    BY <1>3 DEF Run, Barrier, Step, IsJob
  <2> QED
    BY <2>1, <2>2, InterfaceFwdGoesOn
<1>4. ASSUME IsJob("interface", "backward"), Run
      PROVE  InterfaceBwdP!JobInv'
  <2>1. InterfaceBwdP!JobInv
    BY <1>4 DEF SolveInv
  <2>2. InterfaceBwd!Start \/ InterfaceBwd!End \/ \E t \in 0 .. ThreadNbr - 1 : InterfaceBwd!Step(t)
    BY <1>4 DEF Run, Barrier, Step, IsJob
  <2> QED
    BY <2>1, <2>2, InterfaceBwdGoesOn
<1>5. ASSUME IsJob("schur", "forward"), Run
      PROVE  SchurFwdP!JobInv'
  <2>1. SchurFwdP!JobInv
    BY <1>5 DEF SolveInv
  <2>2. SchurFwd!Start \/ SchurFwd!End \/ \E t \in 0 .. ThreadNbr - 1 : SchurFwd!Step(t)
    BY <1>5 DEF Run, Barrier, Step, IsJob
  <2> QED
    BY <2>1, <2>2, SchurFwdGoesOn
<1>6. ASSUME IsJob("schur", "backward"), Run
      PROVE  SchurBwdP!JobInv'
  <2>1. SchurBwdP!JobInv
    BY <1>6 DEF SolveInv
  <2>2. SchurBwd!Start \/ SchurBwd!End \/ \E t \in 0 .. ThreadNbr - 1 : SchurBwd!Step(t)
    BY <1>6 DEF Run, Barrier, Step, IsJob
  <2> QED
    BY <2>1, <2>2, SchurBwdGoesOn
<1>7. CASE Run
  <2>1. mode' = mode /\ step' = step
    BY <1>7 DEF Run
  <2> QED
    BY <1>7, <2>1, <1>1, <1>2, <1>3, <1>4, <1>5, <1>6 DEF SolveInv, IsJob
<1>8. CASE NextStep
  <2>1. mode' = mode /\ step = "forward" /\ step' = "backward"
    BY <1>8 DEF NextStep
  <2>2. ASSUME mode = "local" PROVE LocalBwdP!JobInv'
    BY <1>8, <2>1, <2>2, LocalFwdEnds DEF SolveInv, IsJob
  <2>3. ASSUME mode = "interface" PROVE InterfaceBwdP!JobInv'
    BY <1>8, <2>1, <2>3, InterfaceFwdEnds DEF SolveInv, IsJob
  <2>4. ASSUME mode = "schur" PROVE SchurBwdP!JobInv'
    BY <1>8, <2>1, <2>4, SchurFwdEnds DEF SolveInv, IsJob
  <2> QED
    BY <2>1, <2>2, <2>3, <2>4 DEF SolveInv, IsJob, SolveSteps
<1>9. CASE UNCHANGED vars
  <2>1. LocalFwdP!JobInv => LocalFwdP!JobInv'
    BY <1>9, LocalFwdGraph, LocalFwdP!JobStays DEF vars, loopVars, LocalFwdP!vars
  <2>2. LocalBwdP!JobInv => LocalBwdP!JobInv'
    BY <1>9, LocalBwdGraph, LocalBwdP!JobStays DEF vars, loopVars, LocalBwdP!vars
  <2>3. InterfaceFwdP!JobInv => InterfaceFwdP!JobInv'
    BY <1>9, InterfaceFwdGraph, InterfaceFwdP!JobStays DEF vars, loopVars, InterfaceFwdP!vars
  <2>4. InterfaceBwdP!JobInv => InterfaceBwdP!JobInv'
    BY <1>9, InterfaceBwdGraph, InterfaceBwdP!JobStays DEF vars, loopVars, InterfaceBwdP!vars
  <2>5. SchurFwdP!JobInv => SchurFwdP!JobInv'
    BY <1>9, SchurFwdGraph, SchurFwdP!JobStays DEF vars, loopVars, SchurFwdP!vars
  <2>6. SchurBwdP!JobInv => SchurBwdP!JobInv'
    BY <1>9, SchurBwdGraph, SchurBwdP!JobStays DEF vars, loopVars, SchurBwdP!vars
  <2> QED
    BY <1>9, <2>1, <2>2, <2>3, <2>4, <2>5, <2>6 DEF SolveInv, IsJob, vars
<1> QED
  BY <1>7, <1>8, <1>9 DEF Next, Finished

THEOREM SolveInvariant == SolveSpec => []SolveInv
BY SolveInvInit, SolveInvNext, PTL DEF SolveSpec

(* In both steps of thread_ztrsm_dynamic, in the three modes, a column     *)
(* block is computed once, after every contribution to it was applied      *)
(* once, whatever part of the Schur complement is dropped; and but for the *)
(* forward step in schur mode taskcnt covers all of it.                    *)
THEOREM ComputesInOrderAlways == SolveSpec => []ComputesInOrder
<1>1. SolveInv => ComputesInOrder
  BY LocalFwdSafe, LocalBwdSafe, InterfaceFwdSafe, InterfaceBwdSafe, SchurFwdSafe, SchurBwdSafe
     DEF SolveInv, ComputesInOrder
<1> QED
  BY <1>1, SolveInvariant, PTL

(* assert( computeQueue->used == 0 ) holds at the end of both steps (but   *)
(* for the forward step in schur mode), if there is something outside of   *)
(* the Schur complement: without it no thread looks at the queues.         *)
THEOREM QueuesEmptyAtExitAlways ==
    ASSUME CblkSchur > 0
    PROVE  SolveSpec => []QueuesEmptyAtExit
<1>1. SolveInv => QueuesEmptyAtExit
  BY LocalFwdSafe, LocalBwdSafe, InterfaceFwdSafe, InterfaceBwdSafe, SchurFwdSafe, SchurBwdSafe
     DEF SolveInv, QueuesEmptyAtExit, IsJob, SolveModes, SolveSteps
<1> QED
  BY <1>1, SolveInvariant, PTL
=============================================================================
