--------------------------- MODULE DistStructure ---------------------------
(***************************************************************************)
(* The structure of a matrix distributed over several MPI processes, as    *)
(* SolverMatrix describes it (blend/solver.h): the column blocks and their *)
(* owners, the blocks outside the diagonal, and the two kinds of remote    *)
(* column blocks.  A process sums up its contributions to a column block   *)
(* of another process in a fan-in (CBLK_FANIN); for the owner it is a      *)
(* reception (CBLK_RECV).  Both are named by the process that contributes  *)
(* and the column block.                                                   *)
(***************************************************************************)
EXTENDS Integers, Sequences, FiniteSets, SequencesExt, FiniteSetsExt

CONSTANTS
    Procs,      \* the MPI processes: clustnum
    ThreadNbr,  \* the number of threads of each process
    Cblks,      \* the column blocks of the whole matrix: gcblknum
    Own,        \* the process that owns each column block
    Edges,      \* the blocks; those of a column block in increasing order
    Src, Dst,   \* the column block they belong to and the one they face
    Order       \* ttsktab: the column blocks each thread computes, in order

ASSUME StructureAssumption ==
    /\ Procs \subseteq Nat /\ IsFiniteSet(Procs) /\ ThreadNbr \in [Procs -> Nat \ {0}]
    /\ Cblks \subseteq Nat /\ IsFiniteSet(Cblks) /\ Own \in [Cblks -> Procs]
    /\ Edges \subseteq Int /\ IsFiniteSet(Edges)
    /\ Src \in [Edges -> Cblks] /\ Dst \in [Edges -> Cblks]
    /\ \A e \in Edges : Src[e] < Dst[e]

(* A thread: its process and its rank.                                     *)
ThreadsOf(p) == {p} \X (0 .. ThreadNbr[p] - 1)
Threads == UNION {ThreadsOf(p) : p \in Procs}
ProcOf(t) == t[1]

(* Every column block is in the list of one thread, of its owner, once.    *)
ASSUME OrderAssumption ==
    /\ Order \in [Threads -> Seq(Cblks)]
    /\ \A c \in Cblks : \E t \in Threads : ProcOf(t) = Own[c] /\ Contains(Order[t], c)
    /\ \A t \in Threads : \A i \in 1 .. Len(Order[t]) :
          /\ ProcOf(t) = Own[Order[t][i]]
          /\ \A j \in 1 .. Len(Order[t]) : Order[t][i] = Order[t][j] => i = j
    /\ \A t, u \in Threads : t # u => Range(Order[t]) \cap Range(Order[u]) = {}

(* The blocks of a column block outside its diagonal.                      *)
OutOf(c) == {e \in Edges : Src[e] = c}

(* The blocks of a process that face a column block.                       *)
ProcEdges(p, c) == {e \in Edges : Own[Src[e]] = p /\ Dst[e] = c}

FanIns == {x \in Procs \X Cblks : Own[x[2]] # x[1] /\ ProcEdges(x[1], x[2]) # {}}
FanInsOf(p) == {x \in FanIns : x[1] = p}
RecvsOf(p)  == {x \in FanIns : Own[x[2]] = p}
RecvsTo(c)  == {x \in FanIns : x[2] = c}

(* solvmtx->faninnbr and solvmtx->recvnbr.                                 *)
FaninNbr(p) == Cardinality(FanInsOf(p))
RecvNbr(p)  == Cardinality(RecvsOf(p))

(* The column blocks as the processes compute them: their own and their    *)
(* fan-ins.                                                                *)
Local == {<<Own[c], c>> : c \in Cblks} \cup FanIns

(* cblktab of a process.                                                   *)
TabOf(p) == {x \in Local : x[1] = p} \cup RecvsOf(p)

(* solver_recv_update_recv: the receptions for a column block come in the  *)
(* order of the first block that faces it.                                 *)
FirstSrc(x) == Min({Src[e] : e \in ProcEdges(x[1], x[2])})

(* Mutants: the receptions come after their column block; or first.        *)
BeforeRecvLast(p, x, y) ==
    \/ x[2] < y[2]
    \/ x[2] = y[2] /\ x # y /\ (x[1] = p \/ (y[1] # p /\ FirstSrc(x) < FirstSrc(y)))
BeforeRecvFirst(p, x, y) ==
    \/ x[1] # p /\ y[1] = p
    \/ (x[1] = p <=> y[1] = p) /\ (x[2] < y[2] \/ (x[2] = y[2] /\ x # y /\ FirstSrc(x) < FirstSrc(y)))

(* Its column blocks and fan-ins are in the order of the matrix; the       *)
(* receptions come just before their column block.                         *)
Before(p, x, y) ==
    \/ x[2] < y[2]
    \/ x[2] = y[2] /\ x # y /\ (y[1] = p \/ (x[1] # p /\ FirstSrc(x) < FirstSrc(y)))
CblkNum(p, x) == Cardinality({y \in TabOf(p) : Before(p, y, x)})
SolvCblkNbr(p) == Cardinality(TabOf(p))

(* brownum: the blocks that face a column block, with one for each         *)
(* reception; a fan-in is faced by the blocks of its process.              *)
BrowNbr(x) ==
    Cardinality(ProcEdges(x[1], x[2])) + IF x \in FanIns THEN 0 ELSE Cardinality(RecvsTo(x[2]))
=============================================================================
