------------------------------ MODULE Analysis ------------------------------
(***************************************************************************)
(* pastix_subtask_blend: the supernodes are split (SplitSymbol), the       *)
(* simulation maps the column blocks (SimuRun), then each process          *)
(* generates its solver matrix (SolverGen).                                *)
(*                                                                         *)
(* The simulation only needs the column blocks that each one faces: several*)
(* blocks that face the same one count as one there, their contributions   *)
(* are taken off together.  The generation also reads the rows.  The model *)
(* begins with this structure, and says which matrix it is, of those that  *)
(* the splitting leaves, when it is read.                                  *)
(***************************************************************************)
EXTENDS SimuRun, SplitSymbol

CONSTANTS
    Supernodes,     \* the matrices that pastix_subtask_symbfact may leave
    Ratio2D         \* the least width of a column block with 2D tasks

(* The column blocks that each one faces: an element of Symbols.           *)
Structure(s) == [c \in CblksOf(s) |-> Range(Tail(s.fcblknm[c]))]

(* The splittings into CblkNbr column blocks, and their structures.        *)
Splittings ==
    {y \in {[old |-> o, new |-> SplitSymbol(o, g)] : o \in Supernodes, g \in Strategies} :
        CblksOf(y.new) = Cblks}
Structures == {Structure(y.new) : y \in Splittings}
SplittingsInto == [x \in Structures |-> {y \in Splittings : Structure(y.new) = x}]

(* The blocks outside the diagonal, numbered as in symbmtx->bloktab, the   *)
(* column block they belong to and the one they face (DistStructure).      *)
Numbered(s) ==
    LET first[c \in 0 .. CblkNbr] == IF c = 0 THEN 0 ELSE first[c - 1] + Len(s.blocks[c - 1])
        off    == UNION {first[c] + 1 .. first[c + 1] - 1 : c \in Cblks}
        src    == [e \in off |-> CHOOSE c \in Cblks : first[c] < e /\ e < first[c + 1]]
    IN  [src |-> src, dst |-> [e \in off |-> s.fcblknm[src[e]][e - first[src[e]] + 1]]]

VARIABLES
    owner,      \* simuctrl->bloktab[].ownerclust
    supernodes, \* symbmtx before the splitting
    symbmtx,    \* symbmtx after it
    faces,      \* its blocks outside the diagonal
    solvmtx     \* the solver matrix of each process

matrices == <<supernodes, symbmtx, faces>>
allvars  == <<simuVars, owner, matrices, solvmtx>>

AInit ==
    /\ SimuInit
    /\ owner = <<>> /\ solvmtx = <<>>
    /\ supernodes = <<>> /\ symbmtx = <<>> /\ faces = <<>>

Simulate == SimuNext /\ UNCHANGED <<owner, matrices, solvmtx>>

(* What the simulation leaves to the generation; its other results, and    *)
(* candtab, are not kept any further here.                                 *)
Mapping ==
    /\ phase = "done"
    /\ owner' = [c \in Cblks |-> Core2Clust(ownetab[c])]
    /\ phase' = "mapped"
    /\ candtab' = [c \in Cblks |-> <<0, 0>>]
    /\ ownetab' = [c \in Cblks |-> -1] /\ rank' = [c \in Cblks |-> 0]
    /\ prionum' = [c \in Cblks |-> -1] /\ clustprio' = [k \in Clusts |-> 0]
    /\ tasktab' = [p \in Cores |-> <<>>]
    /\ UNCHANGED <<symb, ctrbcnt, queue, matrices, solvmtx>>

(* candSubTreeDistribFirstWidth: the flag is lost at the first column      *)
(* block that is too narrow, going down the elimination tree.              *)
With2DTasks(s) ==
    LET wide[c \in Cblks] ==
            /\ s.blocks[c][1][2] - s.blocks[c][1][1] + 1 >= Ratio2D
            /\ symb[c] = {} \/ wide[CHOOSE f \in symb[c] : \A g \in symb[c] : f <= g]
    IN  {c \in Cblks : wide[c]}

G == INSTANCE SolverGen WITH
        Blocks <- symbmtx'.blocks, FCblkNm <- symbmtx'.fcblknm, Owner <- owner,
        Tasks2D <- With2DTasks(symbmtx')

Generate ==
    /\ phase = "mapped"
    /\ \E y \in SplittingsInto[symb] :
          supernodes' = y.old /\ symbmtx' = y.new /\ faces' = Numbered(y.new)
    /\ solvmtx' = [p \in Clusts |-> G!SolverMatrixGen(p)]
    /\ phase' = "generated"
    /\ UNCHANGED <<symb, candtab, ctrbcnt, queue, ownetab, tasktab, prionum, clustprio, rank, owner>>

Generated == phase = "generated" /\ UNCHANGED allvars

ANext == Simulate \/ Mapping \/ Generate \/ Generated

ASpec == AInit /\ [][ANext]_allvars

-----------------------------------------------------------------------------
Inside(a, b) == b[1] <= a[1] /\ a[2] <= b[2]

(* The coefficients of the lower triangle that a matrix stores.            *)
Entries(s) ==
    UNION {{x \in (b[1] .. b[2]) \X (s.blocks[c][1][1] .. s.blocks[c][1][2]) : x[1] >= x[2]} :
              <<c, b>> \in UNION {{c} \X Range(s.blocks[c]) : c \in CblksOf(s)}}

(* The splitting keeps the matrix: the pieces store the same coefficients, *)
(* each once; each block is within the column block it faces; there are as *)
(* many blocks as the table has room for; no piece is too narrow.          *)
SplitKeepsMatrix ==
    phase = "generated" =>
        /\ SymbolCheck(symbmtx)
        /\ Entries(symbmtx) = Entries(supernodes)
        /\ \A c \in Cblks : \A j \in BlokSet(symbmtx, c) :
              Inside(symbmtx.blocks[c][j], symbmtx.blocks[symbmtx.fcblknm[c][j]][1])
        /\ BlokNbr(symbmtx) = symbmtx.bloknbr
        /\ \A c \in Cblks :
              \/ symbmtx.blocks[c][1] \in {supernodes.blocks[d][1] : d \in CblksOf(supernodes)}
              \/ symbmtx.blocks[c][1][2] - symbmtx.blocks[c][1][1] + 1 >= BlColMin

-----------------------------------------------------------------------------
(* The structure of the matrix as the distributed modules take it.         *)
D == INSTANCE DistStructure WITH
        Procs <- Clusts, ThreadNbr <- [p \in Clusts |-> CoreNbr \div ClustNbr],
        Own <- owner, Edges <- DOMAIN faces.src, Src <- faces.src, Dst <- faces.dst,
        Order <- [t \in Clusts \X (0 .. CoreNbr \div ClustNbr - 1) |-> <<>>]

CblkSet(m) == 0 .. Len(m.cblktab) - 1
CblkOf(m, n) == m.cblktab[n + 1]
BloksOf(m, n) ==
    SubSeq(m.bloktab, CblkOf(m, n).fblok + 1,
           IF n + 1 = Len(m.cblktab) THEN Len(m.bloktab) ELSE CblkOf(m, n + 1).fblok)
BrowOf(m, n) ==
    SubSeq(m.browtab, CblkOf(m, n).brownum + 1,
           IF n + 1 = Len(m.cblktab) THEN Len(m.browtab) ELSE CblkOf(m, n + 1).brownum)

(* The numbers that the first pass gave are the places of the second.      *)
SameNumbers(m) ==
    /\ Len(m.cblktab) = m.nums.cblknbr /\ Len(m.bloktab) = m.nums.bloknbr
    /\ Len(m.browtab) = m.nums.brownbr
    /\ \A n \in CblkSet(m) :
          CblkOf(m, n).kind # "recv" => m.nums.cblklocalnum[CblkOf(m, n).gcblknum] = n
    /\ \A k \in 1 .. Len(m.bloktab) :
          LET b == m.bloktab[k] IN
          CblkOf(m, b.lcblknm).kind # "recv"
              => m.nums.bloklocalnum[b.gbloknm[1]][b.gbloknm[2]] = k - 1

(* Each column block is where the distributed modules take it to be, with  *)
(* as many contributions: those of the blocks that face it, each in the    *)
(* table once, the receptions last.                                        *)
AsStructure(p, m) ==
    /\ Len(m.cblktab) = D!SolvCblkNbr(p)
    /\ m.nums.faninnbr = D!FaninNbr(p) /\ m.nums.recvnbr = D!RecvNbr(p)
    /\ \A x \in D!TabOf(p) :
          LET n == D!CblkNum(p, x)
              c == CblkOf(m, n)
          IN  /\ c.gcblknum = x[2]
              /\ c.kind = CASE x[1] # p -> "recv" [] owner[x[2]] = p -> "local" [] OTHER -> "fanin"
              /\ c.kind = "recv" => c.ownerid = x[1]
              /\ Len(BrowOf(m, n)) = IF c.kind = "recv" THEN 0 ELSE D!BrowNbr(x)
    /\ \A n \in CblkSet(m) :
          LET brow == BrowOf(m, n)
              from == [j \in 1 .. Len(brow) |-> CblkOf(m, m.bloktab[brow[j] + 1].lcblknm)]
          IN  /\ Range(brow) = {b \in 0 .. Len(m.bloktab) - 1 :
                                    m.bloktab[b + 1].fcblknm = n /\ m.bloktab[b + 1].lcblknm # n}
              /\ \A i, j \in 1 .. Len(brow) : i < j =>
                    /\ from[i].kind = "recv" => from[j].kind = "recv"
                    /\ from[j].kind = "local" /\ from[i].gcblknum \in With2DTasks(symbmtx)
                          => from[j].gcblknum \in With2DTasks(symbmtx)

(* What one process sends is what the other one has room for.              *)
Message(m, n) ==
    [cols |-> CblkOf(m, n).cols,
     rows |-> [k \in 1 .. Len(BloksOf(m, n)) |->
                  <<BloksOf(m, n)[k].gbloknm, BloksOf(m, n)[k].rows>>]]
SameMessage(x) ==
    LET sender   == solvmtx[x[1]]
        receiver == solvmtx[owner[x[2]]]
    IN  Message(sender, D!CblkNum(x[1], x)) = Message(receiver, D!CblkNum(owner[x[2]], x))

(* Every update of a column block finds its place: the target has the      *)
(* columns, and a block with the rows.                                     *)
UpdatesFit(m) ==
    LET bloks == [n \in CblkSet(m) |-> BloksOf(m, n)] IN
    \A n \in CblkSet(m) : CblkOf(m, n).kind = "local" =>
        \A i \in 2 .. Len(bloks[n]) :
            LET f == bloks[n][i].fcblknm IN
            /\ n < f /\ f \in CblkSet(m) /\ CblkOf(m, f).kind # "recv"
            /\ Inside(bloks[n][i].rows, CblkOf(m, f).cols)
            /\ \A k \in i .. Len(bloks[n]) :
                  \E j \in 1 .. Len(bloks[f]) : Inside(bloks[n][k].rows, bloks[f][j].rows)

(* The solver matrices that the processes generate, each by itself and in  *)
(* two passes, agree with each other and with the structure that the       *)
(* factorization and the solves rely on (see solverCheck).                 *)
MatricesAgree ==
    phase = "generated" =>
        /\ \A p \in Clusts :
              SameNumbers(solvmtx[p]) /\ AsStructure(p, solvmtx[p]) /\ UpdatesFit(solvmtx[p])
        /\ \A x \in D!FanIns : SameMessage(x)
=============================================================================
