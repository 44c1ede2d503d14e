----------------------------- MODULE SolverGen -----------------------------
(***************************************************************************)
(* The solver matrix that each process makes of the symbolic structure and *)
(* of the mapping (solverMatrixGen, blend/solver_matrix_gen.c): its own    *)
(* column blocks, a fan-in for each column block of another process that   *)
(* it contributes to, and before each of its column blocks one reception   *)
(* for each process that contributes to it.  The processes do not talk to  *)
(* each other: each one finds what it will receive from the blocks that    *)
(* face its column blocks (solver_recv.c).                                 *)
(*                                                                         *)
(* The work is done twice: a first pass gives numbers to the column blocks *)
(* and to the blocks, a second one writes the tables, with those numbers.  *)
(* Intervals of rows and columns are pairs; they keep what lies between    *)
(* two contributions.  Numbers start at 0, the tables at 1.  Where the     *)
(* coefficients and the right-hand sides are stored is left out, and the   *)
(* fields that only serve the statistics or a runtime.                     *)
(***************************************************************************)
EXTENDS Integers, Sequences, FiniteSetsExt, SequencesExt

CONSTANTS
    CblkNbr,    \* symbmtx->cblknbr
    Blocks,     \* the blocks of each column block, the diagonal one first: their rows
    FCblkNm,    \* symbmtx->bloktab[].fcblknm, in the same way
    Owner,      \* simuctrl->bloktab[].ownerclust, the same for all its blocks
    Tasks2D     \* the column blocks that have the flag CBLK_TASKS_2D

Cblks == 0 .. CblkNbr - 1

(* is_symbblock_inside_fblock.                                             *)
Inside(a, b) == b[1] <= a[1] /\ a[2] <= b[2]

(* pastixSymbolBuildRowtab: the blocks that face a column block, in order, *)
(* each one the column block it belongs to and its place there.            *)
Brow(f) ==
    FlattenSeq([i \in 1 .. CblkNbr |->
        LET c == i - 1 IN
        SelectSeq([j \in 1 .. Len(Blocks[c]) |-> <<c, j>>],
                  LAMBDA x : x[2] > 1 /\ FCblkNm[c][x[2]] = f)])

(* solver_recv_cblk_init: a fan-in or a reception with nothing in it yet.  *)
Nothing(b) == <<b[2] + 1, b[1] - 1>>
RecvInit(f, owner) ==
    [ownerid |-> owner,
     cols    |-> Nothing(Blocks[f][1]),
     rows    |-> [j \in 1 .. Len(Blocks[f]) |-> Nothing(Blocks[f][j])]]

Extend(r, S) == <<Min({r[1]} \cup {b[1] : b \in S}), Max({r[2]} \cup {b[2] : b \in S})>>

(* Mutant: the rows start after the facing block.                          *)
AddContribBelow(r, c, i, f) ==
    [r EXCEPT !.cols = Extend(@, {Blocks[c][i]}),
              !.rows = [j \in DOMAIN @ |->
                  Extend(@[j], {b \in {Blocks[c][n] : n \in i + 1 .. Len(Blocks[c])} :
                                    Inside(b, Blocks[f][j])})]]

(* solver_recv_add_contrib: the columns are the rows of the i-th block of  *)
(* c, the rows those of this block and of the next ones.                   *)
AddContrib(r, c, i, f) ==
    [r EXCEPT !.cols = Extend(@, {Blocks[c][i]}),
              !.rows = [j \in DOMAIN @ |->
                  Extend(@[j], {b \in {Blocks[c][n] : n \in i .. Len(Blocks[c])} :
                                    Inside(b, Blocks[f][j])})]]

(* solver_recv_update_recv: one reception for each process, in the order   *)
(* of its first contribution.                                              *)
UpdateRecv(list, c, i, f, owner) ==
    LET here == {n \in 1 .. Len(list) : list[n].ownerid = owner} IN
    IF here = {} THEN Append(list, AddContrib(RecvInit(f, owner), c, i, f))
    ELSE [list EXCEPT ![Min(here)] = AddContrib(@, c, i, f)]

(* solver_recv_update_fanin: there is one fan-in, of the owner of f.       *)
UpdateFanin(list, c, i, f) ==
    IF list = <<>> THEN <<AddContrib(RecvInit(f, Owner[f]), c, i, f)>>
    ELSE [list EXCEPT ![1] = AddContrib(@, c, i, f)]

(* solver_recv_get_bloknbr: the blocks that got some rows.                 *)
Filled(r, f) ==
    {j \in 1 .. Len(r.rows) : r.rows[j][1] <= r.rows[j][2] /\ Inside(r.rows[j], Blocks[f][j])}
BlokNbr(r, f) == Cardinality(Filled(r, f))

(* First pass, a column block of the process p.                            *)
NumberLocal(p, s, c) ==
    LET remote == SelectSeq(Brow(c), LAMBDA x : Owner[x[1]] # p)
        recvs  == FoldLeft(LAMBDA list, x : UpdateRecv(list, x[1], x[2], c, Owner[x[1]]),
                           s.ftgttab[c], remote)
        own    == s.bloknbr + FoldLeft(LAMBDA n, r : n + BlokNbr(r, c), 0, recvs)
        bloks  == Blocks[c]
    IN  [s EXCEPT
            !.ftgttab      = FoldLeft(
                LAMBDA tab, i : LET f == FCblkNm[c][i] IN
                    IF Owner[f] = p THEN tab ELSE [tab EXCEPT ![f] = UpdateFanin(@, c, i, f)],
                [@ EXCEPT ![c] = recvs], [i \in 1 .. Len(bloks) |-> i]),
            !.bloklocalnum = [@ EXCEPT ![c] = [j \in 1 .. Len(bloks) |-> own + j - 1]],
            !.bloknbr      = own + Len(bloks),
            !.cblklocalnum = [@ EXCEPT ![c] = s.cblknbr + Len(recvs)],
            !.cblknbr      = @ + Len(recvs) + 1,
            !.brownbr      = @ + Len(Brow(c)) - Len(remote) + Len(recvs),
            !.recvnbr      = @ + Len(recvs)]

(* A fan-in.                                                               *)
NumberFanin(p, s, c) ==
    LET filled == Filled(s.ftgttab[c][1], c)
        local  == SelectSeq(Brow(c), LAMBDA x : Owner[x[1]] = p)
    IN  [s EXCEPT
            !.bloklocalnum = [@ EXCEPT ![c] = [j \in 1 .. Len(Blocks[c]) |->
                IF j \in filled THEN s.bloknbr + Cardinality({k \in filled : k < j}) ELSE -1]],
            !.bloknbr      = @ + Cardinality(filled),
            !.cblklocalnum = [@ EXCEPT ![c] = s.cblknbr],
            !.cblknbr      = @ + 1,
            !.brownbr      = @ + Len(local),
            !.faninnbr     = @ + 1]

(* solvMatGen_fill_localnums.                                              *)
LocalNums(p) ==
    FoldLeft(
        LAMBDA s, c : IF Owner[c] = p THEN NumberLocal(p, s, c)
                      ELSE IF s.ftgttab[c] # <<>> THEN NumberFanin(p, s, c)
                      ELSE [s EXCEPT !.cblklocalnum = [@ EXCEPT ![c] = - c - 1]],
        [ftgttab      |-> [c \in Cblks |-> <<>>],
         cblklocalnum |-> [c \in Cblks |-> -1],
         bloklocalnum |-> [c \in Cblks |-> [j \in 1 .. Len(Blocks[c]) |-> -1]],
         cblknbr |-> 0, bloknbr |-> 0, brownbr |-> 0, recvnbr |-> 0, faninnbr |-> 0],
        [i \in 1 .. CblkNbr |-> i - 1])

-----------------------------------------------------------------------------
(* solvMatGen_init_cblk and solvMatGen_init_blok: kind is "local", "fanin" *)
(* (CBLK_FANIN) or "recv" (CBLK_RECV).                                     *)
Cblk(m, kind, c, cols, owner) ==
    [kind |-> kind, gcblknum |-> c, cols |-> cols, ownerid |-> owner,
     fblok |-> Len(m.bloktab), brownum |-> Len(m.browtab), brown2d |-> Len(m.browtab)]
Blok(m, fcblknm, rows, gbloknm) ==
    [lcblknm |-> Len(m.cblktab), fcblknm |-> fcblknm, rows |-> rows,
     gbloknm |-> gbloknm, browind |-> -1]

(* solvMatGen_register_local_cblk.                                         *)
RegisterLocal(p, s, m, c) ==
    [m EXCEPT !.cblktab = Append(@, Cblk(m, "local", c, Blocks[c][1], p)),
              !.bloktab = @ \o [j \in 1 .. Len(Blocks[c]) |->
                  Blok(m, s.cblklocalnum[FCblkNm[c][j]], Blocks[c][j], <<c, j>>)]]

(* solvMatGen_register_remote_cblk: the blocks without rows are dropped;   *)
(* the diagonal block of a reception faces its column block.               *)
RegisterRemote(s, m, c, r, kind) ==
    LET kept == SelectSeq([j \in 1 .. Len(r.rows) |-> j],
                          LAMBDA j : r.rows[j][2] - r.rows[j][1] + 1 >= 1)
    IN  [m EXCEPT !.cblktab = Append(@, Cblk(m, kind, c, r.cols, r.ownerid)),
                  !.bloktab = @ \o [k \in 1 .. Len(kept) |->
                      Blok(m, IF k = 1 /\ kind = "recv" THEN s.cblklocalnum[c] ELSE -1,
                           r.rows[kept[k]], <<c, kept[k]>>)]]

(* A block enters browtab.                                                 *)
Face(m, b) ==
    [m EXCEPT !.bloktab = [@ EXCEPT ![b + 1].browind = Len(m.browtab)],
              !.browtab = Append(@, b)]

(* solvMatGen_reorder_browtab: of the blocks that face c, those of the     *)
(* column blocks of this process, first those without 2D tasks.            *)
ReorderBrowtab(s, m, c) ==
    LET local == SelectSeq(Brow(c), LAMBDA x :
                     s.cblklocalnum[x[1]] >= 0
                     /\ m.cblktab[s.cblklocalnum[x[1]] + 1].kind # "fanin")
        in1d  == SelectSeq(local, LAMBDA x : x[1] \notin Tasks2D)
        in2d  == SelectSeq(local, LAMBDA x : x[1] \in Tasks2D)
        m1d   == FoldLeft(LAMBDA n, x : Face(n, s.bloklocalnum[x[1]][x[2]]), m, in1d)
        last  == Len(m.cblktab)
    IN  FoldLeft(LAMBDA n, x : Face(n, s.bloklocalnum[x[1]][x[2]]),
                 [m1d EXCEPT !.cblktab[last].brown2d = Len(m1d.browtab)], in2d)

(* The diagonal blocks of the last receptions, at the end of browtab.      *)
FaceRecvs(m, recvcnt) ==
    FoldLeft(LAMBDA n, k : Face(n, m.cblktab[k].fblok), m,
             [k \in 1 .. recvcnt |-> Len(m.cblktab) - 1 - recvcnt + k])

(* The second pass, for one column block of the matrix.                    *)
Register(p, s, m, c) ==
    LET ftgt == s.ftgttab[c] IN
    IF Owner[c] = p THEN
        LET recvs == FoldLeft(LAMBDA n, r : RegisterRemote(s, n, c, r, "recv"), m, ftgt)
            local == RegisterLocal(p, s, recvs, c)
        IN  FaceRecvs(ReorderBrowtab(s, local, c), Len(ftgt))
    ELSE IF ftgt # <<>> THEN
        ReorderBrowtab(s, RegisterRemote(s, m, c, ftgt[1], "fanin"), c)
    ELSE m

(* solverMatrixGen: what the process p stores.                             *)
SolverMatrixGen(p) ==
    LET s == LocalNums(p) IN
    FoldLeft(LAMBDA m, c : Register(p, s, m, c),
             [cblktab |-> <<>>, bloktab |-> <<>>, browtab |-> <<>>, nums |-> s],
             [i \in 1 .. CblkNbr |-> i - 1])
=============================================================================
