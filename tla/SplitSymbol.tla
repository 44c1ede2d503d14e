---------------------------- MODULE SplitSymbol -----------------------------
(***************************************************************************)
(* The splitting of the supernodes into column blocks, before the mapping: *)
(* splitSymbol (blend/splitsymbol.c) chooses where to cut those that are   *)
(* too wide, and extraCblkMerge (blend/extracblk.c) writes the symbolic    *)
(* matrix of the pieces.                                                   *)
(*                                                                         *)
(* A symbolic matrix is a record of two functions: "blocks" gives each     *)
(* column block the rows of its blocks, first and last, the diagonal block *)
(* first, and "fcblknm" the column block that each one faces; kway is the  *)
(* set of those made by the k-way partition of a separator.                *)
(***************************************************************************)
EXTENDS Integers, Sequences, FiniteSets, FiniteSetsExt, SequencesExt

CONSTANTS
    BlColMin,   \* ctrl->blcolmin: the least width of a piece
    BlColMax,   \* ctrl->blcolmax: the width above which to split
    Percent     \* PASTIX_BLEND_SPLIT_AUTORIZED_PERCENTAGE

(* blcolmin <= blcolmax is asserted in blendCtrlInit, step > 1 in the      *)
(* functions that choose the cuts.                                         *)
ASSUME WidthAssumption ==
    /\ BlColMin \in Nat \ {0} /\ BlColMax \in Nat \ {0, 1} /\ Percent \in Nat
    /\ BlColMin <= BlColMax

(* The three strategies, PASTIX_BLEND_SPLIT.                               *)
Strategies == {"smallest", "upper", "constant"}

Ceil(a, b) == (a + b - 1) \div b
Larger(a, b)  == IF a < b THEN b ELSE a
Smaller(a, b) == IF a < b THEN a ELSE b

Lines(a, b)   == [k \in 1 .. Larger(0, b - a + 1) |-> a + k - 1]

CblksOf(s)    == DOMAIN s.blocks
BlokSet(s, c) == 1 .. Len(s.blocks[c])

(* computeNbSplit: in how many pieces.                                     *)
NbSplit(width) ==
    LET nseq == Ceil(width, BlColMax) IN
    IF width <= BlColMax THEN 1
    ELSE IF width \div nseq < BlColMin THEN nseq - 1
    ELSE nseq

(* computeNbBlocksPerLine, and its update after each supernode: the blocks *)
(* that a cut after this line would cut, those of the supernodes already   *)
(* in cuts once for each of their pieces.                                  *)
BlocksPerLine(s, cuts, line) ==
    LET over == {x \in UNION {{c} \X BlokSet(s, c) : c \in CblksOf(s)} :
                    s.blocks[x[1]][x[2]][1] <= line /\ line < s.blocks[x[1]][x[2]][2]}
    IN  MapThenSumSet(LAMBDA x : IF x[2] > 1 /\ x[1] \in DOMAIN cuts THEN Len(cuts[x[1]]) ELSE 1,
                      over)

(* computeSmallestSplit: the line after which the fewest blocks are cut,   *)
(* of those around the middle, looked for after it, then before it;        *)
(* computeSmallestSplit_max: the last of the best; computeConstantSplit.   *)
Cut(n, strategy, step, max) ==
    LET avg    == step - 1
        limit  == Ceil(step * Percent, 100)
        up     == Smaller(avg + limit + 1, max)
        low    == Larger(avg - limit - 1, BlColMin)
        lowmax == Larger(avg - limit, BlColMin)
    IN  CASE step >= max -> max - 1
          [] step < max /\ strategy = "constant" -> avg
          [] step < max /\ strategy = "upper" ->
                FoldLeft(LAMBDA l, i : IF n[i] <= n[l] THEN i ELSE l,
                         lowmax, Lines(lowmax, up - 1))
          [] OTHER ->
                FoldLeft(LAMBDA l, i : IF n[i] < n[l] THEN i ELSE l, avg,
                         Lines(avg + 1, up - 1) \o Reverse(Lines(low + 1, avg - 1)))

(* The columns of the pieces of a supernode, one after the other.          *)
Pieces(s, cuts, strategy, c) ==
    LET diag == s.blocks[c][1]
        from[f \in diag[1] .. diag[2]] ==
            LET width == diag[2] - f + 1
                n     == [i \in 0 .. width - 1 |-> BlocksPerLine(s, cuts, f + i)]
                l     == f + Cut(n, strategy, Ceil(width, NbSplit(width)), width - BlColMin)
            IN  IF NbSplit(width) = 1 THEN << <<f, diag[2]>> >>
                ELSE << <<f, l>> >> \o from[l + 1]
    IN  IF c \in s.kway THEN <<diag>> ELSE from[diag[1]]

(* splitSmart: extracblk->sptcbnb and cblktab, one supernode at a time.    *)
SplitSmart(s, strategy) ==
    FoldLeft(LAMBDA cuts, c : cuts @@ c :> Pieces(s, cuts, strategy, c),
             <<>>, [i \in 1 .. Cardinality(CblksOf(s)) |-> i - 1])

-----------------------------------------------------------------------------
(* newnum: the number of the first piece of a supernode.                   *)
NewNum(cuts, c) == MapThenSumSet(LAMBDA d : Len(cuts[d]), {d \in DOMAIN cuts : d < c})

(* Mutant: a block that goes on over the next piece starts again.          *)
FacingFromStart(cuts, f, b) ==
    LET hit == SelectSeq([k \in 1 .. Len(cuts[f]) |-> k],
                         LAMBDA k : b[1] <= cuts[f][k][2] /\ cuts[f][k][1] <= b[2])
    IN  [i \in 1 .. Len(hit) |->
            [rows  |-> <<b[1], Smaller(b[2], cuts[f][hit[i]][2])>>,
             faces |-> NewNum(cuts, f) + hit[i] - 1]]

(* The blocks made of the rows b, which face the supernode f: one for each *)
(* of its pieces that they face.                                           *)
Facing(cuts, f, b) ==
    LET hit == SelectSeq([k \in 1 .. Len(cuts[f]) |-> k],
                         LAMBDA k : b[1] <= cuts[f][k][2] /\ cuts[f][k][1] <= b[2])
    IN  [i \in 1 .. Len(hit) |->
            [rows  |-> <<IF i = 1 THEN b[1] ELSE cuts[f][hit[i - 1]][2] + 1,
                         Smaller(b[2], cuts[f][hit[i]][2])>>,
             faces |-> NewNum(cuts, f) + hit[i] - 1]]

(* The blocks of the j-th piece of the supernode c: what is left of its    *)
(* diagonal block, then the others.                                        *)
PieceBlocks(s, cuts, c, j) ==
    [k \in 1 .. Len(cuts[c]) - j + 1 |->
        [rows |-> cuts[c][j + k - 1], faces |-> NewNum(cuts, c) + j + k - 2]] \o
    FlattenSeq([i \in 1 .. Len(s.blocks[c]) - 1 |->
        Facing(cuts, s.fcblknm[c][i + 1], s.blocks[c][i + 1])])

(* addblok: the blocks that are added, counted before bloktab is written.  *)
AddBlok(s, cuts) ==
    MapThenSumSet(
        LAMBDA x : LET n == Len(cuts[x[1]]) IN
            IF x[2] = 1 THEN (n * (n + 1)) \div 2 - 1
            ELSE n * Len(Facing(cuts, s.fcblknm[x[1]][x[2]], s.blocks[x[1]][x[2]])) - 1,
        UNION {{c} \X BlokSet(s, c) : c \in CblksOf(s)})

BlokNbr(s) == MapThenSumSet(LAMBDA c : Len(s.blocks[c]), CblksOf(s))

(* extraCblkMerge: the new matrix, and the size of its table of blocks.    *)
Merge(s, cuts) ==
    LET tab == FlattenSeq([i \in 1 .. Cardinality(CblksOf(s)) |->
                   [j \in 1 .. Len(cuts[i - 1]) |-> PieceBlocks(s, cuts, i - 1, j)]])
    IN  [blocks  |-> [n \in 0 .. Len(tab) - 1 |->
                        [k \in 1 .. Len(tab[n + 1]) |-> tab[n + 1][k].rows]],
         fcblknm |-> [n \in 0 .. Len(tab) - 1 |->
                        [k \in 1 .. Len(tab[n + 1]) |-> tab[n + 1][k].faces]],
         bloknbr |-> BlokNbr(s) + AddBlok(s, cuts)]

SplitSymbol(s, strategy) == Merge(s, SplitSmart(s, strategy))

(* pastixSymbolCheck (symbol/symbol_check.c).                              *)
SymbolCheck(s) ==
    \A c \in CblksOf(s) :
        /\ s.blocks[c][1][1] <= s.blocks[c][1][2] /\ s.fcblknm[c][1] = c
        /\ c + 1 \in CblksOf(s) => s.blocks[c + 1][1][1] = s.blocks[c][1][2] + 1
        /\ \A j \in BlokSet(s, c) \ {1} :
              /\ s.fcblknm[c][j] \in CblksOf(s)
              /\ s.blocks[c][j - 1][2] < s.blocks[c][j][1]
              /\ s.fcblknm[c][j - 1] <= s.fcblknm[c][j]
=============================================================================
