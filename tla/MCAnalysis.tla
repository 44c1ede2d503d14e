----------------------------- MODULE MCAnalysis -----------------------------
(***************************************************************************)
(* The analysis of matrices of one to four supernodes, which end up in     *)
(* four column blocks: all the structures of four column blocks, each      *)
(* mapped with all the costs of a small set, or with every core candidate  *)
(* to everything (IPARM_ALLCAND).                                          *)
(***************************************************************************)
EXTENDS Analysis

CONSTANT Costs

P == INSTANCE PropMap

(* Supernodes of the given widths, with some sets of rows below them: a    *)
(* supernode that another one faces has its rows that come after.          *)
SupernodesOf(widths, kway, some) ==
    LET nbr       == Len(widths)
        fcol[c \in 0 .. nbr] == IF c = 0 THEN 0 ELSE fcol[c - 1] + widths[c]
        colsOf(c) == fcol[c] .. fcol[c + 1] - 1
        after(S, c) == {x \in S : fcol[c + 1] <= x}
        rows == {r \in [0 .. nbr - 1 -> some] :
                    \A c \in 0 .. nbr - 1 :
                        /\ after(r[c], c) = r[c]
                        /\ \A f \in 0 .. nbr - 1 :
                              r[c] \cap colsOf(f) # {} => after(r[c], f) \subseteq r[f]}
        \* The blocks: neighbouring rows that face one supernode.
        faced(b) == {f \in 0 .. nbr - 1 : b[1] \in colsOf(f) /\ b[2] \in colsOf(f)}
        bloks(S) ==
            SetToSortSeq({b \in S \X S :
                             /\ b[1] <= b[2] /\ b[1] .. b[2] \subseteq S
                             /\ \E f \in faced(b) :
                                   {b[1] - 1, b[2] + 1} \cap S \cap colsOf(f) = {}},
                         LAMBDA a, b : a[1] < b[1])
        blocks(r) == [c \in 0 .. nbr - 1 |-> << <<fcol[c], fcol[c + 1] - 1>> >> \o bloks(r[c])]
    IN  {[blocks  |-> blocks(r), kway |-> kway,
          fcblknm |-> [c \in 0 .. nbr - 1 |-> [j \in 1 .. Len(blocks(r)[c]) |->
                          CHOOSE f \in faced(blocks(r)[c][j]) : TRUE]]] : r \in rows}

(* Four supernodes that are not split: 5 columns are less than two pieces. *)
(* Of the rows of the last one, two apart, or three.                       *)
Unsplit == {S \cup T : S \in SUBSET {1, 3}, T \in {{}, {4, 6}, {4, 5, 6}}}

(* Blocks over two or three of the pieces of the second one.               *)
Long == SUBSET {4, 5, 9, 10} \cup {4 .. 9, 3 .. 12}

(* The others: a wide one that is a part of a separator; 7 columns make    *)
(* pieces of 4 and 3; 8 make 4 and 4, or 5 and 3; 12 make three pieces.    *)
MCSupernodes ==
    SupernodesOf(<<1, 2, 1, 5>>, {}, Unsplit)
        \cup SupernodesOf(<<1, 8, 1, 2>>, {1}, SUBSET {2, 9, 11})
        \cup SupernodesOf(<<7, 8>>, {}, SUBSET {10, 11, 12, 14})
        \cup SupernodesOf(<<1, 2, 8>>, {}, SUBSET {1, 6, 7, 8})
        \cup SupernodesOf(<<1, 8, 2>>, {}, SUBSET {4, 5, 6, 10})
        \cup SupernodesOf(<<2, 8, 1>>, {}, SUBSET {5, 6, 7, 10})
        \cup SupernodesOf(<<8, 1, 2>>, {}, SUBSET {8, 9, 10})
        \cup SupernodesOf(<<1, 12>>, {}, Long)

(* In a table, which is computed once.                                     *)
CandidatesTab ==
    [s \in Structures |->
        {P!PropMapTree(s, cost, FALSE) : cost \in [Cblks -> Costs]}
            \cup {P!PropMapTree(s, [c \in Cblks |-> 1], TRUE)}]
MCCandidates(s) == CandidatesTab[s]
=============================================================================
