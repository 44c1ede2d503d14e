------------------------------ MODULE PropMap ------------------------------
(***************************************************************************)
(* The proportional mapping of the analysis (blend/propmap.c): which cores *)
(* are candidates to compute each column block.  It goes down the          *)
(* elimination tree and shares the cores of a node among its sons, in      *)
(* proportion to the cost of their subtrees; a core may take part in two   *)
(* branches.                                                               *)
(*                                                                         *)
(* Costs and shares are integers: their quotients are rounded as those of  *)
(* doubles are, coarsely.  The option nocrossproc, that blendCtrlInit      *)
(* always clears, is left out.  Sons of the same cost and cores with the   *)
(* same share left come in the order of their numbers; the heaps of the    *)
(* code keep no order among them.                                          *)
(***************************************************************************)
EXTENDS Integers, Sequences, FiniteSetsExt, SequencesExt, TLC

CONSTANTS
    CblkNbr,    \* symbptr->cblknbr
    CoreNbr     \* ctrl->total_nbcores, on all the processes

Cblks == 0 .. CblkNbr - 1
Root  == -1

(* eTreeBuild: the father of a column block is the first one it faces.     *)
Father(symb, c) == IF symb[c] = {} THEN Root ELSE Min(symb[c])

SonsOf(symb) == [n \in Cblks \cup {Root} |-> {c \in Cblks : Father(symb, c) = n}]

(* ndecost and subcost of candSubTreeBuild.                                *)
NodeCost(cost) == [n \in Cblks \cup {Root} |-> IF n = Root THEN 0 ELSE cost[n]]
SubCost(sons, nde) ==
    LET sub[n \in Cblks \cup {Root}] == nde[n] + MapThenSumSet(LAMBDA s : sub[s], sons[n])
    IN  sub

ETree(symb, cost) ==
    LET sons == SonsOf(symb)
        nde  == NodeCost(cost)
    IN  [sons |-> sons, nde |-> nde, sub |-> SubCost(sons, nde)]

(* The sons of a node, the most expensive subtree first.                   *)
Sons(t, n) ==
    SetToSortSeq(t.sons[n],
        LAMBDA a, b : \/ t.sub[a] > t.sub[b]
                      \/ t.sub[a] = t.sub[b] /\ t.nde[a] > t.nde[b]
                      \/ t.sub[a] = t.sub[b] /\ t.nde[a] = t.nde[b] /\ a < b)

Share(remain, f, l) == MapThenSumSet(LAMBDA p : remain[p], f .. l)

RECURSIVE OnOne(_, _, _)
RECURSIVE MapSubtree(_, _, _, _, _)
RECURSIVE MapSons(_, _, _, _, _, _, _)
RECURSIVE MapSingles(_, _, _, _, _)

(* propMappSubtreeOn1P: the same candidates for the whole subtree.         *)
OnOne(t, n, cand) ==
    FoldSet(LAMBDA s, m : OnOne(t, s, cand) @@ m, n :> cand, t.sons[n])

(* Mutant: the cores are not counted from the first candidate of the node. *)
MapSinglesUnshifted(t, first, sons, last, remain) ==
    IF sons = <<>> THEN <<>>
    ELSE LET s == Head(sons)
             p == CHOOSE p \in 0 .. last : \A q \in 0 .. last :
                      remain[p] > remain[q] \/ (remain[p] = remain[q] /\ p <= q)
         IN  OnOne(t, s, <<p, p>>)
                @@ MapSingles(t, first, Tail(sons), last, [remain EXCEPT ![p] = @ - t.sub[s]])

(* The second stage: the largest of the subtrees that are left goes to the *)
(* core with the most time left.                                           *)
MapSingles(t, first, sons, last, remain) ==
    IF sons = <<>> THEN <<>>
    ELSE LET s == Head(sons)
             p == CHOOSE p \in 0 .. last : \A q \in 0 .. last :
                      remain[p] > remain[q] \/ (remain[p] = remain[q] /\ p <= q)
         IN  OnOne(t, s, <<first + p, first + p>>)
                @@ MapSingles(t, first, Tail(sons), last, [remain EXCEPT ![p] = @ - t.sub[s]])

(* The first stage: a subtree that is more than the first core can do is   *)
(* given to as many of the next ones as it takes.                          *)
MapSons(t, first, sons, f, last, remain, epsilon) ==
    IF sons = <<>> THEN <<>>
    ELSE LET s == Head(sons) IN
         IF t.sub[s] <= remain[f]
         THEN OnOne(t, s, <<first + f, first + f>>)
                @@ MapSingles(t, first, Tail(sons), last, [remain EXCEPT ![f] = @ - t.sub[s]])
         ELSE LET fcand == IF f < last /\ remain[f] <= epsilon THEN f + 1 ELSE f
                  lcand == Min({l \in fcand .. last :
                                   l = last \/ t.sub[s] - Share(remain, fcand, l) <= epsilon})
                  short == t.sub[s] - Share(remain, fcand, lcand)
                  extra == short \div (lcand - fcand + 1)
                  given == [p \in 0 .. lcand - fcand |->
                               CASE short > 0            -> remain[fcand + p] + extra
                                 [] short <= 0 /\ p < lcand - fcand -> remain[fcand + p]
                                 [] OTHER                -> remain[lcand] + short]
                  left  == [p \in DOMAIN remain |->
                               CASE p \notin fcand .. lcand  -> remain[p]
                                 [] short > 0 /\ p \in fcand .. lcand -> - extra
                                 [] short <= 0 /\ p = lcand  -> - short
                                 [] OTHER                    -> 0]
                  next  == IF lcand < last /\ left[lcand] < epsilon THEN lcand + 1 ELSE lcand
              IN  MapSubtree(t, s, first + fcand, first + lcand, given)
                     @@ MapSons(t, first, Tail(sons), next, last, left, epsilon)

(* propMappSubtree: the cores first .. end are candidates to the node n;   *)
(* given is the time each has for its subtree.  The first and the last one *)
(* leave the sons to the others if the node takes all their time.          *)
MapSubtree(t, n, first, end, given) ==
    IF first = end THEN OnOne(t, n, <<first, end>>)
    ELSE IF t.sons[n] = {} THEN n :> <<first, end>>
    ELSE LET nbr    == end - first + 1
             left   == [p \in 0 .. nbr - 1 |-> given[p] - t.nde[n] \div nbr]
             f      == IF left[0] <= 0 THEN 1 ELSE 0
             last   == IF left[nbr - 1] <= 0 THEN nbr - 2 ELSE nbr - 1
             below  == t.sub[n] - t.nde[n]
             sum    == Share(left, f, last)
             remain == [p \in 0 .. nbr - 1 |->
                           IF p \in f .. last /\ sum < below THEN (left[p] * below) \div sum ELSE left[p]]
         IN  n :> <<first, end>>
                @@ MapSons(t, first, Sons(t, n), f, last, remain, sum \div (10 * (last + 1)))

(* propMappTree: the candidates of every column block.                     *)
PropMapTree(symb, cost, allcand) ==
    LET t   == ETree(symb, cost)
        map == IF allcand THEN OnOne(t, Root, <<0, CoreNbr - 1>>)
               ELSE MapSubtree(t, Root, 0, CoreNbr - 1,
                               [p \in 0 .. CoreNbr - 1 |-> t.sub[Root] \div CoreNbr])
    IN  [c \in Cblks |-> map[c]]
=============================================================================
