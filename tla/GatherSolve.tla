---------------------------- MODULE GatherSolve -----------------------------
(***************************************************************************)
(* The two triangular solves on several processes after a factorization by *)
(* StarPU or PaRSEC: runtime_ztrsm (sopalin/sequential_ztrsm.c).  Each     *)
(* process has the whole cblktab, in the order of the matrix, but the      *)
(* coefficients of its own column blocks only (solvglob).  In each step    *)
(* process 0 gathers the coefficients (coeftab_gather), solves everything, *)
(* frees what it gathered, and an MPI_Allreduce gives the vector to all.   *)
(*                                                                         *)
(* The permuted vector has one entry per column block: the right-hand side *)
(* "b", "y" after the forward step and the solution "x" of a column block. *)
(***************************************************************************)
EXTENDS SeqSolve

VARIABLES
    coef,       \* the column blocks whose lcoeftab a process has
    pb          \* rhsb->b, the permuted vector of each process

Root == 0
Owned(p) == {c \in Cblks : Own[c] = p}

Junk == <<"junk", 0>>
Zero == <<"zero", 0>>

(* What the diagonal block of a column block makes of its entry.           *)
SolvedEntry(s, c, v) ==
    CASE s = "forward"  /\ v = <<"b", c>> -> <<"y", c>>
      [] s = "backward" /\ v = <<"y", c>> -> <<"x", c>>
      [] OTHER -> Junk

(* The entries of the column blocks that process p solves in this step.    *)
SolvesEntries(p) ==
    LET s == step[p]
    IN  pb' = [pb EXCEPT ![p] = [c \in Cblks |->
                  IF solved'[s][c] = solved[s][c] THEN @[c] ELSE SolvedEntry(s, c, @[c])]]

-----------------------------------------------------------------------------
(* coeftab_gather: the column blocks in order, with their number as a tag. *)
Gathering(p) == pc[p] = "loop" /\ at[p] \in Cblks
NextGathered(p) == at' = [at EXCEPT ![p] = @ + 1]

GatherSend(p) ==
    /\ Gathering(p) /\ p # Root /\ Own[at[p]] = p
    /\ Sent(p, Root, at[p], {at[p]} \cap coef[p])
    /\ UNCHANGED <<faninb, coef, pb>>

GatherReturns(p) ==
    /\ pc[p] = "sending"
    /\ pc' = [pc EXCEPT ![p] = "loop"]
    /\ NextGathered(p)
    /\ UNCHANGED <<step, faninb, net, solved, got, coef, pb>>

GatherRecv(p) ==
    /\ Gathering(p) /\ p = Root /\ Own[at[p]] # p
    /\ Matches(p, Own[at[p]], at[p]) # {}
    /\ Receive(p, Own[at[p]], at[p])
    /\ coef' = [coef EXCEPT ![p] = @ \cup Received(p, Own[at[p]], at[p])]
    /\ NextGathered(p)
    /\ UNCHANGED <<pc, step, faninb, solved, got, pb>>

GatherSkip(p) ==
    /\ Gathering(p) /\ (p = Root <=> Own[at[p]] = p)
    /\ NextGathered(p)
    /\ UNCHANGED <<pc, step, faninb, net, solved, got, coef, pb>>

-----------------------------------------------------------------------------
(* The root starts with the first column block, or with the last one...    *)
StartRoot(p) ==
    /\ pc[p] = "loop" /\ at[p] \notin Cblks /\ p = Root
    /\ pc' = [pc EXCEPT ![p] = "root"]
    /\ at' = [at EXCEPT ![p] = IF step[p] = "forward" THEN 0 ELSE Max(Cblks)]
    /\ UNCHANGED <<step, faninb, net, solved, got, coef, pb>>

(* ...solves their diagonal blocks, with the coefficients it has...        *)
RootSolve(p) ==
    /\ pc[p] = "root" /\ at[p] \in coef[p]
    /\ solved' = [solved EXCEPT ![step[p]][at[p]] = @ + 1]
    /\ SolvesEntries(p)
    /\ pc' = [pc EXCEPT ![p] = "rootupdate"]
    /\ UNCHANGED <<step, at, faninb, net, got, coef>>

(* ...then updates those they face, or those that face them.               *)
RootUpdate(p) ==
    /\ pc[p] = "rootupdate"
    /\ AddTo(step[p], IF step[p] = "forward" THEN OutOf(at[p])
                      ELSE {e \in Edges : Dst[e] = at[p]})
    /\ pc' = [pc EXCEPT ![p] = "root"]
    /\ Advance(p)
    /\ UNCHANGED <<step, faninb, net, solved, coef, pb>>

(* coeftab_nullify.                                                        *)
RootEnds(p) ==
    /\ pc[p] = "root" /\ at[p] \notin Cblks
    /\ coef' = [coef EXCEPT ![p] = Owned(p)]
    /\ pc' = [pc EXCEPT ![p] = "reduce"]
    /\ UNCHANGED <<step, at, faninb, net, solved, got, pb>>

(* Mutant: the vector is not reset before the sum.                         *)
OthersWaitOnly(p) ==
    /\ pc[p] = "loop" /\ at[p] \notin Cblks /\ p # Root
    /\ pc' = [pc EXCEPT ![p] = "reduce"]
    /\ UNCHANGED <<step, at, faninb, net, solved, got, coef, pb>>

(* The other processes have nothing to add to the vector of the root.      *)
OthersWait(p) ==
    /\ pc[p] = "loop" /\ at[p] \notin Cblks /\ p # Root
    /\ pb' = [pb EXCEPT ![p] = [c \in Cblks |-> Zero]]
    /\ pc' = [pc EXCEPT ![p] = "reduce"]
    /\ UNCHANGED <<step, at, faninb, net, solved, got, coef>>

(* bvec_zallreduce: the sum of the vectors, for everybody.                 *)
SumOf(c) ==
    LET nonzero == {p \in Procs : pb[p][c] # Zero}
    IN  IF nonzero = {} THEN Zero
        ELSE IF Cardinality(nonzero) > 1 THEN Junk
        ELSE pb[CHOOSE p \in nonzero : TRUE][c]

AllReduce ==
    /\ \A p \in Procs : pc[p] = "reduce"
    /\ pb' = [p \in Procs |-> [c \in Cblks |-> SumOf(c)]]
    /\ pc' = [p \in Procs |-> "barrier"]
    /\ UNCHANGED <<step, at, faninb, net, solved, got, coef>>

(* runtime_ztrsm, except what the library does.                            *)
RunGather(p) ==
    \/ GatherSend(p) \/ GatherRecv(p) \/ GatherSkip(p) \/ StartRoot(p) \/ RootSolve(p)
    \/ RootUpdate(p) \/ RootEnds(p) \/ OthersWait(p)
    \/ NextStep(p, 0) /\ UNCHANGED <<coef, pb>>
=============================================================================
