----------------------------- MODULE TaskSolve ------------------------------
(***************************************************************************)
(* pastix_task_solve (sopalin/pastix_task_solve.c) on several processes:   *)
(* the right-hand side is permuted, and goes from the processes that have  *)
(* its rows to the owners of the column blocks (bvec_zlapmr, forward); it  *)
(* is solved, by SeqSolve or by GatherSolve; the solution comes back.      *)
(*                                                                         *)
(* The vectors of the application are either distributed by rows, then     *)
(* sent between two processes, or replicated, then broadcast.  The         *)
(* messages of the permutations and of the solve share a communicator, and *)
(* PastixTagAmount, PastixTagIndexes and PastixTagValues are tags of       *)
(* column blocks too.  pastix_subtask_solve_adv starts and stops its timer *)
(* with an MPI_Barrier (common/timing.h), before and after the solve.      *)
(* These barriers are not there when the application calls the subtasks    *)
(* one by one, as example/schur.c does (pastix_subtask_applyorder, then    *)
(* pastix_subtask_trsm twice, then pastix_subtask_applyorder): a process   *)
(* then starts the solve as soon as it has its own entries.  Both ways are *)
(* modelled (byParts).                                                     *)
(*                                                                         *)
(* There is one unknown per column block, and one right-hand side (the sum *)
(* of the vectors after runtime_ztrsm covers one only).  The solve after a *)
(* runtime is modelled with replicated vectors: with distributed ones each *)
(* process announces all the columns of solvglob as its own, and col2cblk  *)
(* leaves them all to the last process.  Atomic steps: what a process does *)
(* between two calls of MPI that wait.                                     *)
(***************************************************************************)
EXTENDS GatherSolve

CONSTANTS
    Perm,       \* ordemesh->permtab
    Layouts     \* the rows of b that each process may have: spm->loc2glob

ASSUME PermAssumption ==
    Perm \in [Cblks -> Cblks] /\ \A i, j \in Cblks : Perm[i] = Perm[j] => i = j

(* A row is on one process, or all of them are everywhere.                 *)
ASSUME LayoutAssumption ==
    \A r \in Layouts :
        /\ r \in [Procs -> SUBSET Cblks]
        /\ \/ r = [p \in Procs |-> Cblks]
           \/ \A i \in Cblks : \E p \in Procs : \A q \in Procs : i \in r[q] <=> q = p

VARIABLES
    rows,       \* the rows of b that each process has
    runtime,    \* whether StarPU or PaRSEC did the factorization
    byParts,    \* whether the application calls the subtasks one by one
    stage,      \* where each process stands
    turn,       \* the loops over the processes: k or c
    nsends,     \* rhs_comm->data_comm[q].nsends of process p
    nrecvs,     \* rhs_comm->data_comm[q].nrecvs of process p
    b,          \* the vector of the application on each process
    colls,      \* MPI: the broadcasts in the order of their roots
    taken       \* how many of them each process took part in

solveState == <<vars, coef, pb>>
inputs     == <<rows, runtime, byParts>>
amounts    == <<nsends, nrecvs>>
bcasts     == <<colls, taken>>
taskVars == <<solveState, inputs, amounts, bcasts, stage, turn, b>>

Peritab    == Inverse(Perm, Cblks, Cblks)
Replicated == rows = [p \in Procs |-> Cblks]
ClustNbr   == Cardinality(Procs)

(* col2cblk: the column blocks whose entries a process has.                *)
Cols(p) == IF runtime THEN Cblks ELSE Owned(p)

TaskInit ==
    /\ Init
    /\ rows \in Layouts
    /\ runtime \in BOOLEAN /\ (runtime => Replicated)
    /\ byParts \in BOOLEAN
    /\ stage  = [p \in Procs |-> "start"]
    /\ turn   = [p \in Procs |-> 0]
    /\ nsends = [p \in Procs |-> [q \in Procs |-> 0]]
    /\ nrecvs = [p \in Procs |-> [q \in Procs |-> 0]]
    /\ b      = [p \in Procs |-> [i \in rows[p] |-> <<"b", Perm[i]>>]]
    /\ pb     = [p \in Procs |-> [c \in Cblks |-> Junk]]
    /\ coef   = [p \in Procs |-> Owned(p)]
    /\ colls  = <<>>
    /\ taken  = [p \in Procs |-> 0]

Goto(p, place, t) ==
    /\ stage' = [stage EXCEPT ![p] = place]
    /\ turn'  = [turn EXCEPT ![p] = t]

(* What comes after the forward permutation, and after the solve.          *)
Permuting  == {"start", "amounts", "forward", "counts"}
ToSolve    == IF byParts THEN "solve" ELSE "syncstart"
FromSolve  == IF byParts THEN "solved" ELSE "syncstop"

(* memcpy of the entries of f, a function from indexes to values.          *)
Copied(v, f) == [i \in DOMAIN v |-> IF i \in DOMAIN f THEN f[i] ELSE v[i]]

(* The indexes of f go from those of b to those of pb, or back.            *)
Permuted(f)  == [c \in {Perm[i] : i \in DOMAIN f} |-> f[Peritab[c]]]
Unpermuted(f) == [i \in {Peritab[c] : c \in DOMAIN f} |-> f[Perm[i]]]

-----------------------------------------------------------------------------
(* Distributed vectors.                                                    *)

PastixTagAmount  == 0
PastixTagIndexes == 1
PastixTagValues  == 2

(* b and pb, as a process sends them to another one, or to itself.         *)
RowsFor(p, q) == [i \in {r \in rows[p] : Own[Perm[r]] = q} |-> b[p][i]]
ColsFor(p, q) == [c \in {d \in Cols(p) : Peritab[d] \in rows[q]} |-> pb[p][c]]

(* bvec_exchange_amount_dst posts its receptions and its emissions...      *)
StartDst(p) ==
    /\ stage[p] = "start" /\ ~ Replicated
    /\ nsends' = [nsends EXCEPT ![p] = [q \in Procs |->
                    IF q = p THEN 0 ELSE Cardinality(DOMAIN RowsFor(p, q))]]
    /\ net' = [x \in Procs \X Procs |->
                IF x[1] # p \/ x[2] = p THEN net[x]
                ELSE Append(net[x], [tag |-> PastixTagAmount, data |-> nsends'[p][x[2]]])]
    /\ Goto(p, "amounts", 0)
    /\ UNCHANGED <<pc, step, at, faninb, solved, got, coef, pb, inputs, nrecvs, bcasts, b>>

(* The indexes and the values of f[q] follow, for each process q...        *)
WithData(n, p, f, count) ==
    [x \in Procs \X Procs |->
        IF x[1] # p \/ x[2] = p \/ count[x[2]] = 0 THEN n[x]
        ELSE n[x] \o << [tag |-> PastixTagIndexes, data |-> DOMAIN f[x[2]]],
                        [tag |-> PastixTagValues,  data |-> f[x[2]]] >>]

(* ...once the amounts are there; the process fills its part of pb and the *)
(* buffers, and bvec_zexchange_data_dst posts the emissions.               *)
FillForward(p) ==
    /\ stage[p] = "amounts"
    /\ \A q \in Procs \ {p} : Matches(p, q, PastixTagAmount) # {}
    /\ nrecvs' = [nrecvs EXCEPT ![p] = [q \in Procs |->
                    IF q = p THEN 0 ELSE Received(p, q, PastixTagAmount)]]
    /\ pb' = [pb EXCEPT ![p] = Copied(@, Permuted(RowsFor(p, p)))]
    /\ LET read == [x \in Procs \X Procs |->
                IF x[2] # p \/ x[1] = p THEN net[x]
                ELSE RemoveAt(net[x], Min(Matches(p, x[1], PastixTagAmount)))]
       IN  net' = WithData(read, p, [q \in Procs |-> RowsFor(p, q)], nsends[p])
    /\ Goto(p, "forward", 1)
    /\ UNCHANGED <<pc, step, at, faninb, solved, got, coef, inputs, nsends, bcasts, b>>

(* Mutant: the amounts of the forward permutation are used again.          *)
KeepAmounts(p) == UNCHANGED amounts

(* bvec_switch_amount_dst: what was sent comes back.                       *)
SwitchAmounts(p) ==
    /\ nsends' = [nsends EXCEPT ![p] = nrecvs[p]]
    /\ nrecvs' = [nrecvs EXCEPT ![p] = nsends[p]]

(* Backward, from pb to b: no amount is exchanged.                         *)
FillBackward(p) ==
    /\ stage[p] = "solved" /\ ~ Replicated
    /\ SwitchAmounts(p)
    /\ b' = [b EXCEPT ![p] = Copied([i \in DOMAIN @ |-> Zero], Unpermuted(ColsFor(p, p)))]
    /\ net' = WithData(net, p, [q \in Procs |-> ColsFor(p, q)], nsends'[p])
    /\ Goto(p, "backward", 1)
    /\ UNCHANGED <<pc, step, at, faninb, solved, got, coef, pb, inputs, bcasts>>

(* The process from which p receives next.                                 *)
Sender(p) == (p - turn[p] + ClustNbr) % ClustNbr
Exchanging(p) == stage[p] \in {"forward", "backward"}

(* The blocking receptions come in the order of the ring, and the entries  *)
(* received go to pb (bvec_glob2Ploc) or to b (bvec_Pglob2loc).            *)
RecvData(p) ==
    /\ Exchanging(p) /\ turn[p] < ClustNbr /\ nrecvs[p][Sender(p)] > 0
    /\ Matches(p, Sender(p), PastixTagIndexes) # {} /\ Matches(p, Sender(p), PastixTagValues) # {}
    /\ LET q == Sender(p)
           i == Min(Matches(p, q, PastixTagIndexes))
           v == Min(Matches(p, q, PastixTagValues))
           values == [k \in Received(p, q, PastixTagIndexes) |-> Received(p, q, PastixTagValues)[k]]
       IN  /\ net' = [net EXCEPT ![<<q, p>>] = RemoveAt(RemoveAt(@, Max({i, v})), Min({i, v}))]
           /\ IF stage[p] = "forward"
              THEN pb' = [pb EXCEPT ![p] = Copied(@, Permuted(values))] /\ UNCHANGED b
              ELSE b' = [b EXCEPT ![p] = Copied(@, Unpermuted(values))] /\ UNCHANGED pb
    /\ Goto(p, stage[p], turn[p] + 1)
    /\ UNCHANGED <<pc, step, at, faninb, solved, got, coef, inputs, amounts, bcasts>>

SkipRecv(p) ==
    /\ Exchanging(p) /\ turn[p] < ClustNbr /\ nrecvs[p][Sender(p)] = 0
    /\ Goto(p, stage[p], turn[p] + 1)
    /\ UNCHANGED <<solveState, inputs, amounts, bcasts, b>>

(* MPI_Waitall, for the emissions.                                         *)
Waitall(p) ==
    /\ Exchanging(p) /\ turn[p] = ClustNbr
    /\ Goto(p, IF stage[p] = "forward" THEN ToSolve ELSE "returned", 0)
    /\ UNCHANGED <<solveState, inputs, amounts, bcasts, b>>

-----------------------------------------------------------------------------
(* Replicated vectors.                                                     *)

(* bvec_zlapmr_rep_vec2bvec: everybody extracts its part...                *)
StartRep(p) ==
    /\ stage[p] = "start" /\ Replicated
    /\ pb' = [pb EXCEPT ![p] = [c \in Cblks |-> IF c \in Cols(p) THEN b[p][Peritab[c]] ELSE @[c]]]
    /\ nsends' = [nsends EXCEPT ![p][p] = Cardinality(Cols(p))]
    /\ Goto(p, "counts", 0)
    /\ UNCHANGED <<vars, coef, inputs, nrecvs, bcasts, b>>

(* MPI_Bcast: its root may return at once, the others have the data.       *)
IsRoot(p)  == turn[p] = p
Called(p)  == taken[p] > 0 /\ colls[taken[p]].root = p /\ colls[taken[p]].stage = stage[p]

Bcast(p, data) ==
    /\ IsRoot(p) /\ ~ Called(p) /\ taken[p] = Len(colls)
    /\ colls' = Append(colls, [root |-> p, stage |-> stage[p], data |-> data])
    /\ taken' = [taken EXCEPT ![p] = @ + 1]
    /\ UNCHANGED <<solveState, inputs, amounts, stage, turn, b>>

BcastReturns(p) ==
    /\ stage[p] \in {"counts", "bcasts"} /\ IsRoot(p) /\ Called(p)
    /\ Goto(p, stage[p], turn[p] + 1)
    /\ UNCHANGED <<solveState, inputs, amounts, bcasts, b>>

Joined(p) ==
    /\ turn[p] \in Procs \ {p} /\ taken[p] < Len(colls)
    /\ colls[taken[p] + 1].root = turn[p]
    /\ taken' = [taken EXCEPT ![p] = @ + 1]
    /\ Goto(p, stage[p], turn[p] + 1)
    /\ UNCHANGED colls
Heard(p) == colls[taken[p] + 1].data

(* ...and bvec_exchange_amount_rep tells how large it is.                  *)
BcastAmount(p) == stage[p] = "counts" /\ Bcast(p, nsends[p][p])

HearAmount(p) ==
    /\ stage[p] = "counts" /\ Joined(p)
    /\ nrecvs' = [nrecvs EXCEPT ![p][turn[p]] = Heard(p)]
    /\ UNCHANGED <<solveState, inputs, nsends, b>>

EndAmounts(p) ==
    /\ stage[p] = "counts" /\ turn[p] \notin Procs
    /\ Goto(p, ToSolve, 0)
    /\ UNCHANGED <<solveState, inputs, amounts, bcasts, b>>

(* bvec_zlapmr_rep_bvec2vec: the process copies its own entries to b...    *)
CollectRep(p) ==
    /\ stage[p] = "solved" /\ Replicated
    /\ b' = [b EXCEPT ![p] = Copied(@, Unpermuted([c \in Cols(p) |-> pb[p][c]]))]
    /\ Goto(p, "bcasts", 0)
    /\ UNCHANGED <<solveState, inputs, amounts, bcasts>>

(* ...and in bvec_zexchange_data_rep each process that has some sends them *)
(* to all the others, in turn.                                             *)
BcastData(p) ==
    /\ stage[p] = "bcasts" /\ nsends[p][p] > 0
    /\ Bcast(p, [c \in Cols(p) |-> pb[p][c]])

HearData(p) ==
    /\ stage[p] = "bcasts" /\ turn[p] \in Procs \ {p} /\ nrecvs[p][turn[p]] > 0 /\ Joined(p)
    /\ b' = [b EXCEPT ![p] = Copied(@, Unpermuted(Heard(p)))]
    /\ UNCHANGED <<solveState, inputs, amounts>>

SkipData(p) ==
    /\ stage[p] = "bcasts" /\ turn[p] \in Procs
    /\ (IF IsRoot(p) THEN nsends[p][p] ELSE nrecvs[p][turn[p]]) = 0
    /\ Goto(p, "bcasts", turn[p] + 1)
    /\ UNCHANGED <<solveState, inputs, amounts, bcasts, b>>

EndRep(p) ==
    /\ stage[p] = "bcasts" /\ turn[p] \notin Procs
    /\ Goto(p, "returned", 0)
    /\ UNCHANGED <<solveState, inputs, amounts, bcasts, b>>

-----------------------------------------------------------------------------
(* The two calls of sopalin_ztrsm.                                         *)
outside == <<inputs, amounts, bcasts, b>>

Solve(p) ==
    /\ stage[p] = "solve"
    /\ IF runtime THEN RunGather(p) ELSE Run(p) /\ SolvesEntries(p) /\ UNCHANGED coef
    /\ UNCHANGED <<outside, stage, turn>>

SolveReturns(p) ==
    /\ stage[p] = "solve" /\ Leave(p)
    /\ Goto(p, FromSolve, 0)
    /\ UNCHANGED <<outside, coef, pb>>

(* clockSyncStart: nobody solves before everybody has its entries.         *)
ClockSyncStart(p) ==
    /\ stage[p] = "syncstart"
    /\ \A q \in Procs : stage[q] \notin Permuting
    /\ Goto(p, "solve", 0)
    /\ UNCHANGED <<solveState, outside>>

(* clockSyncStop: nobody sends its entries back before everybody solved.   *)
ClockSyncStop(p) ==
    /\ stage[p] = "syncstop"
    /\ \A q \in Procs : stage[q] \notin Permuting \cup {"syncstart", "solve"}
    /\ Goto(p, "solved", 0)
    /\ UNCHANGED <<solveState, outside>>

SendEnds(p) ==
    /\ stage[p] = "solve"
    /\ IF runtime THEN GatherReturns(p) ELSE SendReturns(p) /\ UNCHANGED <<coef, pb>>
    /\ UNCHANGED <<outside, stage, turn>>

Reduce == AllReduce /\ UNCHANGED <<outside, stage, turn>>

-----------------------------------------------------------------------------
Act(p) ==
    \/ StartDst(p) \/ FillForward(p) \/ RecvData(p) \/ SkipRecv(p) \/ FillBackward(p)
    \/ StartRep(p) \/ BcastAmount(p) \/ HearAmount(p) \/ EndAmounts(p)
    \/ CollectRep(p) \/ BcastData(p) \/ HearData(p) \/ SkipData(p) \/ EndRep(p)
    \/ ClockSyncStart(p) \/ Solve(p) \/ SolveReturns(p) \/ ClockSyncStop(p)

Returned(p) == stage[p] = "returned"
Finished == (\A p \in Procs : Returned(p)) /\ UNCHANGED taskVars

TaskNext ==
    \/ \E p \in Procs : Act(p) \/ SendEnds(p) \/ Waitall(p) \/ BcastReturns(p)
    \/ Reduce \/ Finished

(* Nothing is sure to return before its messages were received.            *)
TaskFairness ==
    /\ \A p \in Procs :
          /\ WF_taskVars(Act(p))
          /\ WF_taskVars((SendEnds(p) \/ Waitall(p)) /\ Taken(p))
          /\ WF_taskVars(BcastReturns(p) /\ \A q \in Procs : taken[q] >= taken[p])
    /\ WF_taskVars(Reduce)

TaskSpec == TaskInit /\ [][TaskNext]_taskVars /\ TaskFairness

-----------------------------------------------------------------------------
(* A process that returns from pastix_task_solve has the solution in each  *)
(* of its rows; no message is left for it, that a later call would take;   *)
(* its fan-ins are freed (assert( rhsb->cblkb[i] == NULL ) in              *)
(* sequential_ztrsm), and so are the coefficients of the others.           *)
Answered ==
    \A p \in Procs : Returned(p) =>
        /\ \A i \in rows[p] : b[p][i] = <<"x", Perm[i]>>
        /\ \A q \in Procs : net[<<q, p>>] = <<>>
        /\ \A x \in FanInsOf(p) : faninb[x] = <<>>
        /\ coef[p] = Owned(p)

(* No process waits forever for another one, in a message, a broadcast, a  *)
(* reduction or one of the barriers, even if MPI copies no message before  *)
(* it is received.                                                         *)
TaskTerminates == <>(\A p \in Procs : Returned(p))
=============================================================================
