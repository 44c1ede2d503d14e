------------------------------ MODULE ApiSteps ------------------------------
(***************************************************************************)
(* The steps of the solver, as an application calls them: ordering,        *)
(* symbolic factorization, reordering, mapping (blend), numerical          *)
(* factorization and solve.  pastix_data keeps a bit mask of the steps     *)
(* done and the structures that they leave to the next ones; a step is     *)
(* refused unless the bits that it needs are set, releases what it         *)
(* replaces and clears the bits of the steps to do again.                  *)
(*                                                                         *)
(* Every handler is an operator from a pastix_data to the one that it      *)
(* leaves, with its return code in rc; a task is the composition of its    *)
(* subtasks up to the first error.  The contents of the structures are     *)
(* reduced to what they were computed from: the number of the ordering and *)
(* the number of the values of the matrix.                                 *)
(***************************************************************************)
EXTENDS Naturals, Sequences

CONSTANTS
    MaxOrders,      \* bound: orderings computed
    MaxAnalyses,    \* bound: runs of blend
    MaxValues,      \* bound: sets of values that the matrix takes
    Schedulers,     \* the values of iparm[IPARM_SCHEDULER] that the application uses
    Prudence        \* what the application abstains from, a subset of Cautions

(* The schedulers, and the families of common/pastixdata.h.                *)
Runtimes == {"starpu", "parsec"}
AllSchedulers == {"sequential", "static", "dynamic"} \cup Runtimes

Cautions == {"order", "release", "values"}

ASSUME ApiAssumption ==
    /\ MaxOrders \in Nat /\ MaxAnalyses \in Nat /\ MaxValues \in Nat
    /\ Schedulers \subseteq AllSchedulers /\ Prudence \subseteq Cautions

VARIABLES
    data,       \* pastix_data_t, with iparm[IPARM_SCHEDULER] and the heap
    setup,      \* what never changes: several processes, LDL^t, low-rank
    values      \* which values the user's matrix has

apiVars == <<data, setup, values>>

(* The steps that each step makes obsolete.                                *)
AfterAnalyse  == {"csc2bcsc", "bcsc2ctab", "numfact"}
AfterSymbfact == AfterAnalyse \cup {"analyse"}
AfterOrdering == AfterSymbfact \cup {"symbfact"}
Steps         == AfterOrdering \cup {"init", "ordering"}

NoBcsc == [order |-> 0, values |-> 0]

(* pastixInit: everything is NULL but the first bit.                       *)
NewData(scheduler) ==
    [rc |-> "ok", steps |-> {"init"}, iparm |-> scheduler, sched |-> scheduler,
     graph |-> FALSE, ordemesh |-> "null", order |-> 0, symbmtx |-> 0, bcsc |-> NoBcsc,
     solvmatr |-> 0, solvloc |-> 0, solvglob |-> 0, heap |-> << >>, mixed |-> FALSE]

Refuse(d) == [d EXCEPT !.rc = "error"]

(* The end of a step: it is done, and the steps that depend on it are not. *)
Complete(d, step, obsolete) ==
    [d EXCEPT !.rc = "ok", !.steps = (@ \ obsolete) \cup {step}]

(* A task goes on with its next subtask only if there was no error.        *)
Then(d, Subtask(_)) == IF d.rc = "ok" THEN Subtask(d) ELSE d

(* Mutant: the factorization for the former ordering stays valid.          *)
OrderKeepsFactors(d, succeeds) ==
    IF "init" \notin d.steps THEN Refuse(d)
    ELSE LET e == [d EXCEPT !.order = @ + 1, !.graph = TRUE, !.ordemesh = "empty"]
         IN  IF succeeds
             THEN Complete([e EXCEPT !.ordemesh = "built"], "ordering", {"symbfact", "analyse"})
             ELSE Refuse(e)

(* pastix_subtask_order: the former ordering is lost first; the steps are  *)
(* updated at the end, if the ordering library succeeds.                   *)
Order(d, succeeds) ==
    IF "init" \notin d.steps THEN Refuse(d)
    ELSE LET e == [d EXCEPT !.order = @ + 1, !.graph = TRUE, !.ordemesh = "empty"]
         IN  IF succeeds
             THEN Complete([e EXCEPT !.ordemesh = "built"], "ordering", AfterOrdering)
             ELSE Refuse(e)

(* pastix_subtask_symbfact *)
Symbfact(d) ==
    IF "ordering" \notin d.steps \/ ~ d.graph \/ d.ordemesh = "null" THEN Refuse(d)
    ELSE Complete([d EXCEPT !.symbmtx = d.order], "symbfact", AfterSymbfact)

(* pastix_subtask_reordering permutes the unknowns inside the supernodes,  *)
(* hence makes another ordering, and computes the symbol again; the return *)
(* code of that is lost.                                                   *)
Reordering(d) ==
    [Symbfact([d EXCEPT !.order = @ + 1, !.symbmtx = 0]) EXCEPT !.rc = "ok"]

NewMatrix(order) == [order |-> order, coef |-> "none", values |-> 0, released |-> 0]

(* solverExit and free of the solver matrix at an address, NULL being 0.   *)
Release(heap, p) ==
    IF p = 0 THEN heap
    ELSE [heap EXCEPT ![p] = [NewMatrix(0) EXCEPT !.released = heap[p].released + 1]]

(* The new mapping: two solver matrices, of which the local one is in use. *)
Map(d, heap, obsolete) ==
    LET loc == Len(heap) + 1 IN
    Complete([d EXCEPT !.graph = FALSE, !.symbmtx = 0,
                       !.heap = heap \o <<NewMatrix(d.order), NewMatrix(d.order)>>,
                       !.solvloc = loc, !.solvglob = loc + 1, !.solvmatr = loc],
             "analyse", obsolete)

(* Mutant: the former global solver matrix is forgotten.                   *)
BlendLeaks(d) ==
    IF "symbfact" \notin d.steps \/ d.ordemesh = "null" \/ d.symbmtx = 0 THEN Refuse(d)
    ELSE Map(d, Release(d.heap, d.solvmatr), AfterAnalyse)

(* pastix_subtask_blend releases the graph, the solver matrix in use and   *)
(* the global one, and at the end the symbol.                              *)
Blend(d) ==
    IF "symbfact" \notin d.steps \/ d.ordemesh = "null" \/ d.symbmtx = 0 THEN Refuse(d)
    ELSE Map(d, Release(Release(d.heap, d.solvmatr), d.solvglob), AfterAnalyse)

(* pastix_task_analyze *)
Analyze(d, succeeds) ==
    IF "init" \notin d.steps THEN Refuse(d)
    ELSE Then(Then(Then(Order(d, succeeds), Symbfact), Reordering), Blend)

-----------------------------------------------------------------------------
(* pastix_subtask_spm2bcsc: chooses the solver matrix according to the     *)
(* family of the scheduler, LDL^t being done without the runtimes, and     *)
(* copies the values of the matrix.                                        *)
Spm2bcsc(d) ==
    LET sched == IF d.iparm \in Runtimes /\ setup.ldlt THEN "dynamic" ELSE d.iparm IN
    IF "analyse" \notin d.steps THEN Refuse(d)
    ELSE Complete([d EXCEPT !.sched = sched,
                            !.solvmatr = IF sched \in Runtimes THEN d.solvglob ELSE d.solvloc,
                            !.bcsc = [order |-> d.order, values |-> values]],
                  "csc2bcsc", {"bcsc2ctab"})

(* Mutant: the scheduler asked for is always taken.                        *)
TrustScheduler(d) == [d EXCEPT !.sched = d.iparm]

(* pastix_check_and_correct_scheduler: with several processes, a scheduler *)
(* of the other family than the solver matrix is replaced by the last one. *)
CheckScheduler(d) ==
    LET wrong == \/ d.iparm \in Runtimes /\ d.solvmatr # d.solvglob
                 \/ d.iparm \notin Runtimes /\ d.solvmatr # d.solvloc
        sched == IF wrong THEN d.sched ELSE d.iparm
    IN  IF setup.distributed THEN [d EXCEPT !.iparm = sched, !.sched = sched] ELSE d

(* pastix_subtask_bcsc2ctab: fills the coefficients in, unless low-rank    *)
(* compression is asked of PaRSEC on several processes.                    *)
Bcsc2ctab(d) ==
    IF "csc2bcsc" \notin d.steps \/ d.bcsc = NoBcsc THEN Refuse(d)
    ELSE LET e == CheckScheduler(d) IN
         IF setup.lowrank /\ setup.distributed /\ e.iparm = "parsec" THEN Refuse(e)
         ELSE Complete([e EXCEPT !.heap[e.solvmatr].coef = "filled",
                                 !.heap[e.solvmatr].values = e.bcsc.values],
                       "bcsc2ctab", {"numfact"})

(* History: did a numerical step ever run with several processes on a      *)
(* scheduler of another family than its solver matrix?                     *)
Use(d) ==
    LET agree == (d.iparm \in Runtimes) = (d.solvmatr = d.solvglob)
    IN  [d EXCEPT !.mixed = @ \/ (setup.distributed /\ ~ agree)]

(* pastix_subtask_sopalin: factorizes the coefficients in place.           *)
Sopalin(d) ==
    IF ~ {"analyse", "csc2bcsc", "bcsc2ctab"} \subseteq d.steps \/ d.bcsc = NoBcsc THEN Refuse(d)
    ELSE LET e == CheckScheduler(d) IN
         Complete([Use(e) EXCEPT !.heap[e.solvmatr].coef = "factorized"],
                  "numfact", {"bcsc2ctab"})

(* pastix_task_numfact *)
Numfact(d) ==
    IF "analyse" \notin d.steps THEN Refuse(d)
    ELSE Then(Then(Spm2bcsc([d EXCEPT !.steps = @ \ AfterAnalyse]), Bcsc2ctab), Sopalin)

(* pastix_task_solve, and the other functions that solve.                  *)
Solve(d) ==
    IF "numfact" \notin d.steps THEN Refuse(d)
    ELSE [Use(CheckScheduler(d)) EXCEPT !.rc = "ok"]

(* pastixFinalize: after it there is no instance any more.                 *)
Finalize(d) ==
    [NewData(d.iparm) EXCEPT !.steps = {}, !.order = d.order,
                             !.heap = Release(Release(d.heap, d.solvloc), d.solvglob)]

-----------------------------------------------------------------------------
(* The application.  It may abstain from:                                  *)
(*   order    an ordering that fails when there was one before;            *)
(*   release  a mapping while the global solver matrix is in use;          *)
(*   values   new values without the factorization that goes with them.    *)
Abstains(caution, when) == caution \in Prudence /\ when

MayOrder(succeeds) == ~ Abstains("order", ~ succeeds /\ "ordering" \in data.steps)
MayBlend == ~ Abstains("release", data.solvmatr = data.solvglob /\ data.solvmatr # 0)
MayCopy  == ~ Abstains("values", "numfact" \in data.steps)

Alive == data.steps # {}

ApiInit ==
    /\ setup \in [distributed : BOOLEAN, ldlt : BOOLEAN, lowrank : BOOLEAN]
    /\ values = 1
    /\ \E s \in Schedulers : data = NewData(s)

(* The application takes the return code.                                  *)
Call(d) == Alive /\ data' = [d EXCEPT !.rc = "ok"] /\ UNCHANGED <<setup, values>>

CallOrder == \E ok \in BOOLEAN : data.order < MaxOrders /\ MayOrder(ok) /\ Call(Order(data, ok))

CallSymbfact == Call(Symbfact(data))

(* pastix_subtask_reordering checks no step: it takes the symbol as it is. *)
CallReordering ==
    data.order < MaxOrders /\ "symbfact" \in data.steps /\ data.symbmtx # 0 /\ Call(Reordering(data))

CallBlend == Len(data.heap) < 2 * MaxAnalyses /\ MayBlend /\ Call(Blend(data))

CallAnalyze ==
    /\ data.order + 1 < MaxOrders /\ Len(data.heap) < 2 * MaxAnalyses
    /\ \E ok \in BOOLEAN : MayOrder(ok) /\ MayBlend /\ Call(Analyze(data, ok))

CallSpm2bcsc  == MayCopy /\ Call(Spm2bcsc(data))
CallBcsc2ctab == Call(Bcsc2ctab(data))
CallSopalin   == Call(Sopalin(data))
CallNumfact   == Call(Numfact(data))
CallSolve     == Call(Solve(data))
CallFinalize  == Call(Finalize(data))

(* Between two calls the application changes the scheduler, or the values  *)
(* of the matrix.                                                          *)
SetScheduler(s) ==
    /\ Alive
    /\ data' = [data EXCEPT !.iparm = s] /\ UNCHANGED <<setup, values>>

NewValues == Alive /\ values < MaxValues /\ values' = values + 1 /\ UNCHANGED <<data, setup>>

ApiNext ==
    \/ CallOrder \/ CallSymbfact \/ CallReordering \/ CallBlend \/ CallAnalyze
    \/ CallSpm2bcsc \/ CallBcsc2ctab \/ CallSopalin \/ CallNumfact \/ CallSolve
    \/ CallFinalize \/ NewValues \/ \E s \in Schedulers : SetScheduler(s)

-----------------------------------------------------------------------------
Matrix == data.heap[data.solvmatr]

(* Each bit of steps stands for data that are there and agree: an accepted *)
(* call works on the structures of one ordering, factorizes coefficients   *)
(* that were just filled with the values of the bcsc, and solves with      *)
(* coefficients that are factorized.                                       *)
StepsMeanData ==
    /\ "ordering"  \in data.steps => data.ordemesh = "built"
    /\ "symbfact"  \in data.steps =>
        /\ "ordering" \in data.steps
        /\ data.symbmtx \in {data.order} \/ (data.symbmtx = 0 /\ "analyse" \in data.steps)
    /\ "analyse"   \in data.steps =>
        /\ "symbfact" \in data.steps
        /\ data.solvmatr \in {data.solvloc, data.solvglob} \ {0} /\ Matrix.order = data.order
    /\ "csc2bcsc"  \in data.steps => "analyse" \in data.steps /\ data.bcsc.order = data.order
    /\ "bcsc2ctab" \in data.steps =>
        /\ "csc2bcsc" \in data.steps
        /\ Matrix.coef = "filled" /\ Matrix.values = data.bcsc.values
    /\ "numfact"   \in data.steps =>
        /\ "csc2bcsc" \in data.steps /\ "bcsc2ctab" \notin data.steps
        /\ Matrix.coef = "factorized" /\ Matrix.values = data.bcsc.values

(* The solver matrices of the instance, and only they, are not released;   *)
(* none is released twice.                                                 *)
SolverMemory ==
    \A p \in DOMAIN data.heap :
        data.heap[p].released = IF p \in {data.solvloc, data.solvglob} THEN 0 ELSE 1

(* With several processes, a factorization or a solve runs on a scheduler  *)
(* of the family that its solver matrix was chosen for, whatever the       *)
(* application does to the parameter meanwhile.                            *)
SameFamily == ~ data.mixed
=============================================================================
