------------------------------- MODULE OldApi -------------------------------
(***************************************************************************)
(* pastix(), the interface of the former releases (sopalin/pastix.c): one  *)
(* function that executes the steps from IPARM_START_TASK to               *)
(* IPARM_END_TASK, used here together with the functions of ApiSteps.      *)
(*                                                                         *)
(* The refinement needs the right-hand side and the first solution, while  *)
(* the application gives one vector: pastix() keeps a copy of the one that *)
(* it will miss.  Of the vectors only the meaning is modelled.             *)
(***************************************************************************)
EXTENDS ApiSteps

VARIABLES
    kept,       \* pastix_data->b and pastix_data->x0, "none" when NULL
    wanted,     \* what the application expects of its last call of pastix()
    vector      \* what the vector of the application holds at its return

oldVars == <<kept, wanted, vector>>
vars == <<apiVars, oldVars>>

Nothing == [b |-> "none", x0 |-> "none"]

Init ==
    /\ ApiInit
    /\ kept = Nothing /\ wanted = "rhs" /\ vector = "rhs"

(* The tasks in the order of include/pastix/api.h: init, ordering,         *)
(* symbfact, analyze, numfact, solve, refine, clean.                       *)
Tasks == 0 .. 7

Runs(c, task) == c.first <= task /\ task <= c.last

If(condition, d, Subtask(_)) == IF condition THEN Then(d, Subtask) ELSE d

(* From the initialization, which first finalizes the former instance, to  *)
(* the factorization.  There is no reordering in this interface.           *)
Factorize(d, c, succeeds) ==
    LET start    == IF Runs(c, 0) THEN [Finalize(d) EXCEPT !.steps = {"init"}] ELSE d
        ordered  == If(Runs(c, 1), start, LAMBDA e : Order(e, succeeds))
        symbol   == If(Runs(c, 2), ordered, Symbfact)
        analysed == If(Runs(c, 3), symbol, Blend)
    IN  If(Runs(c, 4), analysed, Numfact)

(* What the solve and the refinement make of [data, kept, vector]; their   *)
(* return codes are lost.                                                  *)
Accepted(w) == "numfact" \in w.data.steps
Unchecked(d) == [Solve(d) EXCEPT !.rc = "ok"]

(* Mutant: the copies of an earlier solve are not replaced.                *)
TaskSolveKeeps(w, c) ==
    IF ~ Runs(c, 5) THEN w
    ELSE LET answer == IF Accepted(w) THEN "solution" ELSE w.vector IN
         [data |-> Unchecked(w.data), vector |-> answer,
          kept |-> [b  |-> IF c.last > 5 THEN w.vector ELSE w.kept.b,
                    x0 |-> IF c.last = 5 THEN answer ELSE w.kept.x0]]

(* The solve replaces the vector.  Before it, pastix() keeps b if there is *)
(* a refinement to do in the same call, and after it x0 if there may be    *)
(* one in another.                                                         *)
TaskSolve(w, c) ==
    IF ~ Runs(c, 5) THEN w
    ELSE LET answer == IF Accepted(w) THEN "solution" ELSE w.vector IN
         [data |-> Unchecked(w.data), vector |-> answer,
          kept |-> [b  |-> IF c.last > 5 THEN w.vector ELSE "none",
                    x0 |-> IF c.last = 5 THEN answer ELSE "none"]]

(* The refinement improves the vector in place when b was kept.  When x0   *)
(* was kept, x0 is improved, and the vector is copied onto itself.         *)
TaskRefine(w, c) ==
    IF ~ Runs(c, 6) THEN w
    ELSE IF (w.kept.b = "none") = (w.kept.x0 = "none") THEN [w EXCEPT !.data.rc = "error"]
    ELSE [w EXCEPT !.data = Unchecked(w.data),
                   !.vector = IF Accepted(w) /\ w.kept.x0 = "none" THEN "refined" ELSE @]

(* The copies are released once there is nothing to refine any more.       *)
TaskClean(w, c) ==
    IF c.last < 6 \/ w.data.rc = "error" THEN w
    ELSE [w EXCEPT !.kept = Nothing,
                   !.data = IF Runs(c, 7) THEN Finalize(w.data) ELSE @]

(* What a call should return in the vector, if it succeeds.                *)
Expected(c, w) ==
    IF w.data.rc = "error" \/ ~ Accepted(w) \/ c.last < 5 \/ c.first = 7 THEN "rhs"
    ELSE IF c.last = 5 THEN "solution"
    ELSE IF c.first = 6 THEN "refined later" ELSE "refined"

(* A call of pastix(), with the right-hand side in the vector.             *)
CallPastix(first, last, succeeds) ==
    LET c    == [first |-> first, last |-> last]
        done == Factorize(data, c, succeeds)
        w    == [data |-> done, vector |-> "rhs", kept |-> IF first = 0 THEN Nothing ELSE kept]
        end  == IF done.rc = "error" THEN w ELSE TaskClean(TaskRefine(TaskSolve(w, c), c), c)
    IN  /\ first > 0 => Alive
        /\ Runs(c, 1) => data.order < MaxOrders /\ MayOrder(succeeds)
        /\ Runs(c, 3) => Len(data.heap) < 2 * MaxAnalyses /\ MayBlend
        /\ data' = [end.data EXCEPT !.rc = "ok"] /\ kept' = end.kept /\ vector' = end.vector
        /\ wanted' = IF end.data.rc = "error" THEN "rhs" ELSE Expected(c, w)
        /\ UNCHANGED <<setup, values>>

Done == ~ Alive /\ UNCHANGED vars

Next ==
    \/ ApiNext /\ UNCHANGED oldVars
    \/ \E first \in Tasks : \E last \in first .. 7 :
           \E ok \in IF first <= 1 /\ last >= 1 THEN BOOLEAN ELSE {TRUE} : CallPastix(first, last, ok)
    \/ Done

Spec == Init /\ [][Next]_vars

-----------------------------------------------------------------------------
(* A successful call of pastix() that solves returns the solution, refined *)
(* if the call goes that far; no copy of a right-hand side is left for a   *)
(* later call to take for its own.                                         *)
SolveAnswers ==
    /\ kept.b = "none"
    /\ wanted \in {"solution", "refined"} => vector = wanted

(* A successful call of pastix() that only refines returns the refined     *)
(* solution, as example/old/step-by-step.c says.                           *)
RefineAnswers == wanted = "refined later" => vector = "refined"
=============================================================================
