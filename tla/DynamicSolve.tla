---------------------------- MODULE DynamicSolve ----------------------------
(***************************************************************************)
(* The solve of pastix_subtask_solve_adv with the dynamic scheduler, on    *)
(* one process: the forward step, then the backward step.  Each is a run   *)
(* of DynamicLoop on the graph that SolveTasks makes of the mode and of    *)
(* the step; sopalin_ztrsm starts it with new queues, counters and         *)
(* taskcnt, once all the threads have left the step before.                *)
(***************************************************************************)
EXTENDS SolveTasks

CONSTANTS
    ThreadNbr,  \* world_size of the internal scheduler
    Modes,      \* the modes of the Schur complement that are tried
    NoCblk      \* no column block

ASSUME SolveAssumption ==
    /\ ThreadNbr \in Nat \ {0} /\ Modes \subseteq SolveModes
    /\ NoCblk \notin CblkSet

VARIABLES
    mode,       \* enums->mode
    step,       \* enums->solve_step
    pc, queue, ctrbcnt, threadid, taskcnt, done, cur, todo, victim, fresh, runs, applied

loopVars == <<pc, queue, ctrbcnt, threadid, taskcnt, done, cur, todo, victim, fresh, runs, applied>>
vars == <<mode, step, loopVars>>

(* One graph for each mode and step.                                       *)
SkippedOf == [m \in SolveModes |-> [s \in SolveSteps |-> SolveSkipped(m, s)]]
EdgesOf   == [m \in SolveModes |-> [s \in SolveSteps |-> SolveEdges(m, s)]]
SrcOf     == [m \in SolveModes |-> [s \in SolveSteps |-> SolveSrc(m, s)]]
DstOf     == [m \in SolveModes |-> [s \in SolveSteps |-> SolveDst(m, s)]]
CtrbOf    == [m \in SolveModes |-> [s \in SolveSteps |-> SolveCtrb(m, s)]]
SliceOf   == [c \in CblkSet |-> SliceOwner(c, ThreadNbr)]

LocalFwd == INSTANCE DynamicLoop WITH
    Cblks <- CblkSet, Owner <- SliceOf,
    Key <- SolveKey("forward"), TaskCnt <- SolveTaskCnt("forward"),
    Skipped <- SkippedOf["local"]["forward"], Edges <- EdgesOf["local"]["forward"],
    Src <- SrcOf["local"]["forward"], Dst <- DstOf["local"]["forward"],
    Ctrb <- CtrbOf["local"]["forward"]

LocalBwd == INSTANCE DynamicLoop WITH
    Cblks <- CblkSet, Owner <- SliceOf,
    Key <- SolveKey("backward"), TaskCnt <- SolveTaskCnt("backward"),
    Skipped <- SkippedOf["local"]["backward"], Edges <- EdgesOf["local"]["backward"],
    Src <- SrcOf["local"]["backward"], Dst <- DstOf["local"]["backward"],
    Ctrb <- CtrbOf["local"]["backward"]

InterfaceFwd == INSTANCE DynamicLoop WITH
    Cblks <- CblkSet, Owner <- SliceOf,
    Key <- SolveKey("forward"), TaskCnt <- SolveTaskCnt("forward"),
    Skipped <- SkippedOf["interface"]["forward"], Edges <- EdgesOf["interface"]["forward"],
    Src <- SrcOf["interface"]["forward"], Dst <- DstOf["interface"]["forward"],
    Ctrb <- CtrbOf["interface"]["forward"]

InterfaceBwd == INSTANCE DynamicLoop WITH
    Cblks <- CblkSet, Owner <- SliceOf,
    Key <- SolveKey("backward"), TaskCnt <- SolveTaskCnt("backward"),
    Skipped <- SkippedOf["interface"]["backward"], Edges <- EdgesOf["interface"]["backward"],
    Src <- SrcOf["interface"]["backward"], Dst <- DstOf["interface"]["backward"],
    Ctrb <- CtrbOf["interface"]["backward"]

SchurFwd == INSTANCE DynamicLoop WITH
    Cblks <- CblkSet, Owner <- SliceOf,
    Key <- SolveKey("forward"), TaskCnt <- SolveTaskCnt("forward"),
    Skipped <- SkippedOf["schur"]["forward"], Edges <- EdgesOf["schur"]["forward"],
    Src <- SrcOf["schur"]["forward"], Dst <- DstOf["schur"]["forward"],
    Ctrb <- CtrbOf["schur"]["forward"]

SchurBwd == INSTANCE DynamicLoop WITH
    Cblks <- CblkSet, Owner <- SliceOf,
    Key <- SolveKey("backward"), TaskCnt <- SolveTaskCnt("backward"),
    Skipped <- SkippedOf["schur"]["backward"], Edges <- EdgesOf["schur"]["backward"],
    Src <- SrcOf["schur"]["backward"], Dst <- DstOf["schur"]["backward"],
    Ctrb <- CtrbOf["schur"]["backward"]

IsJob(m, s) == mode = m /\ step = s

(* sopalin_ztrsm: the forward step of one of the modes.                    *)
Init ==
    /\ mode \in Modes /\ step = "forward"
    /\ \/ mode = "local" /\ LocalFwd!Init
       \/ mode = "interface" /\ InterfaceFwd!Init
       \/ mode = "schur" /\ SchurFwd!Init

(* A step of a thread, and those of all the threads.                       *)
Step(t) ==
    \/ IsJob("local", "forward") /\ LocalFwd!Step(t)
    \/ IsJob("local", "backward") /\ LocalBwd!Step(t)
    \/ IsJob("interface", "forward") /\ InterfaceFwd!Step(t)
    \/ IsJob("interface", "backward") /\ InterfaceBwd!Step(t)
    \/ IsJob("schur", "forward") /\ SchurFwd!Step(t)
    \/ IsJob("schur", "backward") /\ SchurBwd!Step(t)

Barrier ==
    \/ IsJob("local", "forward") /\ (LocalFwd!Start \/ LocalFwd!End)
    \/ IsJob("local", "backward") /\ (LocalBwd!Start \/ LocalBwd!End)
    \/ IsJob("interface", "forward") /\ (InterfaceFwd!Start \/ InterfaceFwd!End)
    \/ IsJob("interface", "backward") /\ (InterfaceBwd!Start \/ InterfaceBwd!End)
    \/ IsJob("schur", "forward") /\ (SchurFwd!Start \/ SchurFwd!End)
    \/ IsJob("schur", "backward") /\ (SchurBwd!Start \/ SchurBwd!End)

Run ==
    /\ Barrier \/ \E t \in 0 .. ThreadNbr - 1 : Step(t)
    /\ UNCHANGED <<mode, step>>

Returned == \A t \in DOMAIN pc : pc[t] = "exit"

(* The parallel call returns, and the backward step starts afresh.         *)
NextStep ==
    /\ Returned /\ step = "forward"
    /\ step' = "backward"
    /\ pc'       = [t \in DOMAIN pc |-> "init"]
    /\ queue'    = [t \in DOMAIN pc |-> {}]
    /\ ctrbcnt'  = CtrbOf[mode]["backward"]
    /\ taskcnt'  = SolveTaskCnt("backward")
    /\ victim'   = [t \in DOMAIN pc |-> t]
    /\ runs'     = [c \in CblkSet |-> 0]
    /\ applied'  = [e \in EdgesOf[mode]["backward"] |-> 0]
    /\ done'     = [t \in DOMAIN pc |-> 0]
    /\ fresh'    = [t \in DOMAIN pc |-> {}]
    /\ UNCHANGED <<mode, threadid, cur, todo>>

Finished == Returned /\ step = "backward" /\ UNCHANGED vars

Next == Run \/ NextStep \/ Finished

Fairness ==
    /\ \A t \in 0 .. ThreadNbr - 1 : WF_vars(Step(t) /\ UNCHANGED <<mode, step>>)
    /\ WF_vars(Barrier /\ UNCHANGED <<mode, step>>)
    /\ WF_vars(NextStep)

SolveSpec == Init /\ [][Next]_vars
Spec == SolveSpec /\ Fairness

-----------------------------------------------------------------------------
(* In both steps and whatever the mode drops, a column block is computed   *)
(* once and after every contribution to it was applied once; and taskcnt   *)
(* tells the threads to leave only when all was computed and applied,      *)
(* except in the forward step in schur mode, where it misses the Schur     *)
(* complement.                                                             *)
ComputesInOrder ==
    /\ IsJob("local", "forward") => LocalFwd!ComputedAfterAll /\ LocalFwd!StopsWhenDone
    /\ IsJob("local", "backward") => LocalBwd!ComputedAfterAll /\ LocalBwd!StopsWhenDone
    /\ IsJob("interface", "forward") => InterfaceFwd!ComputedAfterAll /\ InterfaceFwd!StopsWhenDone
    /\ IsJob("interface", "backward") => InterfaceBwd!ComputedAfterAll /\ InterfaceBwd!StopsWhenDone
    /\ IsJob("schur", "forward") => SchurFwd!ComputedAfterAll
    /\ IsJob("schur", "backward") => SchurBwd!ComputedAfterAll /\ SchurBwd!StopsWhenDone

(* assert( computeQueue->used == 0 ) at the end of thread_ztrsm_dynamic,   *)
(* although the column blocks of the Schur complement that are dropped are *)
(* queued but not counted in taskcnt; with the same exception.             *)
QueuesEmptyAtExit ==
    ~ IsJob("schur", "forward") => \A t \in DOMAIN pc : pc[t] = "exit" => queue[t] = {}

(* api.h: "PastixSolvModeSchur applies all steps": when the parallel call  *)
(* returns, every column block was solved, the Schur complement included.  *)
AppliesAllSteps == Returned => \A c \in CblkSet : runs[c] = 1

(* The solve returns in every mode.                                        *)
StepsTerminate == <>(Returned /\ step = "backward")
=============================================================================
