----------------------------- MODULE DistSolve -----------------------------
(***************************************************************************)
(* The two triangular solves distributed over several MPI processes, with  *)
(* the static and the dynamic schedulers: sopalin_ztrsm, called once for   *)
(* the forward step and once for the backward step                         *)
(* (sopalin/sequential_ztrsm.c, kernels/solve_ztrsmsp.c,                   *)
(* kernels/cpucblk_zmpi_rhs_fwd.c, kernels/cpucblk_zmpi_rhs_bwd.c).        *)
(*                                                                         *)
(* Forward, a process sums up its contributions to a remote column block   *)
(* in a buffer of rhsb->cblkb, allocated by the first thread that needs it *)
(* and sent when the last contribution is added.  Backward, the owner      *)
(* sends the solution of the column block to each process that has a       *)
(* fan-in of it; the fan-in is then updated from like a column block: as a *)
(* task of its own (dynamic) or at once, by the thread that received it    *)
(* (static).  Both steps use the same communicator, tags and any-source    *)
(* reception; an MPI_Barrier separates them.                               *)
(*                                                                         *)
(* Atomic steps: those of DistScheduler, one update under the lock of the  *)
(* column block, the test of a buffer and its allocation.  There is no     *)
(* Schur complement with several processes.                                *)
(***************************************************************************)
EXTENDS DistScheduler

CONSTANT CopySent   \* rhsb->n > 1: a solution is copied to be sent

ASSUME CopyAssumption == CopySent \in BOOLEAN

VARIABLES
    step,       \* enums->solve_step of each process
    phase,      \* where each process stands in sopalin_ztrsm
    todo,       \* the blocks of a thread's column block not applied yet
    tosend,     \* backward: its receptions the solution is not sent to yet
    faninb,     \* rhsb->cblkb of the fan-ins: <<>> (NULL) or <<contents>>
    recvb,      \* rhsb->cblkb of the receptions
    solved,     \* history: solves of each column block, in each step
    got         \* how many times each block was applied to b, in each step

solveVars == <<step, phase, todo, tosend, faninb, recvb, solved, got>>
vars == <<pc, engineVars, schedVars, solveVars>>

Steps == {"forward", "backward"}
Forward(p)  == step[p] = "forward"
Backward(p) == step[p] = "backward"

Init ==
    /\ SchedInit
    /\ step   = [p \in Procs |-> "forward"]
    /\ phase  = [p \in Procs |-> "start"]
    /\ todo   = [t \in Threads |-> {}]
    /\ tosend = [t \in Threads |-> {}]
    /\ faninb = [x \in FanIns |-> <<>>]
    /\ recvb  = [x \in FanIns |-> <<>>]
    /\ solved = [s \in Steps |-> [c \in Cblks |-> 0]]
    /\ got    = [s \in Steps |-> [e \in Edges |-> 0]]

(* The tasks of a thread, in the order of the step.                        *)
Tasks(t) == IF Forward(ProcOf(t)) THEN Order[t] ELSE Reverse(Order[t])

(* Mutant: the counters of the forward step, in both steps.                *)
CtrbForward(s) == [x \in Local |-> BrowNbr(x)]

(* ctrbcnt: the contributions to a column block (brownum), or the blocks   *)
(* of the column block, that wait for the solution they face.              *)
Ctrb(s) == [x \in Local |->
    IF s = "forward" THEN BrowNbr(x) ELSE IF x \in FanIns THEN 0 ELSE Cardinality(OutOf(x[2]))]

(* dynamic: what waits for nothing, fan-ins excepted, queued by slices.    *)
FirstTasks(s) == [t \in Threads |->
    {x \in Local \ FanIns : x[1] = ProcOf(t) /\ Ctrb(s)[x] = 0 /\ InSlice(t, x)}]

(* args_ztrsm.taskcnt: tasknbr, or cblknbr - recvnbr.                      *)
TaskCnt(p, s) ==
    IF s = "forward" THEN Cardinality({c \in Cblks : Own[c] = p}) ELSE SolvCblkNbr(p) - RecvNbr(p)

(* solverRequestInit and solverRhsRecvInit, then isched_parallel_call.     *)
Start(p) ==
    /\ phase[p] = "start"
    /\ OpenRequests(p, IF Forward(p) THEN RecvNbr(p) ELSE FaninNbr(p),
                       IF Forward(p) THEN FaninNbr(p) ELSE RecvNbr(p))
    /\ StartThreads(p, Ctrb(step[p]), FirstTasks(step[p]), TaskCnt(p, step[p]))
    /\ phase' = [phase EXCEPT ![p] = "tasks"]
    /\ UNCHANGED <<step, todo, tosend, faninb, recvb, solved, got>>

-----------------------------------------------------------------------------
(* solve_cblk_ztrsmsp_forward and solve_cblk_ztrsmsp_backward.             *)

(* The diagonal block of the column block is solved, unless it is a fan-in *)
(* (backward), that brings its solution.                                   *)
Solve(t) ==
    /\ \E x \in Local :
          /\ TakeTask(t, x, Tasks(t))
          /\ solved' = IF x \in FanIns THEN solved
                       ELSE [solved EXCEPT ![step[x[1]]][x[2]] = @ + 1]
          /\ todo'   = [todo EXCEPT ![t] =
                           IF Forward(x[1]) THEN OutOf(x[2]) ELSE ProcEdges(x[1], x[2])]
          /\ tosend' = [tosend EXCEPT ![t] =
                           IF Forward(x[1]) \/ x \in FanIns THEN {} ELSE RecvsTo(x[2])]
    /\ Goto(t, "update")
    /\ UNCHANGED <<step, phase, faninb, recvb, got>>

(* The block a thread is at - backward, browtab is read from its end - and *)
(* the column block it updates.                                            *)
NextEdge(t) == IF Forward(ProcOf(t)) THEN Min(todo[t]) ELSE Max(todo[t])
Target(t) == <<ProcOf(t), IF Forward(ProcOf(t)) THEN Dst[NextEdge(t)] ELSE Src[NextEdge(t)]>>

(* forward: the buffer of the fan-in is not allocated.                     *)
FindNoBuffer(t) ==
    /\ pc[t] = "update" /\ todo[t] # {} /\ tosend[t] = {}
    /\ Target(t) \in FanIns /\ faninb[Target(t)] = <<>>
    /\ Goto(t, "alloc")
    /\ UNCHANGED <<engineVars, schedVars, solveVars>>

(* Mutant: the buffer is stored whatever another thread has done.          *)
AllocBlindly(t) ==
    /\ pc[t] = "alloc"
    /\ faninb' = [faninb EXCEPT ![Target(t)] = <<{}>>]
    /\ Goto(t, "gemm")
    /\ UNCHANGED <<engineVars, schedVars, step, phase, todo, tosend, recvb, solved, got>>

(* forward: calloc and pastix_atomic_cas_xxb; if another thread was faster *)
(* its buffer is used.                                                     *)
Alloc(t) ==
    /\ pc[t] = "alloc"
    /\ faninb' = [faninb EXCEPT ![Target(t)] = IF @ = <<>> THEN <<{}>> ELSE @]
    /\ Goto(t, "gemm")
    /\ UNCHANGED <<engineVars, schedVars, step, phase, todo, tosend, recvb, solved, got>>

(* The solution a thread updates with: that of its column block, or what   *)
(* its fan-in holds.                                                       *)
Solution(t) ==
    IF cur[t] \in FanIns THEN faninb[cur[t]][1]
    ELSE IF solved[step[ProcOf(t)]][cur[t][2]] = 0 THEN {} ELSE {<<step[ProcOf(t)], cur[t][2]>>}

(* solve_blok_zgemm into b, or forward into the fan-in.                    *)
Update(t) ==
    LET s == step[ProcOf(t)] IN
    /\ pc[t] \in {"update", "gemm"} /\ todo[t] # {} /\ tosend[t] = {}
    /\ \/ /\ Target(t) \in FanIns /\ faninb[Target(t)] # <<>>
          /\ faninb' = [faninb EXCEPT ![Target(t)] = <<@[1] \cup {<<s, NextEdge(t)>>}>>]
          /\ UNCHANGED got
       \/ /\ Target(t) \notin FanIns
          /\ got' = IF <<s, cur[t][2]>> \in Solution(t)
                    THEN [got EXCEPT ![s][NextEdge(t)] = @ + 1] ELSE got
          /\ UNCHANGED faninb
    /\ Goto(t, "release")
    /\ UNCHANGED <<engineVars, schedVars, step, phase, todo, tosend, recvb, solved>>

(* cpucblk_zrelease_rhs_fwd_deps and cpucblk_zrelease_rhs_bwd_deps: the    *)
(* last contribution to a fan-in sends it (forward).                       *)
Release(t) ==
    /\ pc[t] = "release"
    /\ \/ /\ Target(t) \in FanIns /\ ctrbcnt[Target(t)] = 1
          /\ ctrbcnt' = [ctrbcnt EXCEPT ![Target(t)] = 0]
          /\ Goto(t, "isend")
          /\ UNCHANGED <<todo, queue>>
       \/ /\ ~ (Target(t) \in FanIns /\ ctrbcnt[Target(t)] = 1)
          /\ Contributed(Target(t), t)
          /\ todo' = [todo EXCEPT ![t] = @ \ {NextEdge(t)}]
          /\ Goto(t, "update")
    /\ UNCHANGED <<engineVars, pos, taskcnt, done, cur, step, phase, tosend, faninb, recvb,
                   solved, got>>

(* cpucblk_zisend_rhs_fwd: the fan-in is sent to its owner.                *)
SendFanin(t) ==
    /\ pc[t] = "isend"
    /\ Isend(t, Target(t), Own[Dst[NextEdge(t)]], Dst[NextEdge(t)], faninb[Target(t)][1])
    /\ Goto(t, "register")
    /\ UNCHANGED <<schedVars, solveVars>>

(* cpucblk_zisend_rhs_bwd: the solution is sent to a process with a fan-in. *)
SendSolution(t) ==
    /\ pc[t] = "update"
    /\ \E x \in tosend[t] :
          /\ Isend(t, x, x[1], x[2], Solution(t))
          /\ recvb' = IF CopySent THEN [recvb EXCEPT ![x] = <<Solution(t)>>] ELSE recvb
    /\ Goto(t, "register")
    /\ UNCHANGED <<schedVars, step, phase, todo, tosend, faninb, solved, got>>

(* Mutant: the buffer is freed once the request is registered.             *)
RegisterAndFree(t) ==
    /\ pc[t] = "register"
    /\ Register(t)
    /\ faninb' = IF Forward(ProcOf(t)) THEN [faninb EXCEPT ![posted[t]] = <<>>] ELSE faninb
    /\ IF Forward(ProcOf(t))
       THEN todo' = [todo EXCEPT ![t] = @ \ {NextEdge(t)}] /\ UNCHANGED tosend
       ELSE tosend' = [tosend EXCEPT ![t] = @ \ {posted[t]}] /\ UNCHANGED todo
    /\ Goto(t, "update")
    /\ UNCHANGED <<schedVars, step, phase, recvb, solved, got>>

(* Both: the request is registered.                                        *)
RegisterSent(t) ==
    /\ pc[t] = "register"
    /\ Register(t)
    /\ IF Forward(ProcOf(t))
       THEN todo' = [todo EXCEPT ![t] = @ \ {NextEdge(t)}] /\ UNCHANGED tosend
       ELSE tosend' = [tosend EXCEPT ![t] = @ \ {posted[t]}] /\ UNCHANGED todo
    /\ Goto(t, "update")
    /\ UNCHANGED <<schedVars, step, phase, faninb, recvb, solved, got>>

(* The column block is done; a fan-in is freed.  A fan-in that the static  *)
(* scheduler computes within its reception ends the reception.             *)
EndSolve(t) ==
    /\ pc[t] = "update" /\ todo[t] = {} /\ tosend[t] = {}
    /\ faninb' = IF cur[t] \in FanIns THEN [faninb EXCEPT ![cur[t]] = <<>>] ELSE faninb
    /\ \/ held[t] = NoMsg /\ EndTask(t) /\ UNCHANGED engineVars
       \/ held[t] # NoMsg /\ DropMessage(t) /\ UNCHANGED schedVars
    /\ UNCHANGED <<step, phase, todo, tosend, recvb, solved, got>>

-----------------------------------------------------------------------------
(* What cpucblk_zmpi_rhs_fwd_progress and cpucblk_zmpi_rhs_bwd_progress do *)
(* with the messages.                                                      *)

HandleRecv(t) ==
    /\ TakeMessage(t)
    /\ Goto(t, IF Forward(ProcOf(t)) THEN "add" ELSE "store")
    /\ UNCHANGED <<schedVars, solveVars>>

(* cpucblk_zrequest_rhs_fwd_handle_recv: the fan-in is added to b, under   *)
(* the lock of the column block.                                           *)
Add(t) ==
    /\ pc[t] = "add"
    /\ got' = [got EXCEPT !["forward"] =
                  [e \in Edges |-> @[e] + IF <<"forward", e>> \in held[t].data THEN 1 ELSE 0]]
    /\ Goto(t, "dec")
    /\ UNCHANGED <<engineVars, schedVars, step, phase, todo, tosend, faninb, recvb, solved>>

(* cpucblk_zrequest_rhs_fwd_handle_recv: and its dependency released.      *)
Dec(t) ==
    /\ pc[t] = "dec"
    /\ ContributedByMessage(<<ProcOf(t), held[t].tag>>)
    /\ DropMessage(t)
    /\ UNCHANGED <<pos, taskcnt, done, cur, solveVars>>

(* cpucblk_zrequest_rhs_bwd_handle_recv: the fan-in takes the solution; it *)
(* is queued (dynamic) or computed at once (static).                       *)
Store(t) ==
    LET x == <<ProcOf(t), held[t].tag>> IN
    /\ pc[t] = "store"
    /\ faninb' = [faninb EXCEPT ![x] = <<held[t].data>>]
    /\ \/ /\ Dynamic
          /\ queue' = [queue EXCEPT ![t] = @ \cup {x}]
          /\ DropMessage(t)
          /\ UNCHANGED <<cur, todo>>
       \/ /\ ~ Dynamic
          /\ cur'  = [cur EXCEPT ![t] = x]
          /\ todo' = [todo EXCEPT ![t] = ProcEdges(x[1], x[2])]
          /\ Goto(t, "update")
          /\ UNCHANGED <<queue, engineVars>>
    /\ UNCHANGED <<ctrbcnt, pos, taskcnt, done, step, phase, tosend, recvb, solved, got>>

(* cpucblk_zrequest_rhs_fwd_handle_send, cpucblk_zrequest_rhs_bwd_handle_send: *)
(* the buffer of an emission is freed.                                     *)
FreeSent(p, x) ==
    /\ faninb' = IF Forward(p) THEN [faninb EXCEPT ![x] = <<>>] ELSE faninb
    /\ recvb'  = IF Forward(p) THEN recvb ELSE [recvb EXCEPT ![x] = <<>>]
    /\ UNCHANGED <<schedVars, step, phase, todo, tosend, solved, got>>

HandleSend(t) == TakeSent(t) /\ FreeSent(ProcOf(t), Handled(t))

-----------------------------------------------------------------------------
(* The end of sopalin_ztrsm.                                               *)

EndTasks(p) ==
    /\ phase[p] = "tasks" /\ ThreadsEnded(p)
    /\ phase' = [phase EXCEPT ![p] = "cleanup"]
    /\ UNCHANGED <<pc, engineVars, schedVars, step, todo, tosend, faninb, recvb, solved, got>>

(* cpucblk_zrequest_rhs_fwd_cleanup, cpucblk_zrequest_rhs_bwd_cleanup.     *)
Cleanup(p) ==
    /\ phase[p] = "cleanup"
    /\ WaitSent(p)
    /\ FreeSent(p, Head(reqtab[p]).idx)
    /\ UNCHANGED pc

(* Mutant: nothing waits for the emissions that are left.                  *)
ExitAtOnce(p) ==
    /\ phase[p] = "cleanup"
    /\ phase' = [phase EXCEPT ![p] = "barrier"]
    /\ UNCHANGED <<pc, engineVars, schedVars, step, todo, tosend, faninb, recvb, solved, got>>

(* solverRequestExit and solverRhsRecvExit.                                *)
Exit(p) ==
    /\ phase[p] = "cleanup" /\ reqtab[p] = <<>>
    /\ phase' = [phase EXCEPT ![p] = "barrier"]
    /\ UNCHANGED <<pc, engineVars, schedVars, step, todo, tosend, faninb, recvb, solved, got>>

(* Mutant: no MPI_Barrier.                                                 *)
LeaveAlone(p) ==
    /\ phase[p] = "barrier" /\ Forward(p)
    /\ step'  = [step EXCEPT ![p] = "backward"]
    /\ phase' = [phase EXCEPT ![p] = "start"]
    /\ UNCHANGED <<pc, engineVars, schedVars, todo, tosend, faninb, recvb, solved, got>>

(* MPI_Barrier, after which a process goes on to the backward step.        *)
LeaveBarrier(p) ==
    /\ phase[p] = "barrier" /\ Forward(p)
    /\ \A q \in Procs : phase[q] = "barrier" \/ Backward(q)
    /\ step'  = [step EXCEPT ![p] = "backward"]
    /\ phase' = [phase EXCEPT ![p] = "start"]
    /\ UNCHANGED <<pc, engineVars, schedVars, todo, tosend, faninb, recvb, solved, got>>

Ended(p) == Backward(p) /\ phase[p] = "barrier"
Finished == (\A p \in Procs : Ended(p)) /\ UNCHANGED vars

Work(t) ==
    \/ Idle(t, Tasks(t)) /\ UNCHANGED solveVars
    \/ Solve(t) \/ FindNoBuffer(t) \/ Alloc(t) \/ Update(t) \/ Release(t)
    \/ SendFanin(t) \/ SendSolution(t) \/ RegisterSent(t) \/ EndSolve(t)

Communicate(t) ==
    \/ Progress(t, Back) /\ UNCHANGED <<schedVars, solveVars>>
    \/ HandleRecv(t) \/ Add(t) \/ Dec(t) \/ Store(t) \/ HandleSend(t)

Transport ==
    /\ \/ \E p, q \in Procs : Deliver(p, q)
       \/ \E x \in FanIns : SendDone(x)
    /\ UNCHANGED <<schedVars, solveVars>>

Main(p) == Start(p) \/ EndTasks(p) \/ Cleanup(p) \/ Exit(p) \/ LeaveBarrier(p)

Next ==
    \/ \E t \in Threads : Work(t) \/ Communicate(t)
    \/ Transport
    \/ \E p \in Procs : Main(p)
    \/ Finished

(* Every thread runs, MPI delivers the messages for which a reception is   *)
(* open and completes the emissions that were received.                    *)
Fairness ==
    /\ \A t \in Threads : WF_vars(Work(t) \/ Communicate(t))
    /\ \A p, q \in Procs : WF_vars(Deliver(p, q) /\ UNCHANGED <<schedVars, solveVars>>)
    /\ \A x \in FanIns : WF_vars(SendDone(x) /\ Received(x) /\ UNCHANGED <<schedVars, solveVars>>)
    /\ \A p \in Procs : WF_vars(Main(p))

Spec == Init /\ [][Next]_vars /\ Fairness

-----------------------------------------------------------------------------
(* A message is handled in the step it was sent in: no process of the      *)
(* backward step reaches the any-source reception of one that is still in  *)
(* the forward step.                                                       *)
StepsApart ==
    \A t \in Threads : \A d \in held[t].data : d[1] = step[ProcOf(t)]

(* The two steps implement TriangularSolve: each column block is solved    *)
(* once in each step, forward after each block that faces it was applied   *)
(* once, backward after each of its own blocks was applied once, with a    *)
(* solution that was ready, and after its own forward solve.               *)
TS == INSTANCE TriangularSolve
ImplementsTriangularSolve == TS!TSSpec

(* The buffer of an emission: the fan-in, or the solution in rhsb->b or    *)
(* its copy.                                                               *)
SentBuffer(x) ==
    IF Forward(Own[x[2]]) THEN <<faninb[x]>>
    ELSE IF CopySent THEN <<recvb[x]>>
    ELSE <<solved["backward"][x[2]], {<<e, got["backward"][e]>> : e \in OutOf(x[2])}>>

(* Nobody writes or frees what MPI may still read: the buffer of an        *)
(* emission does not change until MPI has completed it.                    *)
SentUnchanged ==
    [][\A x \in sending \cap sending' : SentBuffer(x)' = SentBuffer(x)]_vars

(* When a process comes to the barrier at the end of a step all its column *)
(* blocks are solved, it has received all that was sent to it and closed   *)
(* its reception, its emissions are completed, its queues are empty        *)
(* (assert( computeQueue->used == 0 )), and the buffers of both kinds are  *)
(* freed (assert( rhsb->cblkb[i] == NULL )).                               *)
StepCleanExit ==
    \A p \in Procs : phase[p] = "barrier" =>
        /\ \A c \in Cblks : Own[c] = p => solved[step[p]][c] = 1
        /\ recvreq[p] = "freed" /\ incoming[p] = 0
        /\ \A q \in Procs : \A m \in Range(net[<<q, p>>]) : \A d \in m.data : d[1] # step[p]
        /\ \A t \in ThreadsOf(p) : queue[t] = {}
        /\ \A x \in FanInsOf(p) : faninb[x] = <<>> /\ (Forward(Own[x[2]]) => x \notin sending)
        /\ \A x \in RecvsOf(p)  : recvb[x] = <<>> /\ (Backward(p) => x \notin sending)

(* Both steps of the solve end on all the processes.                       *)
SolveTerminates == <>(\A p \in Procs : Ended(p))
=============================================================================
