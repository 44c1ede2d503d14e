----------------------------- MODULE DistFacto -----------------------------
(***************************************************************************)
(* The factorization distributed over several MPI processes, with the      *)
(* static scheduler: thread_zpotrf_static and cpucblk_zpotrfsp1d, and the  *)
(* communication engine of kernels/cpucblk_zmpi_coeftab.c that they call.  *)
(*                                                                         *)
(* A process sums up its contributions to a remote column block in a local *)
(* fan-in, sent when the last one is added.  The owner has one persistent  *)
(* reception open, from any source and of any tag, into a single buffer.   *)
(* The emissions in progress and the reception share the table reqtab.     *)
(* Any thread that waits for a column block may make the communications    *)
(* progress, one thread of the process at a time (pastix_comm_tid); the    *)
(* others go on computing, and post emissions meanwhile.                   *)
(* The branches of DistScheduler for the dynamic scheduler are checked by  *)
(* the solves only: here every thread follows its list.                    *)
(*                                                                         *)
(* Atomic steps: those of CommEngine, one atomic decrement, one update     *)
(* under the lock of the column block.                                     *)
(***************************************************************************)
EXTENDS DistScheduler

ASSUME StaticAssumption == ~ Dynamic

(* Mutant: no entry is kept for the reception.                             *)
ReqNbrNoRecv(p) == FaninNbr(p)

(* One entry for each emission, and one for the reception.                 *)
ReqNbr(p) == FaninNbr(p) + 1

VARIABLES
    todo,       \* the contributions of a thread's task not released yet
    runs,       \* history: computations of each column block
    got,        \* how many times a contribution was added to its target
    fanin,      \* lcoeftab of the fan-ins: <<>> (NULL) or <<contributions>>
    phase       \* where each process stands in sopalin_zpotrf

factoVars == <<todo, runs, got, fanin, phase>>
vars == <<pc, engineVars, schedVars, factoVars>>

Init ==
    /\ SchedInit
    /\ todo  = [t \in Threads |-> {}]
    /\ runs  = [c \in Cblks |-> 0]
    /\ got   = [e \in Edges |-> 0]
    /\ fanin = [x \in FanIns |-> <<>>]
    /\ phase = [p \in Procs |-> "start"]

(* dynamic: each thread queues, from its list, what waits for nothing.     *)
FirstTasks(t) == {<<ProcOf(t), c>> : c \in {d \in Range(Order[t]) : BrowNbr(<<ProcOf(t), d>>) = 0}}

(* The tasks of a process: tasknbr.                                        *)
TaskNbr(p) == Cardinality({c \in Cblks : Own[c] = p})

(* solverRequestInit and solverRecvInit, then isched_parallel_call.        *)
Start(p) ==
    /\ phase[p] = "start"
    /\ OpenRequests(p, RecvNbr(p), FaninNbr(p))
    /\ StartThreads(p, [x \in Local |-> BrowNbr(x)], [t \in Threads |-> FirstTasks(t)], TaskNbr(p))
    /\ phase' = [phase EXCEPT ![p] = "tasks"]
    /\ UNCHANGED <<todo, runs, got, fanin>>

-----------------------------------------------------------------------------
(* The tasks of a thread: cpucblk_zpotrfsp1d.                              *)

Compute(t) ==
    /\ \E x \in Local :
          /\ TakeTask(t, x, Order[t])
          /\ runs' = [runs EXCEPT ![x[2]] = @ + 1]
          /\ todo' = [todo EXCEPT ![t] = OutOf(x[2])]
    /\ Goto(t, "update")
    /\ UNCHANGED <<got, fanin, phase>>

(* The contribution a thread is at, and the column block it goes to: that  *)
(* of the process, or its fan-in.                                          *)
NextEdge(t) == Min(todo[t])
Target(t) == <<ProcOf(t), Dst[NextEdge(t)]>>

(* cpucblk_zalloc: the first thread that contributes allocates the fan-in, *)
(* under its lock.                                                         *)
Alloc(t) ==
    /\ pc[t] = "update" /\ todo[t] # {} /\ Target(t) \in FanIns
    /\ fanin' = [fanin EXCEPT ![Target(t)] = IF @ = <<>> THEN <<{}>> ELSE @]
    /\ Goto(t, "gemm")
    /\ UNCHANGED <<engineVars, schedVars, todo, runs, got, phase>>

(* cpucblk_zgemmsp into the column block or into the fan-in.               *)
Update(t) ==
    /\ \/ /\ pc[t] = "gemm"
          /\ fanin' = [fanin EXCEPT ![Target(t)] = <<@[1] \cup {NextEdge(t)}>>]
          /\ UNCHANGED got
       \/ /\ pc[t] = "update" /\ todo[t] # {} /\ Target(t) \notin FanIns
          /\ got' = [got EXCEPT ![NextEdge(t)] = @ + 1]
          /\ UNCHANGED fanin
    /\ Goto(t, "release")
    /\ UNCHANGED <<engineVars, schedVars, todo, runs, phase>>

(* cpucblk_zrelease_deps: the last contribution to a fan-in sends it.      *)
Release(t) ==
    /\ pc[t] = "release"
    /\ \/ /\ Target(t) \in FanIns /\ ctrbcnt[Target(t)] = 1
          /\ ctrbcnt' = [ctrbcnt EXCEPT ![Target(t)] = 0]
          /\ Goto(t, "isend")
          /\ UNCHANGED <<todo, queue>>
       \/ /\ ~ (Target(t) \in FanIns /\ ctrbcnt[Target(t)] = 1)
          /\ Contributed(Target(t), t)
          /\ todo' = [todo EXCEPT ![t] = @ \ {NextEdge(t)}]
          /\ Goto(t, "update")
    /\ UNCHANGED <<engineVars, pos, taskcnt, done, cur, runs, got, fanin, phase>>

(* cpucblk_zisend: MPI_Isend of the fan-in to its owner.                   *)
SendFanin(t) ==
    /\ pc[t] = "isend"
    /\ Isend(t, Target(t), Own[Dst[NextEdge(t)]], Dst[NextEdge(t)], fanin[Target(t)][1])
    /\ Goto(t, "register")
    /\ UNCHANGED <<schedVars, factoVars>>

(* cpucblk_zisend: the request is registered.                              *)
RegisterFanin(t) ==
    /\ pc[t] = "register"
    /\ Register(t)
    /\ todo' = [todo EXCEPT ![t] = @ \ {NextEdge(t)}]
    /\ Goto(t, "update")
    /\ UNCHANGED <<schedVars, runs, got, fanin, phase>>

(* All the contributions of the task were applied.                         *)
NextTask(t) ==
    /\ pc[t] = "update" /\ todo[t] = {}
    /\ EndTask(t)
    /\ UNCHANGED <<engineVars, factoVars>>

-----------------------------------------------------------------------------
(* What cpucblk_zmpi_progress does with the messages.                      *)

(* cpucblk_zrequest_handle: a message was received.                        *)
HandleRecv(t) == TakeMessage(t) /\ Goto(t, "add") /\ UNCHANGED <<schedVars, factoVars>>

(* Mutant: the message is read from the buffer that was opened again.      *)
AddFromBuffer(t) ==
    /\ pc[t] = "add"
    /\ got' = [e \in Edges |-> got[e] + IF e \in rcoeftab[ProcOf(t)].data THEN 1 ELSE 0]
    /\ Goto(t, "dec")
    /\ UNCHANGED <<engineVars, schedVars, todo, runs, fanin, phase>>

(* cpucblk_zrequest_handle_recv: the fan-in is added to the column block.  *)
Add(t) ==
    /\ pc[t] = "add"
    /\ got' = [e \in Edges |-> got[e] + IF e \in held[t].data THEN 1 ELSE 0]
    /\ Goto(t, "dec")
    /\ UNCHANGED <<engineVars, schedVars, todo, runs, fanin, phase>>

(* cpucblk_zrequest_handle_recv: and its dependency released.              *)
Dec(t) ==
    /\ pc[t] = "dec"
    /\ ContributedByMessage(<<ProcOf(t), held[t].tag>>)
    /\ DropMessage(t)
    /\ UNCHANGED <<pos, taskcnt, done, cur, factoVars>>

(* cpucblk_zrequest_handle_fanin: a fan-in was sent; it is freed.          *)
HandleFanin(t) ==
    /\ TakeSent(t)
    /\ fanin' = [fanin EXCEPT ![Handled(t)] = <<>>]
    /\ UNCHANGED <<schedVars, todo, runs, got, phase>>

-----------------------------------------------------------------------------
(* The end of sopalin_zpotrf.                                              *)

(* isched_parallel_call returns in a process.                              *)
EndTasks(p) ==
    /\ phase[p] = "tasks" /\ ThreadsEnded(p)
    /\ phase' = [phase EXCEPT ![p] = "cleanup"]
    /\ UNCHANGED <<pc, engineVars, schedVars, todo, runs, got, fanin>>

(* cpucblk_zrequest_cleanup: the emissions that are left.                  *)
Cleanup(p) ==
    /\ phase[p] = "cleanup"
    /\ WaitSent(p)
    /\ fanin' = [fanin EXCEPT ![Head(reqtab[p]).idx] = <<>>]
    /\ UNCHANGED <<pc, schedVars, todo, runs, got, phase>>

(* Mutant: nothing waits for the emissions that are left.                  *)
ExitAtOnce(p) ==
    /\ phase[p] = "cleanup"
    /\ phase' = [phase EXCEPT ![p] = "exit"]
    /\ UNCHANGED <<pc, engineVars, schedVars, todo, runs, got, fanin>>

(* solverRequestExit and solverRecvExit.                                   *)
Exit(p) ==
    /\ phase[p] = "cleanup" /\ reqtab[p] = <<>>
    /\ phase' = [phase EXCEPT ![p] = "exit"]
    /\ UNCHANGED <<pc, engineVars, schedVars, todo, runs, got, fanin>>

Finished == (\A p \in Procs : phase[p] = "exit") /\ UNCHANGED vars

Work(t) ==
    \/ Idle(t, Order[t]) /\ UNCHANGED factoVars
    \/ Compute(t) \/ Alloc(t) \/ Update(t) \/ Release(t) \/ SendFanin(t) \/ RegisterFanin(t)
    \/ NextTask(t)

Communicate(t) ==
    \/ Progress(t, Back) /\ UNCHANGED <<schedVars, factoVars>>
    \/ HandleRecv(t) \/ Add(t) \/ Dec(t) \/ HandleFanin(t)

Transport ==
    /\ \/ \E p, q \in Procs : Deliver(p, q)
       \/ \E x \in FanIns : SendDone(x)
    /\ UNCHANGED <<schedVars, factoVars>>

Main(p) == Start(p) \/ EndTasks(p) \/ Cleanup(p) \/ Exit(p)

Next ==
    \/ \E t \in Threads : Work(t) \/ Communicate(t)
    \/ Transport
    \/ \E p \in Procs : Main(p)
    \/ Finished

(* Every thread runs, MPI delivers the messages for which a reception is   *)
(* open and completes the emissions that were received.                    *)
Fairness ==
    /\ \A t \in Threads : WF_vars(Work(t) \/ Communicate(t))
    /\ \A p, q \in Procs : WF_vars(Deliver(p, q) /\ UNCHANGED <<schedVars, factoVars>>)
    /\ \A x \in FanIns : WF_vars(SendDone(x) /\ Received(x) /\ UNCHANGED <<schedVars, factoVars>>)
    /\ \A p \in Procs : WF_vars(Main(p))

Spec == Init /\ [][Next]_vars /\ Fairness

-----------------------------------------------------------------------------
(* Every variable keeps its type; the table of requests keeps its size     *)
(* (assert( reqnum < reqnbr ) of cpucblk_zisend), and no counter of        *)
(* dependencies or of messages goes below zero.                            *)
TypeOK ==
    /\ EngineTypeOK([p \in Procs |-> ReqNbr(p)]) /\ SchedTypeOK
    /\ todo    \in [Threads -> SUBSET Edges]
    /\ runs    \in [Cblks -> Nat]
    /\ got     \in [Edges -> Nat]
    /\ fanin   \in [FanIns -> {<<>>} \cup {<<E>> : E \in SUBSET Edges}]
    /\ phase   \in [Procs -> {"start", "tasks", "cleanup", "exit"}]

(* A column block is computed once, after every contribution to it, from   *)
(* its process and from the others, was added to it exactly once.          *)
FactoComputedAfterAll ==
    \A c \in Cblks : runs[c] > 0 =>
        runs[c] = 1 /\ \A e \in Edges : Dst[e] = c => got[e] = 1

(* When a process leaves the factorization it has received all that was    *)
(* sent to it and closed its reception - that would otherwise take a       *)
(* message of the solve - and its fan-ins are sent and freed.              *)
FactoCleanExit ==
    \A p \in Procs : phase[p] = "exit" =>
        /\ recvreq[p] = "freed" /\ incoming[p] = 0
        /\ \A q \in Procs : net[<<q, p>>] = <<>>
        /\ \A x \in FanIns : /\ x[1] = p => x \notin sending /\ fanin[x] = <<>>
                             /\ Own[x[2]] = p => ctrbcnt[x] = 0

(* All the processes leave the factorization.                              *)
FactoTerminates == <>(\A p \in Procs : phase[p] = "exit")
=============================================================================
