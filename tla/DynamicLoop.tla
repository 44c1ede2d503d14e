---------------------------- MODULE DynamicLoop ----------------------------
(***************************************************************************)
(* The dynamic scheduler of the numerical phases: the body shared by       *)
(* thread_zpotrf_dynamic (sopalin/sequential_zpotrf.c and its LU, LDLt,    *)
(* LDLh and LLt-complex copies) and by both halves of thread_ztrsm_dynamic *)
(* (sopalin/sequential_ztrsm.c).                                           *)
(*                                                                         *)
(* Each thread owns a queue of ready column blocks.  It computes what it   *)
(* pops; each contribution it applies decrements an atomic counter of the  *)
(* column block it updates, and whoever brings that counter to zero pushes *)
(* the column block.  A thread that runs dry first takes the tasks it did  *)
(* off the shared taskcnt, then steals; everyone leaves when taskcnt says  *)
(* that nothing is left.                                                   *)
(*                                                                         *)
(* Atomic steps: one queue operation (each takes the lock of the queue),   *)
(* one atomic decrement or subtraction, one update of a column block (done *)
(* under its lock), one read of taskcnt, one barrier.                      *)
(***************************************************************************)
EXTENDS Integers, FiniteSets

CONSTANTS
    ThreadNbr,  \* world_size of the internal scheduler
    Cblks,      \* the local column blocks
    Skipped,    \* column blocks that are dropped, not computed, when popped
    Edges,      \* contributions; a task applies its own in increasing order
    Src, Dst,   \* the column blocks they come from and go to
    Ctrb,       \* initial ctrbcnt of each column block
    Key,        \* key of each column block in the queues (lowest first)
    Owner,      \* the thread that queues the column block if it is ready at start
    TaskCnt,    \* initial value of taskcnt
    NoCblk      \* no column block

Ranks == 0 .. ThreadNbr - 1
Tasks == Cblks \ Skipped
Into(c)   == {e \in Edges : Dst[e] = c}
OutOf(c)  == {e \in Edges : Src[e] = c}

ASSUME LoopAssumption ==
    /\ ThreadNbr \in Nat \ {0} /\ TaskCnt \in Int
    /\ IsFiniteSet(Cblks) /\ NoCblk \notin Cblks
    /\ Edges \subseteq Int /\ IsFiniteSet(Edges)
    /\ Src \in [Edges -> Tasks] /\ Dst \in [Edges -> Cblks]
    /\ Ctrb \in [Cblks -> Nat] /\ Owner \in [Cblks -> Ranks] /\ Key \in [Cblks -> Int]

(* The counter of a column block that is computed counts exactly the       *)
(* contributions that will be applied to it.  A column block of the Schur  *)
(* complement may wait for contributions that never come.                  *)
ASSUME CounterAssumption ==
    /\ \A c \in Tasks   : Ctrb[c] = Cardinality(Into(c))
    /\ \A c \in Skipped : Ctrb[c] >= Cardinality(Into(c))

VARIABLES
    pc,         \* where each thread stands in thread_*_dynamic
    queue,      \* datacode->computeQueue: the column blocks queued by rank
    ctrbcnt,    \* cblk->ctrbcnt
    threadid,   \* cblk->threadid
    taskcnt,    \* arg->taskcnt, shared by the threads
    done,       \* local_taskcnt of each thread
    cur,        \* the column block each thread holds
    todo,       \* contributions of cur not applied yet, cur's loop over its blocks
    victim,     \* the rank a thread is stealing from
    fresh,      \* history: the column blocks local_taskcnt stands for
    runs,       \* history: computations of each column block
    applied     \* history: applications of each contribution

vars == <<pc, queue, ctrbcnt, threadid, taskcnt, done, cur, todo, victim, fresh, runs, applied>>

Init ==
    /\ pc       = [t \in Ranks |-> "init"]
    /\ queue    = [t \in Ranks |-> {}]
    /\ ctrbcnt  = Ctrb
    /\ threadid = [c \in Cblks |-> 0]
    /\ taskcnt  = TaskCnt
    /\ done     = [t \in Ranks |-> 0]
    /\ cur      = [t \in Ranks |-> NoCblk]
    /\ todo     = [t \in Ranks |-> {}]
    /\ victim   = [t \in Ranks |-> t]
    /\ fresh    = [t \in Ranks |-> {}]
    /\ runs     = [c \in Cblks |-> 0]
    /\ applied  = [e \in Edges |-> 0]

Goto(t, label) == pc' = [pc EXCEPT ![t] = label]

(* Mutant: the counters are not tested before the column blocks are queued. *)
FillQueueAll(t) ==
    /\ pc[t] = "init"
    /\ queue' = [queue EXCEPT ![t] = {c \in Cblks : Owner[c] = t}]
    /\ Goto(t, "startBarrier")
    /\ UNCHANGED <<ctrbcnt, threadid, taskcnt, done, cur, todo, victim, fresh, runs, applied>>

(* Each thread fills its own queue with the column blocks it owns that     *)
(* wait for nothing.  No other thread looks at it before the barrier.      *)
FillQueue(t) ==
    /\ pc[t] = "init"
    /\ queue' = [queue EXCEPT ![t] = {c \in Cblks : Owner[c] = t /\ Ctrb[c] = 0}]
    /\ Goto(t, "startBarrier")
    /\ UNCHANGED <<ctrbcnt, threadid, taskcnt, done, cur, todo, victim, fresh, runs, applied>>

(* isched_barrier_wait: all the queues are allocated.                      *)
Start ==
    /\ \A t \in Ranks : pc[t] = "startBarrier"
    /\ pc' = [t \in Ranks |-> "loop"]
    /\ UNCHANGED <<queue, ctrbcnt, threadid, taskcnt, done, cur, todo, victim, fresh, runs, applied>>

(* while( arg->taskcnt > 0 )                                               *)
TestTaskCnt(t) ==
    /\ pc[t] = "loop"
    /\ Goto(t, IF taskcnt > 0 THEN "pop" ELSE "endBarrier")
    /\ UNCHANGED <<queue, ctrbcnt, threadid, taskcnt, done, cur, todo, victim, fresh, runs, applied>>

(* A column block of lowest key among those in q.                          *)
IsFirst(c, q) == c \in q /\ \A d \in q : Key[c] <= Key[d]

(* pqueuePop on the queue of rank q, by thread t, succeeds.                *)
Take(t, q) ==
    /\ \E c \in Cblks :
          /\ IsFirst(c, queue[q])
          /\ cur'   = [cur EXCEPT ![t] = c]
          /\ queue' = [queue EXCEPT ![q] = @ \ {c}]
    /\ Goto(t, "got")

(* A thread pops its own queue.                                            *)
Pop(t) ==
    /\ pc[t] = "pop"
    /\ \/ /\ queue[t] # {}
          /\ Take(t, t)
       \/ /\ queue[t] = {}
          /\ Goto(t, "flush")
          /\ UNCHANGED <<queue, cur>>
    /\ UNCHANGED <<ctrbcnt, threadid, taskcnt, done, todo, victim, fresh, runs, applied>>

(* Mutant: the local count is not reset after it was flushed.              *)
FlushNoReset(t) ==
    /\ pc[t] = "flush"
    /\ taskcnt' = taskcnt - done[t]
    /\ victim'  = [victim EXCEPT ![t] = (t + 1) % ThreadNbr]
    /\ Goto(t, "steal")
    /\ UNCHANGED <<queue, ctrbcnt, threadid, done, cur, todo, fresh, runs, applied>>

(* Mutant: the local count is reset before it is taken off taskcnt.        *)
FlushSwapped(t) ==
    /\ pc[t] = "flush"
    /\ done'    = [done EXCEPT ![t] = 0]
    /\ fresh'   = [fresh EXCEPT ![t] = {}]
    /\ victim'  = [victim EXCEPT ![t] = (t + 1) % ThreadNbr]
    /\ Goto(t, "steal")
    /\ UNCHANGED <<queue, ctrbcnt, threadid, taskcnt, cur, todo, runs, applied>>

(* pastix_atomic_sub_32b of the tasks done since the last time, and the    *)
(* beginning of stealQueue.                                                *)
Flush(t) ==
    /\ pc[t] = "flush"
    /\ taskcnt' = taskcnt - done[t]
    /\ done'    = [done EXCEPT ![t] = 0]
    /\ fresh'   = [fresh EXCEPT ![t] = {}]
    /\ victim'  = [victim EXCEPT ![t] = (t + 1) % ThreadNbr]
    /\ Goto(t, "steal")
    /\ UNCHANGED <<queue, ctrbcnt, threadid, cur, todo, runs, applied>>

(* stealQueue: one round over the queues of the other ranks.               *)
Steal(t) ==
    /\ pc[t] = "steal"
    /\ \/ /\ victim[t] # t /\ queue[victim[t]] # {}
          /\ Take(t, victim[t])
          /\ UNCHANGED victim
       \/ /\ victim[t] # t /\ queue[victim[t]] = {}
          /\ victim' = [victim EXCEPT ![t] = (victim[t] + 1) % ThreadNbr]
          /\ UNCHANGED <<pc, queue, cur>>
       \/ /\ victim[t] = t
          /\ Goto(t, "loop")
          /\ UNCHANGED <<queue, cur, victim>>
    /\ UNCHANGED <<ctrbcnt, threadid, taskcnt, done, todo, fresh, runs, applied>>

(* A column block of the Schur complement is dropped, and not counted.     *)
(* (thread_ztrsm_dynamic sets its threadid first: nobody reads it.)        *)
Skip(t) ==
    /\ pc[t] = "got" /\ cur[t] \in Skipped
    /\ cur' = [cur EXCEPT ![t] = NoCblk]
    /\ Goto(t, "loop")
    /\ UNCHANGED <<queue, ctrbcnt, threadid, taskcnt, done, todo, victim, fresh, runs, applied>>

(* The computation of the column block itself (the panel, or the solve     *)
(* with its diagonal block).                                               *)
Compute(t) ==
    /\ pc[t] = "got" /\ cur[t] \in Tasks
    /\ threadid' = [threadid EXCEPT ![cur[t]] = t]
    /\ runs'     = [runs EXCEPT ![cur[t]] = @ + 1]
    /\ todo'     = [todo EXCEPT ![t] = OutOf(cur[t])]
    /\ Goto(t, "update")
    /\ UNCHANGED <<queue, ctrbcnt, taskcnt, done, cur, victim, fresh, applied>>

(* The contribution a thread is at: the first one not released yet.        *)
IsNext(e, t) == e \in todo[t] /\ \A f \in todo[t] : e <= f

(* Mutant: the dependency is released before the contribution is applied.  *)
UpdateEarly(t) ==
    /\ pc[t] = "update" /\ todo[t] # {}
    /\ Goto(t, "release")
    /\ UNCHANGED <<queue, ctrbcnt, threadid, taskcnt, done, cur, todo, victim, fresh, runs, applied>>

(* The update of the facing column block, under its lock.                  *)
Update(t) ==
    /\ pc[t] = "update"
    /\ \E e \in Edges :
          /\ IsNext(e, t)
          /\ applied' = [applied EXCEPT ![e] = @ + 1]
    /\ Goto(t, "release")
    /\ UNCHANGED <<queue, ctrbcnt, threadid, taskcnt, done, cur, todo, victim, fresh, runs>>

(* Mutant: everyone that sees the counter at zero or one pushes.           *)
ReleaseTwice(t) ==
    /\ pc[t] = "release"
    /\ \E e \in Edges :
          /\ IsNext(e, t)
          /\ ctrbcnt' = [ctrbcnt EXCEPT ![Dst[e]] = @ - 1]
          /\ IF ctrbcnt'[Dst[e]] <= 1
             THEN Goto(t, "push") /\ UNCHANGED todo
             ELSE Goto(t, "update") /\ todo' = [todo EXCEPT ![t] = @ \ {e}]
    /\ UNCHANGED <<queue, threadid, taskcnt, done, cur, victim, fresh, runs, applied>>

(* cpucblk_zrelease_deps: the atomic decrement.                            *)
Release(t) ==
    /\ pc[t] = "release"
    /\ \E e \in Edges :
          /\ IsNext(e, t)
          /\ ctrbcnt' = [ctrbcnt EXCEPT ![Dst[e]] = @ - 1]
          /\ IF ctrbcnt'[Dst[e]] = 0
             THEN Goto(t, "push") /\ UNCHANGED todo
             ELSE Goto(t, "update") /\ todo' = [todo EXCEPT ![t] = @ \ {e}]
    /\ UNCHANGED <<queue, threadid, taskcnt, done, cur, victim, fresh, runs, applied>>

(* cpucblk_zrelease_deps: pqueuePush1 on the queue of the thread that      *)
(* computed the contributing column block.                                 *)
Push(t) ==
    /\ pc[t] = "push"
    /\ \E e \in Edges :
          /\ IsNext(e, t)
          /\ queue' = [queue EXCEPT ![threadid[cur[t]]] = @ \cup {Dst[e]}]
          /\ todo'  = [todo EXCEPT ![t] = @ \ {e}]
    /\ Goto(t, "update")
    /\ UNCHANGED <<ctrbcnt, threadid, taskcnt, done, cur, victim, fresh, runs, applied>>

(* local_taskcnt++ when all the contributions were applied.                *)
Count(t) ==
    /\ pc[t] = "update" /\ todo[t] = {}
    /\ done'  = [done EXCEPT ![t] = @ + 1]
    /\ fresh' = [fresh EXCEPT ![t] = @ \cup {cur[t]}]
    /\ cur'   = [cur EXCEPT ![t] = NoCblk]
    /\ Goto(t, "loop")
    /\ UNCHANGED <<queue, ctrbcnt, threadid, taskcnt, todo, victim, runs, applied>>

(* Mutant: the threads free their queue without waiting for the others.    *)
EndAlone ==
    /\ \E t \in Ranks : pc[t] = "endBarrier" /\ Goto(t, "exit")
    /\ UNCHANGED <<queue, ctrbcnt, threadid, taskcnt, done, cur, todo, victim, fresh, runs, applied>>

(* isched_barrier_wait: everyone is done before the queues are freed.      *)
End ==
    /\ \A t \in Ranks : pc[t] = "endBarrier"
    /\ pc' = [t \in Ranks |-> "exit"]
    /\ UNCHANGED <<queue, ctrbcnt, threadid, taskcnt, done, cur, todo, victim, fresh, runs, applied>>

Step(t) ==
    \/ FillQueue(t) \/ TestTaskCnt(t) \/ Pop(t) \/ Flush(t) \/ Steal(t) \/ Skip(t)
    \/ Compute(t) \/ Update(t) \/ Release(t) \/ Push(t) \/ Count(t)

Finished == (\A t \in Ranks : pc[t] = "exit") /\ UNCHANGED vars

Next == Start \/ End \/ (\E t \in Ranks : Step(t)) \/ Finished

(* The operating system runs every thread.  The barriers are those of      *)
(* Isched, which let everyone through when everyone arrived.               *)
Fairness == WF_vars(Start) /\ WF_vars(End) /\ \A t \in Ranks : WF_vars(Step(t))

LoopSpec == Init /\ [][Next]_vars
Spec == LoopSpec /\ Fairness

-----------------------------------------------------------------------------
(* Every variable keeps its type; in particular no counter of dependencies *)
(* goes below zero.                                                        *)
TypeOK ==
    /\ pc \in [Ranks -> {"init", "startBarrier", "loop", "pop", "flush", "steal", "got",
                         "update", "release", "push", "endBarrier", "exit"}]
    /\ queue    \in [Ranks -> SUBSET Cblks]
    /\ ctrbcnt  \in [Cblks -> Nat]
    /\ threadid \in [Cblks -> Ranks]
    /\ taskcnt  \in Int
    /\ done     \in [Ranks -> Nat]
    /\ cur      \in [Ranks -> Cblks \cup {NoCblk}]
    /\ todo     \in [Ranks -> SUBSET Edges]
    /\ victim   \in [Ranks -> Ranks]
    /\ fresh    \in [Ranks -> SUBSET Cblks]
    /\ runs     \in [Cblks -> Nat]
    /\ applied  \in [Edges -> Nat]

(* Thread t brought the counter of c to zero and has not pushed it yet.    *)
Pushes(t, c) == pc[t] = "push" /\ \E e \in Edges : IsNext(e, t) /\ Dst[e] = c

(* A column block is in one place at most: one queue, or one thread that   *)
(* holds it, or one thread about to push it.  It is never pushed twice nor *)
(* given to two threads, whoever steals from whom.                         *)
OnePlace ==
    \A c \in Cblks : \A t, u \in Ranks :
        /\ c \in queue[t] /\ c \in queue[u] => t = u
        /\ cur[t] = c /\ cur[u] = c => t = u
        /\ Pushes(t, c) /\ Pushes(u, c) => t = u
        /\ ~ (c \in queue[t] /\ cur[u] = c)
        /\ ~ (c \in queue[t] /\ Pushes(u, c))
        /\ ~ (cur[t] = c /\ Pushes(u, c))

(* A column block is computed when every contribution has been applied to  *)
(* it, and from then on its counter stays at zero: nobody updates a column *)
(* block that was computed.                                                *)
ComputedAfterAll ==
    \A c \in Cblks : runs[c] > 0 =>
        /\ runs[c] = 1 /\ ctrbcnt[c] = 0
        /\ \A e \in Into(c) : applied[e] = 1

(* taskcnt never claims that the work is over while a column block is not  *)
(* computed or a contribution not applied.                                 *)
StopsWhenDone ==
    taskcnt <= 0 =>
        /\ \A c \in Tasks : runs[c] = 1
        /\ \A e \in Edges : applied[e] = 1

(* stealQueue looks only at queues that are allocated: not before they are *)
(* all initialised, not after their owner freed them.                      *)
StealsLiveQueues ==
    \A t \in Ranks : pc[t] = "steal" => pc[victim[t]] \notin {"init", "startBarrier", "exit"}

(* assert( computeQueue->used == 0 ) at the end of thread_ztrsm_dynamic.   *)
QueuesEmptyAtExit ==
    \A t \in Ranks : pc[t] = "exit" => queue[t] = {}

(* The threads compute the graph of tasks and nothing else; with the       *)
(* fairness of the threads they compute all of it.                         *)
D == INSTANCE TaskDag
ImplementsTaskDag == D!DagSpec

(* The parallel phase ends.                                                *)
LoopTerminates == <>(\A t \in Ranks : pc[t] = "exit")
=============================================================================
