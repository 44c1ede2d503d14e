--------------------------- MODULE DistScheduler ---------------------------
(***************************************************************************)
(* The two schedulers of PaStiX on several MPI processes: the loops of     *)
(* thread_*_static and thread_*_dynamic.                                   *)
(*                                                                         *)
(* With the static scheduler each thread computes the column blocks of its *)
(* list in order, and makes the communications progress while the next one *)
(* waits for contributions.  With the dynamic scheduler a column block is  *)
(* queued when its last contribution arrives; a thread whose queue is      *)
(* empty makes the communications progress, then steals.                   *)
(*                                                                         *)
(* Atomic steps: those of CommEngine, the reading of a counter, one access *)
(* to the queues.  A decrement to zero is one step with the push that      *)
(* follows, and a walk of stealQueue over the queues is one step:          *)
(* DynamicLoop takes them apart.                                           *)
(***************************************************************************)
EXTENDS CommEngine

CONSTANT Dynamic    \* PastixSchedDynamic, or PastixSchedStatic

ASSUME SchedAssumption == Dynamic \in BOOLEAN

VARIABLES
    ctrbcnt,    \* cblk->ctrbcnt, of the fan-ins too
    pos,        \* static: the position of each thread in its list
    queue,      \* dynamic: computeQueue of each thread
    taskcnt,    \* dynamic: arg->taskcnt of each process
    done,       \* dynamic: local_taskcnt of each thread
    cur         \* the column block a thread computes

schedVars == <<ctrbcnt, pos, queue, taskcnt, done, cur>>

SchedInit ==
    /\ EngineInit
    /\ pc      = [t \in Threads |-> "idle"]
    /\ ctrbcnt = [x \in Local |-> 0]
    /\ pos     = [t \in Threads |-> 1]
    /\ queue   = [t \in Threads |-> {}]
    /\ taskcnt = [p \in Procs |-> 0]
    /\ done    = [t \in Threads |-> 0]
    /\ cur     = [t \in Threads |-> NoIdx]

(* Where a thread goes on once it made the communications progress.        *)
Back == IF Dynamic THEN "popAgain" ELSE "wait"

(* static: the loop of a thread over its list.                             *)
Fetch(t, i) == IF i <= Len(Order[t]) THEN "wait" ELSE "end"

(* dynamic: the column blocks of cblktab from rank * cblknbr / thrd_size.  *)
InSlice(t, x) ==
    LET p    == ProcOf(t)
        size == SolvCblkNbr(p) \div ThreadNbr[p]
        num  == CblkNum(p, x)
    IN  /\ num >= size * t[2]
        /\ t[2] < ThreadNbr[p] - 1 => num < size * (t[2] + 1)

(* The threads of a process set the counters, and the dynamic scheduler    *)
(* queues the column blocks that wait for nothing; until the barrier that  *)
(* ends this no thread looks at what another one has set.                  *)
StartThreads(p, ctrb, first, cnt) ==
    /\ ctrbcnt' = [x \in Local |-> IF x[1] = p THEN ctrb[x] ELSE ctrbcnt[x]]
    /\ pos'     = [t \in Threads |-> IF ProcOf(t) = p THEN 1 ELSE pos[t]]
    /\ queue'   = [t \in Threads |-> IF Dynamic /\ ProcOf(t) = p THEN first[t] ELSE queue[t]]
    /\ taskcnt' = [taskcnt EXCEPT ![p] = IF Dynamic THEN cnt ELSE 0]
    /\ done'    = [t \in Threads |-> IF ProcOf(t) = p THEN 0 ELSE done[t]]
    /\ pc'      = [t \in Threads |->
                      IF ProcOf(t) # p THEN pc[t] ELSE IF Dynamic THEN "pop" ELSE Fetch(t, 1)]
    /\ UNCHANGED cur

-----------------------------------------------------------------------------
(* The thread has the column block x to compute; list is its list of tasks. *)

(* static: nothing waits any more.                                         *)
TakeNext(t, x, list) ==
    /\ pc[t] = "wait" /\ x = <<ProcOf(t), list[pos[t]]>>
    /\ ctrbcnt[x] <= 0
    /\ UNCHANGED queue

(* dynamic: the column block comes from its queue.                         *)
PopOwn(t, x) ==
    /\ pc[t] \in {"pop", "popAgain"} /\ (pc[t] = "pop" => taskcnt[ProcOf(t)] > 0)
    /\ x \in queue[t]
    /\ queue' = [queue EXCEPT ![t] = @ \ {x}]

(* dynamic: from the queue of another thread, in stealQueue.               *)
Steal(t, x) ==
    /\ pc[t] = "steal"
    /\ \E u \in ThreadsOf(ProcOf(t)) \ {t} :
          x \in queue[u] /\ queue' = [queue EXCEPT ![u] = @ \ {x}]

TakeTask(t, x, list) ==
    /\ (TakeNext(t, x, list) \/ PopOwn(t, x) \/ Steal(t, x))
    /\ cur' = [cur EXCEPT ![t] = x]
    /\ UNCHANGED <<engineVars, ctrbcnt, pos, taskcnt, done>>

(* It has computed it.                                                     *)
EndTask(t) ==
    /\ \/ /\ Dynamic
          /\ done' = [done EXCEPT ![t] = @ + 1]
          /\ Goto(t, "pop")
          /\ UNCHANGED pos
       \/ /\ ~ Dynamic
          /\ pos' = [pos EXCEPT ![t] = @ + 1]
          /\ Goto(t, Fetch(t, pos[t] + 1))
          /\ UNCHANGED done
    /\ UNCHANGED <<ctrbcnt, queue, taskcnt, cur>>

(* static: the next column block still waits.                              *)
Wait(t, list) ==
    /\ pc[t] = "wait" /\ ctrbcnt[<<ProcOf(t), list[pos[t]]>>] > 0
    /\ Goto(t, "elect")
    /\ UNCHANGED <<engineVars, schedVars>>

(* Mutant: a thread whose queue is empty steals at once.                   *)
PopOnce(t) ==
    /\ pc[t] = "pop"
    /\ \/ /\ taskcnt[ProcOf(t)] <= 0
          /\ Goto(t, "end")
       \/ /\ taskcnt[ProcOf(t)] > 0 /\ queue[t] = {}
          /\ Goto(t, "popAgain")
    /\ UNCHANGED <<engineVars, schedVars>>

(* dynamic: the end of the loop, or nothing in the queue.                  *)
PopNothing(t) ==
    /\ pc[t] = "pop"
    /\ \/ /\ taskcnt[ProcOf(t)] <= 0
          /\ Goto(t, "end")
       \/ /\ taskcnt[ProcOf(t)] > 0 /\ queue[t] = {}
          /\ Goto(t, "elect")
    /\ UNCHANGED <<engineVars, schedVars>>

(* dynamic: still nothing; the tasks done are taken off taskcnt.           *)
Flush(t) ==
    /\ pc[t] = "popAgain" /\ queue[t] = {}
    /\ taskcnt' = [taskcnt EXCEPT ![ProcOf(t)] = @ - done[t]]
    /\ done'    = [done EXCEPT ![t] = 0]
    /\ Goto(t, "steal")
    /\ UNCHANGED <<engineVars, ctrbcnt, pos, queue, cur>>

(* dynamic: nothing to steal.                                              *)
StealNothing(t) ==
    /\ pc[t] = "steal" /\ \A u \in ThreadsOf(ProcOf(t)) \ {t} : queue[u] = {}
    /\ Goto(t, "pop")
    /\ UNCHANGED <<engineVars, schedVars>>

Idle(t, list) == Wait(t, list) \/ PopNothing(t) \/ Flush(t) \/ StealNothing(t)

-----------------------------------------------------------------------------
(* A contribution to x was applied; dynamic: the last one queues x in the  *)
(* queue of thread u.                                                      *)
Contributed(x, u) ==
    /\ ctrbcnt' = [ctrbcnt EXCEPT ![x] = @ - 1]
    /\ queue' = IF Dynamic /\ ctrbcnt[x] = 1 THEN [queue EXCEPT ![u] = @ \cup {x}] ELSE queue

(* The same when it waits in a reception, under the identifier left in     *)
(* threadid by whatever thread handled the column block before.            *)
ContributedByMessage(x) == \E u \in ThreadsOf(x[1]) : Contributed(x, u)

(* isched_parallel_call returns in a process.                              *)
ThreadsEnded(p) == \A t \in ThreadsOf(p) : pc[t] = "end"

SchedTypeOK ==
    /\ ctrbcnt \in [Local -> Nat]
    /\ \A t \in Threads : pos[t] \in 1 .. Len(Order[t]) + 1
    /\ queue   \in [Threads -> SUBSET Local]
    /\ taskcnt \in [Procs -> Nat]
    /\ done    \in [Threads -> Nat]
    /\ cur     \in [Threads -> Local \cup {NoIdx}]
=============================================================================
