------------------------------- MODULE Isched -------------------------------
(***************************************************************************)
(* The internal thread scheduler of PaStiX (common/isched.c, isched.h):    *)
(* ischedInit creates a pool of threads that wait for a status;            *)
(* isched_parallel_call makes all of them, and the calling (master) thread,*)
(* execute a function; ischedFinalize stops and joins them.                *)
(*                                                                         *)
(* The threads synchronise through the status, protected by statuslock and *)
(* announced on statuscond, and through one barrier (IschedBarrier) which  *)
(* the functions executed by the pool also use between their phases.  The  *)
(* status is reset to STAND_BY without the lock.                           *)
(***************************************************************************)
EXTENDS IschedBarrier

CONSTANTS
    Master,     \* the thread that owns the pool (rank 0)
    Workers,    \* the threads created by ischedInit
    Phases,     \* phases of the functions executed: their own barriers plus one
    MaxCalls    \* bound: number of calls of isched_parallel_call

(* Waits per thread: one at creation, Phases + 1 per call, one to stop.    *)
ASSUME PoolAssumption ==
    /\ Threads = Workers \cup {Master} /\ Master \notin Workers
    /\ MaxWaits = 2 + MaxCalls * (Phases + 1)
    /\ Phases \in Nat \ {0} /\ MaxCalls \in Nat

VARIABLES
    status,     \* isched->status
    pfunc,      \* isched->pfunc (and pargs): the number of the call it is for
    pc,         \* where each thread stands in the functions of isched.c
    action,     \* the local variable action of each thread
    job,        \* the call whose function the thread executes or executed last
    phase       \* history: phases of that function completed by the thread

poolVars == <<status, pfunc, pc, action, job, phase>>
vars     == <<barrierVars, poolVars>>

Init ==
    /\ BarrierInit
    /\ status = "STAND_BY"
    /\ pfunc  = 0
    /\ pc     = [t \in Threads |-> IF t = Master THEN "create" ELSE "none"]
    /\ action = [t \in Threads |-> "STAND_BY"]
    /\ job    = [t \in Threads |-> 0]
    /\ phase  = [t \in Threads |-> Phases]

Goto(t, label) == pc' = [pc EXCEPT ![t] = label]

-----------------------------------------------------------------------------
(* The barrier calls.  A thread stands at one of these labels while it is  *)
(* about to call isched_barrier_wait or inside it.                         *)
AtBarrier == {"init", "start", "inner", "end"}

(* Where a thread goes when isched_barrier_wait returns.                   *)
AfterBarrier(t) ==
    CASE pc[t] = "start" -> IF t = Master THEN "reset" ELSE "dispatch"
      [] pc[t] = "inner" -> "run"
      [] OTHER           -> IF t = Master THEN "idle" ELSE "check"

BarrierSleep(t) ==
    /\ pc[t] \in AtBarrier
    /\ Arrive(t) \/ Resleep(t)
    /\ UNCHANGED poolVars

BarrierReturn(t) ==
    /\ pc[t] \in AtBarrier
    /\ ArriveLast(t) \/ Leave(t)
    /\ Goto(t, AfterBarrier(t))
    /\ UNCHANGED <<status, pfunc, action, job, phase>>

-----------------------------------------------------------------------------
(* The master thread.                                                      *)

(* ischedInit creates the workers one by one, then waits for them.         *)
Create(w) ==
    /\ pc[Master] = "create" /\ pc[w] = "none"
    /\ Goto(w, "init")
    /\ UNCHANGED <<barrierVars, status, pfunc, action, job, phase>>

Created ==
    /\ pc[Master] = "create" /\ \A w \in Workers : pc[w] # "none"
    /\ Goto(Master, "init")
    /\ UNCHANGED <<barrierVars, status, pfunc, action, job, phase>>

(* isched_parallel_call: publish the function and the status, under the    *)
(* lock.                                                                   *)
Call ==
    /\ pc[Master] = "idle" /\ pfunc < MaxCalls
    /\ pfunc'  = pfunc + 1
    /\ status' = "PARALLEL"
    /\ action' = [action EXCEPT ![Master] = "PARALLEL"]
    /\ Goto(Master, "broadcast")
    /\ UNCHANGED <<barrierVars, job, phase>>

(* ischedFinalize: publish the end, under the lock.                        *)
Finalize ==
    /\ pc[Master] = "idle"
    /\ status' = "FINALIZE"
    /\ action' = [action EXCEPT ![Master] = "FINALIZE"]
    /\ Goto(Master, "broadcast")
    /\ UNCHANGED <<barrierVars, pfunc, job, phase>>

(* Mutant: pthread_cond_signal wakes one worker only.                      *)
SignalStatus ==
    /\ pc[Master] = "broadcast"
    /\ LET sleepers == {w \in Workers : pc[w] = "standby"} IN
       pc' = [t \in Threads |-> CASE t = Master -> "start"
                                [] sleepers # {} /\ t = CHOOSE w \in sleepers : TRUE -> "check"
                                [] OTHER -> pc[t]]
    /\ UNCHANGED <<barrierVars, status, pfunc, action, job, phase>>

(* Mutant: the master does not wait for the workers before it resets the   *)
(* status.                                                                 *)
BroadcastNoBarrier ==
    /\ pc[Master] = "broadcast"
    /\ pc' = [t \in Threads |-> CASE t = Master         -> "reset"
                               [] pc[t] = "standby"  -> "check"
                               [] OTHER              -> pc[t]]
    /\ UNCHANGED <<barrierVars, status, pfunc, action, job, phase>>

(* The broadcast on statuscond comes after the unlock.                     *)
BroadcastStatus ==
    /\ pc[Master] = "broadcast"
    /\ pc' = [t \in Threads |-> CASE t = Master         -> "start"
                               [] pc[t] = "standby"  -> "check"
                               [] OTHER              -> pc[t]]
    /\ UNCHANGED <<barrierVars, status, pfunc, action, job, phase>>

(* Mutant: the master leaves the status set during and after the call.     *)
NoReset ==
    /\ pc[Master] = "reset"
    /\ job'    = [job EXCEPT ![Master] = IF action[Master] = "PARALLEL" THEN pfunc ELSE @]
    /\ phase'  = [phase EXCEPT ![Master] = IF action[Master] = "PARALLEL" THEN 0 ELSE @]
    /\ Goto(Master, IF action[Master] = "PARALLEL" THEN "run" ELSE "join")
    /\ UNCHANGED <<barrierVars, status, pfunc, action>>

(* After the first barrier the master resets the status, without the lock, *)
(* and calls the function itself, or joins the threads.                    *)
Reset ==
    /\ pc[Master] = "reset"
    /\ status' = "STAND_BY"
    /\ job'    = [job EXCEPT ![Master] = IF action[Master] = "PARALLEL" THEN pfunc ELSE @]
    /\ phase'  = [phase EXCEPT ![Master] = IF action[Master] = "PARALLEL" THEN 0 ELSE @]
    /\ Goto(Master, IF action[Master] = "PARALLEL" THEN "run" ELSE "join")
    /\ UNCHANGED <<barrierVars, pfunc, action>>

(* pthread_join of every worker, then the barrier is destroyed.            *)
Join ==
    /\ pc[Master] = "join" /\ \A w \in Workers : pc[w] = "exited"
    /\ Goto(Master, "closed")
    /\ UNCHANGED <<barrierVars, status, pfunc, action, job, phase>>

-----------------------------------------------------------------------------
(* The workers: isched_parallel_section.                                   *)

(* Read the status under the lock; sleep on statuscond if there is nothing *)
(* to do.                                                                  *)
CheckStatus(w) ==
    /\ pc[w] = "check"
    /\ action' = [action EXCEPT ![w] = status]
    /\ Goto(w, IF status = "STAND_BY" THEN "standby" ELSE "start")
    /\ UNCHANGED <<barrierVars, status, pfunc, job, phase>>

(* The switch on the action, after the barrier.                            *)
Dispatch(w) ==
    /\ pc[w] = "dispatch"
    /\ \/ /\ action[w] = "PARALLEL"
          /\ job'   = [job EXCEPT ![w] = pfunc]
          /\ phase' = [phase EXCEPT ![w] = 0]
          /\ Goto(w, "run")
       \/ /\ action[w] = "FINALIZE"
          /\ Goto(w, "exited")
          /\ UNCHANGED <<job, phase>>
    /\ UNCHANGED <<barrierVars, status, pfunc, action>>

(* pthread_cond_wait returns for no reason, on either condition.           *)
Spurious(t) ==
    \/ /\ pc[t] = "standby"
       /\ Goto(t, "check")
       /\ UNCHANGED <<barrierVars, status, pfunc, action, job, phase>>
    \/ /\ SpuriousWake(t)
       /\ UNCHANGED poolVars

-----------------------------------------------------------------------------
(* One phase of the function, in any thread.  The phases are separated by  *)
(* the barriers of the function; after the last one the thread goes to the *)
(* barrier that ends the call.                                             *)
DoPhase(t) ==
    /\ pc[t] = "run"
    /\ phase' = [phase EXCEPT ![t] = @ + 1]
    /\ Goto(t, IF phase[t] + 1 < Phases THEN "inner" ELSE "end")
    /\ UNCHANGED <<barrierVars, status, pfunc, action, job>>

Closed == pc[Master] = "closed" /\ UNCHANGED vars

MasterStep == Created \/ BroadcastStatus \/ Reset \/ Join
WorkerStep(w) == Create(w) \/ CheckStatus(w) \/ Dispatch(w)
TeamStep(t) == BarrierSleep(t) \/ BarrierReturn(t) \/ DoPhase(t)

Next ==
    \/ Call \/ Finalize \/ MasterStep \/ Closed
    \/ \E w \in Workers : WorkerStep(w)
    \/ \E t \in Threads : TeamStep(t) \/ Spurious(t)

(* The operating system runs every thread and grants it the mutexes.  The  *)
(* application is not obliged to call anything: no fairness on Call and    *)
(* Finalize, nor on the wake-ups without a cause.                          *)
Fairness ==
    /\ WF_vars(MasterStep)
    /\ \A w \in Workers : WF_vars(WorkerStep(w))
    /\ \A t \in Threads : WF_vars(TeamStep(t))

Spec == Init /\ [][Next]_vars /\ Fairness

-----------------------------------------------------------------------------
(* The master writes status without statuslock only while no worker can be *)
(* between the locked read of status and the barrier: the unlocked write   *)
(* races with no read, and no worker takes the new value for a request.    *)
UnlockedWriteSafe ==
    pc[Master] = "reset" =>
        \A w \in Workers :
            /\ pc[w] \notin {"check", "standby"}
            /\ pc[w] = "start" => where[w] = "awake"

(* A parallel call is what ParallelCall says: every thread executes the    *)
(* function of this call exactly once, phase by phase, and the master      *)
(* returns when all of them are done; a call always returns.               *)
State ==
    IF pc[Master] \in {"create", "init", "idle"} THEN "idle"
    ELSE IF action[Master] = "FINALIZE" THEN "closed" ELSE "calling"

P == INSTANCE ParallelCall
        WITH Team <- Threads, calls <- pfunc, state <- State,
             done <- [t \in Threads |-> IF job[t] = pfunc THEN phase[t] ELSE 0]

ImplementsParallelCall == P!AbsSpec

(* ischedFinalize returns: every worker sees the request, exits and is     *)
(* joined.                                                                 *)
FinalizeReturns == (action[Master] = "FINALIZE") ~> (pc[Master] = "closed")
=============================================================================
