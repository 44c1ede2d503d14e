--------------------------- MODULE IschedBarrier ---------------------------
(***************************************************************************)
(* The counting barrier of PaStiX's internal thread scheduler              *)
(* (common/isched.c), used when the platform has no pthread_barrier_t.     *)
(*                                                                         *)
(* The body of isched_barrier_wait is one critical section of              *)
(* barrier->mutex, left only at pthread_cond_wait.  Its atomic steps are   *)
(* therefore: the arrival of a thread that is not the last (it counts      *)
(* itself and goes to sleep), the arrival of the last one (it opens the    *)
(* barrier and returns at once), and each wake-up (the thread owns the     *)
(* mutex again and compares generations).  POSIX allows pthread_cond_wait  *)
(* to return without a broadcast: that is the action SpuriousWake.           *)
(***************************************************************************)
EXTENDS Naturals, FiniteSets

CONSTANTS
    Threads,    \* the threads that share the barrier (world_size of them)
    GenMod,     \* number of values of the int barrier->generation
    MaxWaits    \* bound: calls of isched_barrier_wait by each thread

ASSUME ThreadsAssumption == Threads # {} /\ IsFiniteSet(Threads)
ASSUME GenModAssumption  == GenMod \in Nat /\ GenMod >= 2
ASSUME MaxWaitsAssumption == MaxWaits \in Nat

VARIABLES
    curcount,   \* barrier->curcount
    generation, \* barrier->generation
    where,      \* "out" of the barrier, "asleep" on barrier->cond, or "awake"
    saved,      \* the local variable generation of isched_barrier_wait
    entered,    \* history: calls of isched_barrier_wait begun, per thread
    left,       \* history: calls of isched_barrier_wait returned, per thread
    rounds      \* history: number of times the barrier opened

barrierVars == <<curcount, generation, where, saved, entered, left, rounds>>

(* isched_barrier_init *)
BarrierInit ==
    /\ curcount   = 0
    /\ generation = 0
    /\ where      = [t \in Threads |-> "out"]
    /\ saved      = [t \in Threads |-> 0]
    /\ entered    = [t \in Threads |-> 0]
    /\ left       = [t \in Threads |-> 0]
    /\ rounds     = 0

(* The increment of a counter of GenMod values that wraps around. *)
Successor(g) == IF g + 1 = GenMod THEN 0 ELSE g + 1

(* Mutant: pthread_cond_signal, which wakes at most one thread. *)
Signal ==
    LET sleepers == {t \in Threads : where[t] = "asleep"} IN
    IF sleepers = {} THEN where
    ELSE [where EXCEPT ![CHOOSE t \in sleepers : TRUE] = "awake"]

(* pthread_cond_broadcast *)
Broadcast == [t \in Threads |-> IF where[t] = "asleep" THEN "awake" ELSE where[t]]

(* A thread that is not the last counts itself and waits on the condition. *)
Arrive(t) ==
    /\ where[t] = "out" /\ entered[t] < MaxWaits
    /\ curcount + 1 # Cardinality(Threads)
    /\ curcount' = curcount + 1
    /\ saved'    = [saved EXCEPT ![t] = generation]
    /\ where'    = [where EXCEPT ![t] = "asleep"]
    /\ entered'  = [entered EXCEPT ![t] = @ + 1]
    /\ UNCHANGED <<generation, left, rounds>>

(* Mutant: the last thread forgets to reset the count. *)
ArriveLastNoReset(t) ==
    /\ where[t] = "out" /\ entered[t] < MaxWaits
    /\ curcount + 1 = Cardinality(Threads)
    /\ generation' = Successor(generation)
    /\ where'      = Broadcast
    /\ entered'    = [entered EXCEPT ![t] = @ + 1]
    /\ left'       = [left EXCEPT ![t] = @ + 1]
    /\ rounds'     = rounds + 1
    /\ UNCHANGED <<saved, curcount>>

(* The last thread opens the barrier, resets the count and returns. *)
ArriveLast(t) ==
    /\ where[t] = "out" /\ entered[t] < MaxWaits
    /\ curcount + 1 = Cardinality(Threads)
    /\ generation' = Successor(generation)
    /\ curcount'   = 0
    /\ where'      = Broadcast
    /\ entered'    = [entered EXCEPT ![t] = @ + 1]
    /\ left'       = [left EXCEPT ![t] = @ + 1]
    /\ rounds'     = rounds + 1
    /\ UNCHANGED saved

SpuriousWake(t) ==
    /\ where[t] = "asleep"
    /\ where' = [where EXCEPT ![t] = "awake"]
    /\ UNCHANGED <<curcount, generation, saved, entered, left, rounds>>

(* A thread that wakes up and still reads its own generation sleeps again. *)
Resleep(t) ==
    /\ where[t] = "awake" /\ saved[t] = generation
    /\ where' = [where EXCEPT ![t] = "asleep"]
    /\ UNCHANGED <<curcount, generation, saved, entered, left, rounds>>

(* Mutant: any wake-up is taken for the opening of the barrier. *)
LeaveUnchecked(t) ==
    /\ where[t] = "awake"
    /\ where' = [where EXCEPT ![t] = "out"]
    /\ left'  = [left EXCEPT ![t] = @ + 1]
    /\ UNCHANGED <<curcount, generation, saved, entered, rounds>>

(* A thread that wakes up and reads another generation returns. *)
Leave(t) ==
    /\ where[t] = "awake" /\ saved[t] # generation
    /\ where' = [where EXCEPT ![t] = "out"]
    /\ left'  = [left EXCEPT ![t] = @ + 1]
    /\ UNCHANGED <<curcount, generation, saved, entered, rounds>>

(* The barrier alone, used by threads that call it whenever they like.     *)
BarrierNext ==
    \E t \in Threads : Arrive(t) \/ ArriveLast(t) \/ SpuriousWake(t) \/ Resleep(t) \/ Leave(t)

BarrierSpec == BarrierInit /\ [][BarrierNext]_barrierVars

-----------------------------------------------------------------------------
(* Every variable of the barrier keeps its type, and the generation stays  *)
(* within the values of its counter.                                       *)
BarrierTypeOK ==
    /\ curcount \in Nat
    /\ generation \in Nat /\ generation < GenMod
    /\ where   \in [Threads -> {"out", "asleep", "awake"}]
    /\ saved   \in [Threads -> Nat]
    /\ entered \in [Threads -> Nat]
    /\ left    \in [Threads -> Nat]
    /\ rounds  \in Nat

(* What a barrier is for: no thread returns from its n-th                  *)
(* isched_barrier_wait before every thread has called it n times.          *)
BarrierSafe == \A t, u \in Threads : left[t] <= entered[u]

(* The threads that count in curcount: those waiting for the generation    *)
(* that is current.                                                        *)
Pending  == {t \in Threads : where[t] # "out" /\ saved[t] = generation}

(* The threads the last broadcast released and that did not return yet.    *)
Released == {t \in Threads : where[t] # "out" /\ saved[t] # generation}

(* curcount counts the pending threads, and never all of them: the last    *)
(* one to arrive resets it in the same critical section.                   *)
CountOK ==
    /\ curcount = Cardinality(Pending)
    /\ curcount < Cardinality(Threads)

(* No wake-up is lost: a thread asleep on the condition waits for a        *)
(* generation that has not come yet.                                       *)
NoLostWakeup == \A t \in Threads : where[t] = "asleep" => saved[t] = generation

(* Where the thread stands says how many rounds it took part in; in        *)
(* particular a released thread is one round behind, so that the wrapping  *)
(* counter can never reach again the generation it saved.                  *)
RoundsOK ==
    \A t \in Threads :
        /\ where[t] = "out" => entered[t] = rounds /\ left[t] = rounds
        /\ t \in Pending    => entered[t] = rounds + 1 /\ left[t] = rounds
        /\ t \in Released   => entered[t] = rounds /\ left[t] + 1 = rounds

(* The inductive invariant. *)
BarrierInv == BarrierTypeOK /\ CountOK /\ NoLostWakeup /\ RoundsOK

(* Every thread that calls isched_barrier_wait returns from it, as long as *)
(* the others keep calling it too.                                         *)
EveryWaitReturns == \A t \in Threads : (where[t] # "out") ~> (where[t] = "out")
=============================================================================
