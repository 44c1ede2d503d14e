---------------------------- MODULE IschedProofs ----------------------------
(***************************************************************************)
(* TLAPS proofs about common/isched.c.  For every set of threads, every    *)
(* width of the generation counter and every number of waits the barrier   *)
(* never lets a thread through early; whatever the number of calls the     *)
(* pool of threads uses the barrier as its specification describes it,     *)
(* hence keeps what was proved of it, and runs each parallel call in all   *)
(* its threads.                                                            *)
(***************************************************************************)
EXTENDS Isched, FiniteSetTheorems, TLAPS

-----------------------------------------------------------------------------
(* The barrier.                                                            *)

(* Sets of threads are finite, so that their cardinalities are numbers.    *)
LEMMA ThreadSets ==
    ASSUME NEW S, S \subseteq Threads
    PROVE  /\ IsFiniteSet(S)
           /\ Cardinality(S) \in Nat
           /\ Cardinality(S) <= Cardinality(Threads)
           /\ Cardinality(S) = Cardinality(Threads) => S = Threads
           /\ Cardinality(Threads) \in Nat \ {0}
<1>1. IsFiniteSet(Threads) /\ Threads # {}
  BY ThreadsAssumption
<1>2. IsFiniteSet(S) /\ Cardinality(S) <= Cardinality(Threads)
  BY <1>1, FS_Subset
<1>3. Cardinality(S) = Cardinality(Threads) => S = Threads
  BY <1>1, FS_Subset
<1>4. Cardinality(S) \in Nat /\ Cardinality(Threads) \in Nat
  BY <1>1, <1>2, FS_CardinalityType
<1>5. Cardinality(Threads) # 0
  BY <1>1, FS_EmptySet
<1> QED
  BY <1>2, <1>3, <1>4, <1>5

(* The successor of a generation is another generation: two values of the  *)
(* counter are enough to tell a round from the next one.                   *)
LEMMA SuccessorDiffers ==
    ASSUME NEW g \in Nat, g < GenMod
    PROVE  Successor(g) \in Nat /\ Successor(g) < GenMod /\ Successor(g) # g
  BY GenModAssumption DEF Successor

LEMMA BarrierInitInv == BarrierInit => BarrierInv
<1> SUFFICES ASSUME BarrierInit PROVE BarrierInv
  OBVIOUS
<1>1. BarrierTypeOK
  BY GenModAssumption DEF BarrierInit, BarrierTypeOK
<1>2. Pending = {}
  BY DEF BarrierInit, Pending
<1>3. CountOK
  BY <1>2, ThreadSets, FS_EmptySet DEF BarrierInit, CountOK
<1>4. NoLostWakeup /\ RoundsOK
  BY DEF BarrierInit, NoLostWakeup, RoundsOK, Pending, Released
<1> QED
  BY <1>1, <1>3, <1>4 DEF BarrierInv

(* The arrival of a thread that is not the last adds it to the pending     *)
(* threads and counts it.                                                  *)
LEMMA ArriveInv ==
    ASSUME BarrierInv, NEW t \in Threads, Arrive(t)
    PROVE  BarrierInv'
<1> USE DEF BarrierInv
<1>1. BarrierTypeOK'
  BY DEF BarrierTypeOK, Arrive
<1>2. t \notin Pending /\ Pending' = Pending \cup {t}
  BY DEF BarrierTypeOK, Arrive, Pending
<1>3. CountOK'
  <2>1. Cardinality(Pending') = Cardinality(Pending) + 1
    BY <1>2, ThreadSets, FS_AddElement DEF Pending
  <2> QED
    BY <2>1, ThreadSets DEF CountOK, Arrive, BarrierTypeOK
<1>4. NoLostWakeup'
  BY DEF NoLostWakeup, BarrierTypeOK, Arrive
<1>5. RoundsOK'
  BY DEF RoundsOK, BarrierTypeOK, Arrive, Pending, Released
<1> QED
  BY <1>1, <1>3, <1>4, <1>5

(* When the last thread arrives all the others are pending: it releases    *)
(* them all, and nobody is pending for the new generation.                 *)
LEMMA ArriveLastInv ==
    ASSUME BarrierInv, NEW t \in Threads, ArriveLast(t)
    PROVE  BarrierInv'
<1> USE DEF BarrierInv
<1>1. /\ Successor(generation) \in Nat /\ Successor(generation) < GenMod
      /\ Successor(generation) # generation
  BY SuccessorDiffers DEF BarrierTypeOK
<1>2. BarrierTypeOK'
  BY <1>1 DEF BarrierTypeOK, ArriveLast, Broadcast
<1>3. Pending \cup {t} = Threads
  <2>1. t \notin Pending
    BY DEF ArriveLast, Pending
  <2>2. Cardinality(Pending \cup {t}) = Cardinality(Pending) + 1
    BY <2>1, ThreadSets, FS_AddElement DEF Pending
  <2>3. Cardinality(Pending \cup {t}) = Cardinality(Threads)
    BY <2>2 DEF CountOK, ArriveLast
  <2> QED
    BY <2>3, ThreadSets DEF Pending
<1>4. \A u \in Threads : u # t => where[u] # "out" /\ saved[u] = generation
  BY <1>3 DEF Pending
<1>5. \A u \in Threads : u # t => where'[u] = "awake" /\ saved'[u] # generation'
  BY <1>1, <1>4 DEF ArriveLast, Broadcast, BarrierTypeOK
<1>6. where'[t] = "out"
  BY DEF ArriveLast, Broadcast
<1>7. Pending' = {}
  BY <1>5, <1>6 DEF Pending
<1>8. CountOK'
  BY <1>7, ThreadSets, FS_EmptySet DEF CountOK, ArriveLast
<1>9. NoLostWakeup'
  BY <1>5, <1>6 DEF NoLostWakeup
<1>10. RoundsOK'
  <2> SUFFICES ASSUME NEW u \in Threads
               PROVE  /\ where'[u] = "out"  => entered'[u] = rounds' /\ left'[u] = rounds'
                      /\ u \in Pending'  => entered'[u] = rounds' + 1 /\ left'[u] = rounds'
                      /\ u \in Released' => entered'[u] = rounds' /\ left'[u] + 1 = rounds'
    BY DEF RoundsOK
  <2>1. CASE u = t
    BY <2>1, <1>6 DEF RoundsOK, ArriveLast, BarrierTypeOK, Pending, Released
  <2>2. CASE u # t
    <3>1. entered[u] = rounds + 1 /\ left[u] = rounds
      BY <2>2, <1>4 DEF RoundsOK, Pending
    <3> QED
      BY <2>2, <3>1, <1>5, <1>7 DEF ArriveLast, BarrierTypeOK
  <2> QED
    BY <2>1, <2>2
<1> QED
  BY <1>2, <1>8, <1>9, <1>10

(* Waking up and sleeping again changes no count.                          *)
LEMMA SleepInv ==
    ASSUME BarrierInv, NEW t \in Threads, SpuriousWake(t) \/ Resleep(t)
    PROVE  BarrierInv'
<1> USE DEF BarrierInv
<1>1. BarrierTypeOK'
  BY DEF BarrierTypeOK, SpuriousWake, Resleep
<1>2. Pending' = Pending /\ Released' = Released
  BY DEF Pending, Released, SpuriousWake, Resleep, BarrierTypeOK
<1>3. CountOK'
  BY <1>2 DEF CountOK, SpuriousWake, Resleep
<1>4. NoLostWakeup' /\ RoundsOK'
  BY <1>2 DEF NoLostWakeup, RoundsOK, SpuriousWake, Resleep, BarrierTypeOK
<1> QED
  BY <1>1, <1>3, <1>4

(* Only a released thread leaves.                                          *)
LEMMA LeaveInv ==
    ASSUME BarrierInv, NEW t \in Threads, Leave(t)
    PROVE  BarrierInv'
<1> USE DEF BarrierInv
<1>1. BarrierTypeOK'
  BY DEF BarrierTypeOK, Leave
<1>2. Pending' = Pending /\ t \in Released /\ Released' = Released \ {t}
  BY DEF Pending, Released, Leave, BarrierTypeOK
<1>3. CountOK'
  BY <1>2 DEF CountOK, Leave
<1>4. NoLostWakeup' /\ RoundsOK'
  BY <1>2 DEF NoLostWakeup, RoundsOK, Leave, BarrierTypeOK
<1> QED
  BY <1>1, <1>3, <1>4

LEMMA BarrierNextInv == BarrierInv /\ [BarrierNext]_barrierVars => BarrierInv'
<1> SUFFICES ASSUME BarrierInv, [BarrierNext]_barrierVars PROVE BarrierInv'
  OBVIOUS
<1>1. ASSUME NEW t \in Threads, Arrive(t) PROVE BarrierInv'
  BY <1>1, ArriveInv
<1>2. ASSUME NEW t \in Threads, ArriveLast(t) PROVE BarrierInv'
  BY <1>2, ArriveLastInv
<1>3. ASSUME NEW t \in Threads, SpuriousWake(t) \/ Resleep(t) PROVE BarrierInv'
  BY <1>3, SleepInv
<1>4. ASSUME NEW t \in Threads, Leave(t) PROVE BarrierInv'
  BY <1>4, LeaveInv
<1>5. CASE UNCHANGED barrierVars
  BY <1>5 DEF barrierVars, BarrierInv, BarrierTypeOK, CountOK, NoLostWakeup, RoundsOK, Pending, Released
<1> QED
  BY <1>1, <1>2, <1>3, <1>4, <1>5 DEF BarrierNext

(* The inductive invariant of the barrier (common/isched.c) holds in every *)
(* reachable state, for any number of threads and any counter width.       *)
THEOREM BarrierInvariant == BarrierSpec => []BarrierInv
<1> QED
  BY BarrierInitInv, BarrierNextInv, PTL DEF BarrierSpec

(* isched_barrier_wait is a barrier: a thread that returned n times finds  *)
(* that every thread called it n times, for every number of threads and    *)
(* even when the int generation wraps around, down to a one-bit counter.   *)
THEOREM BarrierSafety == BarrierSpec => []BarrierSafe
<1>1. BarrierInv => BarrierSafe
  <2> SUFFICES ASSUME BarrierInv, NEW t \in Threads, NEW u \in Threads
               PROVE  left[t] <= entered[u]
    BY DEF BarrierSafe
  <2>1. left[t] <= rounds
    BY DEF BarrierInv, BarrierTypeOK, RoundsOK, Pending, Released
  <2>2. rounds <= entered[u]
    BY DEF BarrierInv, BarrierTypeOK, RoundsOK, Pending, Released
  <2> QED
    BY <2>1, <2>2 DEF BarrierInv, BarrierTypeOK
<1> QED
  BY <1>1, BarrierInvariant, PTL

-----------------------------------------------------------------------------
(* The pool of threads.                                                    *)

(* Every step of the pool is a step of the barrier or leaves it alone.     *)
LEMMA PoolStep == [Next]_vars => [BarrierNext]_barrierVars
<1> SUFFICES ASSUME [Next]_vars PROVE [BarrierNext]_barrierVars
  OBVIOUS
<1>1. CASE Call \/ Finalize \/ MasterStep \/ Closed
  BY <1>1 DEF Call, Finalize, MasterStep, Created, BroadcastStatus, Reset, Join, Closed, vars
<1>2. ASSUME NEW w \in Workers, WorkerStep(w) PROVE UNCHANGED barrierVars
  BY <1>2 DEF WorkerStep, Create, CheckStatus, Dispatch
<1>3. ASSUME NEW t \in Threads, TeamStep(t) PROVE [BarrierNext]_barrierVars
  BY <1>3 DEF TeamStep, BarrierSleep, BarrierReturn, DoPhase, BarrierNext
<1>4. ASSUME NEW t \in Threads, Spurious(t) PROVE [BarrierNext]_barrierVars
  BY <1>4 DEF Spurious, BarrierNext
<1>5. CASE UNCHANGED vars
  BY <1>5 DEF vars
<1> QED
  BY <1>1, <1>2, <1>3, <1>4, <1>5 DEF Next

(* The pool implements the barrier used by threads that call it whenever   *)
(* they like (common/isched.c: the four call sites of isched_barrier_wait).*)
THEOREM PoolUsesBarrier == Spec => BarrierSpec
<1>1. Init => BarrierInit
  BY DEF Init
<1> QED
  BY <1>1, PoolStep, PTL DEF Spec, BarrierSpec

(* No thread of the pool returns from its n-th barrier before every thread *)
(* called it n times, for every number of threads, of phases and of calls, *)
(* and every width of the int barrier->generation.                         *)
THEOREM PoolBarrierSafety == Spec => []BarrierSafe
<1> QED
  BY PoolUsesBarrier, BarrierSafety, PTL

(* The inductive invariant of the barrier holds in the pool too.           *)
THEOREM PoolBarrierInvariant == Spec => []BarrierInv
<1> QED
  BY PoolUsesBarrier, BarrierInvariant, PTL

-----------------------------------------------------------------------------
(* Where a thread stands, a thread that the barrier released standing      *)
(* already where it goes when isched_barrier_wait returns: so seen, all    *)
(* the threads pass the barrier at once, and are always between the same   *)
(* two barriers.                                                           *)
Stands(t) == IF t \in Released THEN AfterBarrier(t) ELSE pc[t]

Labels == {"create", "none", "init", "idle", "broadcast", "start", "reset", "run", "inner", "end",
           "join", "closed", "check", "standby", "dispatch", "exited"}

Requests == {"STAND_BY", "PARALLEL", "FINALIZE"}

PoolTypeOK ==
    /\ status \in Requests /\ pfunc \in Nat
    /\ pc     \in [Threads -> Labels]
    /\ action \in [Threads -> Requests]
    /\ job    \in [Threads -> Nat]
    /\ phase  \in [Threads -> Nat]

(* Only a thread that called isched_barrier_wait is inside it.             *)
InsideBarrier == \A t \in Threads : where[t] # "out" => pc[t] \in AtBarrier

(* Every thread has executed the last function to its end.                 *)
Rested(t) == job[t] = pfunc /\ phase[t] = Phases

(* Before the first barrier.                                               *)
Creating ==
    /\ Stands(Master) \in {"create", "init"} /\ status = "STAND_BY"
    /\ \A w \in Workers : Stands(w) \in {"none", "init"}
    /\ Stands(Master) = "init" => \A w \in Workers : Stands(w) = "init"
    /\ action[Master] # "FINALIZE" /\ \A t \in Threads : Rested(t)

(* Between the end of a call and the next one: no worker takes a request   *)
(* that is not there, and none sleeps once the request was broadcast.      *)
Waiting ==
    /\ Stands(Master) = "idle" /\ status = "STAND_BY"
    /\ \A w \in Workers : Stands(w) \in {"check", "standby"}
    /\ action[Master] # "FINALIZE" /\ \A t \in Threads : Rested(t)

Starting ==
    /\ Stands(Master) \in {"broadcast", "start"}
    /\ status \in {"PARALLEL", "FINALIZE"} /\ action[Master] = status
    /\ \A w \in Workers : /\ Stands(w) \in {"check", "standby", "start"}
                          /\ Stands(w) = "start" => action[w] = status
                          /\ Stands(w) = "standby" => Stands(Master) = "broadcast"
    /\ status = "PARALLEL" => \A t \in Threads : job[t] + 1 = pfunc
    /\ status = "FINALIZE" => \A t \in Threads : Rested(t)

(* The threads are in phase k of the call: each is about to enter the      *)
(* function, in the phase, or done with it.                                *)
InPhase(t, k) ==
    \/ Stands(t) = (IF t = Master THEN "reset" ELSE "dispatch") /\ k = 0 /\ job[t] + 1 = pfunc
    \/ Stands(t) = "run" /\ job[t] = pfunc /\ phase[t] = k
    \/ Stands(t) = (IF k + 1 < Phases THEN "inner" ELSE "end") /\ job[t] = pfunc /\ phase[t] = k + 1

Running ==
    /\ \E k \in 0 .. Phases - 1 : \A t \in Threads : InPhase(t, k)
    /\ \A t \in Threads : action[t] = "PARALLEL"
    /\ status = IF Stands(Master) = "reset" THEN "PARALLEL" ELSE "STAND_BY"

Closing ==
    /\ Stands(Master) \in {"reset", "join", "closed"}
    /\ \A w \in Workers : Stands(w) \in {"dispatch", "exited"}
    /\ Stands(Master) = "closed" => \A w \in Workers : Stands(w) = "exited"
    /\ \A t \in Threads : action[t] = "FINALIZE" /\ Rested(t)

Segment == Creating \/ Waiting \/ Starting \/ Running \/ Closing

PoolInv == BarrierInv /\ PoolTypeOK /\ InsideBarrier /\ Segment

LEMMA MasterOrWorker ==
    /\ Master \in Threads /\ Workers \subseteq Threads
    /\ \A t \in Threads : t # Master => t \in Workers
    /\ \A w \in Workers : w # Master
    /\ Phases \in Nat /\ Phases > 0
BY PoolAssumption

(* Arriving before the last, sleeping, waking up and leaving move no       *)
(* thread in the eyes of the others.                                       *)
LEMMA QuietBarrier ==
    ASSUME PoolInv, NEW t \in Threads, pc[t] \in AtBarrier,
           UNCHANGED <<status, pfunc, action, job, phase>>,
           \/ (Arrive(t) \/ Resleep(t) \/ SpuriousWake(t)) /\ UNCHANGED pc
           \/ Leave(t) /\ Goto(t, AfterBarrier(t))
    PROVE  PoolTypeOK' /\ InsideBarrier' /\ \A u \in Threads : Stands(u)' = Stands(u)
<1> USE DEF PoolInv
<1>1. CASE (Arrive(t) \/ Resleep(t) \/ SpuriousWake(t)) /\ UNCHANGED pc
  <2>1. PoolTypeOK' /\ InsideBarrier'
    BY <1>1 DEF PoolTypeOK, InsideBarrier, Arrive, Resleep, SpuriousWake, BarrierInv, BarrierTypeOK
  <2>2. Released' = Released
    BY <1>1 DEF Released, Arrive, Resleep, SpuriousWake, BarrierInv, BarrierTypeOK
  <2> QED
    BY <1>1, <2>1, <2>2 DEF Stands, AfterBarrier
<1>2. CASE Leave(t) /\ Goto(t, AfterBarrier(t))
  <2>1. /\ Released' = Released \ {t} /\ t \in Released
        /\ where' = [where EXCEPT ![t] = "out"]
    BY <1>2 DEF Released, Leave, BarrierInv, BarrierTypeOK
  <2>2. AfterBarrier(t) \in Labels
    BY DEF AfterBarrier, Labels, AtBarrier
  <2>3. /\ pc' \in [Threads -> Labels] /\ pc'[t] = AfterBarrier(t)
        /\ \A u \in Threads : u # t => pc'[u] = pc[u]
    BY <1>2, <2>2 DEF Goto, PoolTypeOK
  <2>4. PoolTypeOK'
    BY <2>3 DEF PoolTypeOK
  <2>5. InsideBarrier'
    BY <2>1, <2>3 DEF InsideBarrier, BarrierInv, BarrierTypeOK
  <2> HIDE DEF PoolInv
  <2>6. ASSUME NEW u \in Threads PROVE Stands(u)' = Stands(u)
    <3>1. CASE u = t
      BY <3>1, <2>1, <2>3 DEF Stands
    <3>2. CASE u # t
      BY <3>2, <2>1, <2>3 DEF Stands, AfterBarrier
    <3> QED
      BY <3>1, <3>2
  <2> QED
    BY <2>4, <2>5, <2>6
<1> QED
  BY <1>1, <1>2

(* Opening the barrier moves all the threads past it.                      *)
LEMMA OpenBarrier ==
    ASSUME PoolInv, NEW t \in Threads, pc[t] \in AtBarrier, ArriveLast(t),
           Goto(t, AfterBarrier(t)), UNCHANGED <<status, pfunc, action, job, phase>>
    PROVE  /\ PoolTypeOK' /\ InsideBarrier'
           /\ \A u \in Threads : /\ Stands(u) \in AtBarrier /\ Stands(u) = pc[u]
                                 /\ Stands(u)' = AfterBarrier(u)
<1> USE DEF PoolInv
<1>1. BarrierInv'
  BY ArriveLastInv
<1>2. /\ AfterBarrier(t) \in Labels
      /\ pc' \in [Threads -> Labels] /\ pc'[t] = AfterBarrier(t)
      /\ \A u \in Threads : u # t => pc'[u] = pc[u]
  BY DEF AfterBarrier, Labels, AtBarrier, Goto, PoolTypeOK
<1>3. where[t] = "out" /\ where'[t] = "out" /\ rounds' = rounds + 1 /\ left' = [left EXCEPT ![t] = @ + 1]
  BY DEF ArriveLast, Broadcast
<1>4. ASSUME NEW u \in Threads, u # t
      PROVE  where[u] # "out" /\ u \notin Released /\ where'[u] # "out" /\ u \in Released'
  <2>1. Pending \cup {t} = Threads
    <3>1. t \notin Pending
      BY <1>3 DEF Pending
    <3>2. Cardinality(Pending \cup {t}) = Cardinality(Pending) + 1
      BY <3>1, ThreadSets, FS_AddElement DEF Pending
    <3>3. Cardinality(Pending \cup {t}) = Cardinality(Threads)
      BY <3>2 DEF CountOK, ArriveLast, BarrierInv
    <3> QED
      BY <3>3, ThreadSets DEF Pending
  <2>2. where[u] # "out" /\ saved[u] = generation
    BY <2>1, <1>4 DEF Pending
  <2>3. where'[u] # "out" /\ saved' = saved /\ generation' # generation
    BY <2>2, <1>4, SuccessorDiffers DEF ArriveLast, Broadcast, BarrierInv, BarrierTypeOK
  <2> QED
    BY <2>2, <2>3 DEF Released
<1>5. t \notin Released /\ t \notin Released'
  BY <1>3 DEF Released
<1>6. PoolTypeOK'
  BY <1>2 DEF PoolTypeOK
<1>7. InsideBarrier'
  BY <1>2, <1>3, <1>4 DEF InsideBarrier
<1> HIDE DEF PoolInv
<1>8. ASSUME NEW u \in Threads
      PROVE  Stands(u) \in AtBarrier /\ Stands(u) = pc[u] /\ Stands(u)' = AfterBarrier(u)
  <2>1. CASE u = t
    BY <2>1, <1>2, <1>5 DEF Stands
  <2>2. CASE u # t
    BY <2>2, <1>2, <1>4 DEF Stands, AfterBarrier, InsideBarrier, PoolInv
  <2> QED
    BY <2>1, <2>2
<1> QED
  BY <1>6, <1>7, <1>8

(* Outside the barrier a step moves the threads it says.                   *)
LEMMA OutsideBarrier ==
    ASSUME PoolInv, UNCHANGED barrierVars, pc' \in [Threads -> Labels],
           NEW M \in SUBSET Threads,
           \A u \in M : pc[u] \notin AtBarrier,
           \A u \in Threads \ M : pc'[u] = pc[u]
    PROVE  /\ InsideBarrier'
           /\ \A u \in M : Stands(u) = pc[u] /\ Stands(u)' = pc'[u]
           /\ \A u \in Threads \ M : Stands(u)' = Stands(u)
<1>1. Released' = Released /\ where' = where
  BY DEF Released, barrierVars
<1>2. \A u \in M : where[u] = "out" /\ u \notin Released
  BY DEF PoolInv, InsideBarrier, Released
<1> QED
  BY <1>1, <1>2 DEF Stands, AfterBarrier, InsideBarrier, PoolInv

(* Nothing that a segment is about has changed.                            *)
LEMMA SameSegment ==
    ASSUME Segment, \A u \in Threads : Stands(u)' = Stands(u),
           UNCHANGED <<status, pfunc, action, job, phase>>
    PROVE  Segment'
<1> USE MasterOrWorker
<1>1. CASE Creating
  BY <1>1 DEF Creating, Segment, Rested
<1>2. CASE Waiting
  BY <1>2 DEF Waiting, Segment, Rested
<1>3. CASE Starting
  BY <1>3 DEF Starting, Segment, Rested
<1>4. CASE Running
  <2>1. PICK k \in 0 .. Phases - 1 : \A t \in Threads : InPhase(t, k)
    BY <1>4 DEF Running
  <2>2. \A t \in Threads : InPhase(t, k)'
    BY <2>1 DEF InPhase
  <2> QED
    BY <1>4, <2>2 DEF Running, Segment
<1>5. CASE Closing
  BY <1>5 DEF Closing, Segment, Rested
<1> QED
  BY <1>1, <1>2, <1>3, <1>4, <1>5 DEF Segment

(* When all the threads pass a barrier together they go from a segment to  *)
(* the next.                                                               *)
LEMMA NextSegment ==
    ASSUME PoolInv, UNCHANGED <<status, pfunc, action, job, phase>>,
           \A u \in Threads : /\ Stands(u) \in AtBarrier /\ Stands(u) = pc[u]
                              /\ Stands(u)' = AfterBarrier(u)
    PROVE  Segment'
<1> USE MasterOrWorker
<1>1. CASE Creating
  <2>1. \A u \in Threads : pc[u] = "init"
    BY <1>1 DEF Creating, AtBarrier
  <2>2. Waiting'
    BY <1>1, <2>1 DEF Creating, Waiting, AfterBarrier, Rested
  <2> QED
    BY <2>2 DEF Segment
<1>2. CASE Waiting
  BY <1>2 DEF Waiting, AtBarrier
<1>3. CASE Starting
  <2>1. \A u \in Threads : pc[u] = "start" /\ action[u] = status
    BY <1>3 DEF Starting, AtBarrier
  <2>2. \A u \in Threads : Stands(u)' = IF u = Master THEN "reset" ELSE "dispatch"
    BY <2>1 DEF AfterBarrier
  <2>3. CASE status = "PARALLEL"
    <3>1. \A u \in Threads : InPhase(u, 0)'
      BY <1>3, <2>2, <2>3 DEF InPhase, Starting
    <3>2. Running'
      BY <2>1, <2>2, <2>3, <3>1 DEF Running
    <3> QED
      BY <3>2 DEF Segment
  <2>4. CASE status = "FINALIZE"
    <3>1. Closing'
      BY <1>3, <2>1, <2>2, <2>4 DEF Closing, Starting, Rested
    <3> QED
      BY <3>1 DEF Segment
  <2> QED
    BY <1>3, <2>3, <2>4 DEF Starting
<1>4. CASE Running
  <2>1. PICK k \in 0 .. Phases - 1 : \A t \in Threads : InPhase(t, k)
    BY <1>4 DEF Running
  <2>2. \A u \in Threads : /\ pc[u] = (IF k + 1 < Phases THEN "inner" ELSE "end")
                           /\ job[u] = pfunc /\ phase[u] = k + 1
    BY <2>1 DEF InPhase, AtBarrier
  <2>3. CASE k + 1 < Phases
    <3>1. \A u \in Threads : Stands(u)' = "run"
      BY <2>2, <2>3 DEF AfterBarrier
    <3>2. \A u \in Threads : InPhase(u, k + 1)'
      BY <2>2, <3>1 DEF InPhase
    <3>3. k + 1 \in 0 .. Phases - 1
      BY <2>3
    <3>4. Running'
      BY <1>4, <2>2, <3>1, <3>2, <3>3 DEF Running
    <3> QED
      BY <3>4 DEF Segment
  <2>4. CASE ~ (k + 1 < Phases)
    <3>1. \A u \in Threads : Stands(u)' = IF u = Master THEN "idle" ELSE "check"
      BY <2>2, <2>4 DEF AfterBarrier
    <3>2. k + 1 = Phases /\ status = "STAND_BY" /\ action[Master] = "PARALLEL"
      BY <1>4, <2>2, <2>4 DEF Running
    <3>3. Waiting'
      BY <2>2, <3>1, <3>2 DEF Waiting, Rested
    <3> QED
      BY <3>3 DEF Segment
  <2> QED
    BY <2>3, <2>4
<1>5. CASE Closing
  BY <1>5 DEF Closing, AtBarrier
<1> QED
  BY <1>1, <1>2, <1>3, <1>4, <1>5 DEF Segment, PoolInv

-----------------------------------------------------------------------------
(* One lemma for each step of the pool: the part of the invariant that is  *)
(* about the pool.                                                         *)
PoolPart == PoolTypeOK /\ InsideBarrier /\ Segment

LEMMA TeamKeepsPool ==
    ASSUME PoolInv, NEW t \in Threads, BarrierSleep(t) \/ BarrierReturn(t)
    PROVE  PoolPart'
<1>1. CASE BarrierSleep(t) \/ (BarrierReturn(t) /\ Leave(t))
  BY <1>1, QuietBarrier, SameSegment DEF BarrierSleep, BarrierReturn, poolVars, PoolInv, PoolPart
<1>2. CASE BarrierReturn(t) /\ ArriveLast(t)
  BY <1>2, OpenBarrier, NextSegment DEF BarrierReturn, PoolPart
<1> QED
  BY <1>1, <1>2 DEF BarrierReturn

LEMMA SpuriousKeepsPool ==
    ASSUME PoolInv, NEW t \in Threads, Spurious(t)
    PROVE  PoolPart'
<1>1. CASE SpuriousWake(t) /\ UNCHANGED poolVars
  <2>1. pc[t] \in AtBarrier
    BY <1>1 DEF SpuriousWake, PoolInv, InsideBarrier
  <2> QED
    BY <1>1, <2>1, QuietBarrier, SameSegment DEF poolVars, PoolInv, PoolPart
<1>2. CASE pc[t] = "standby" /\ Goto(t, "check") /\ UNCHANGED <<barrierVars, status, pfunc, action, job, phase>>
  <2>1. pc' \in [Threads -> Labels] /\ pc'[t] = "check" /\ \A u \in Threads \ {t} : pc'[u] = pc[u]
    BY <1>2 DEF PoolInv, PoolTypeOK, Goto, Labels
  <2>2. /\ InsideBarrier'
        /\ Stands(t) = "standby" /\ Stands(t)' = "check"
        /\ \A u \in Threads \ {t} : Stands(u)' = Stands(u)
    BY <1>2, <2>1, OutsideBarrier DEF AtBarrier
  <2>3. t # Master /\ ~ Creating /\ ~ Running /\ ~ Closing
    BY <2>2, MasterOrWorker DEF PoolInv, Creating, Waiting, Starting, Running, Closing, InPhase, Segment
  <2>4. Segment'
    BY <1>2, <2>2, <2>3, MasterOrWorker DEF PoolInv, Waiting, Starting, Segment, Rested
  <2> QED
    BY <1>2, <2>1, <2>2, <2>4 DEF PoolInv, PoolTypeOK, PoolPart
<1> QED
  BY <1>1, <1>2 DEF Spurious

LEMMA CreateKeepsPool ==
    ASSUME PoolInv, NEW w \in Workers, Create(w)
    PROVE  PoolPart'
<1>1. /\ pc' \in [Threads -> Labels] /\ pc[w] = "none" /\ pc'[w] = "init" /\ pc[Master] = "create"
      /\ \A u \in Threads \ {w} : pc'[u] = pc[u]
  BY MasterOrWorker DEF PoolInv, PoolTypeOK, Create, Goto, Labels
<1>2. /\ InsideBarrier'
      /\ Stands(w) = "none" /\ Stands(w)' = "init"
      /\ \A u \in Threads \ {w} : Stands(u)' = Stands(u)
  BY <1>1, MasterOrWorker, OutsideBarrier DEF AtBarrier, Create
<1>3. Creating
  BY <1>2, MasterOrWorker DEF PoolInv, Waiting, Starting, Running, Closing, InPhase, Segment
<1>4. Creating'
  BY <1>2, <1>3, MasterOrWorker DEF Create, Creating, Rested
<1> QED
  BY <1>1, <1>2, <1>4 DEF PoolInv, PoolTypeOK, PoolPart, Segment, Create

LEMMA CreatedKeepsPool ==
    ASSUME PoolInv, Created
    PROVE  PoolPart'
<1>1. /\ pc' \in [Threads -> Labels] /\ pc[Master] = "create" /\ pc'[Master] = "init"
      /\ \A u \in Threads \ {Master} : pc'[u] = pc[u]
  BY MasterOrWorker DEF PoolInv, PoolTypeOK, Created, Goto, Labels
<1>2. /\ InsideBarrier'
      /\ Stands(Master) = "create" /\ Stands(Master)' = "init"
      /\ \A u \in Threads \ {Master} : Stands(u)' = Stands(u)
  BY <1>1, MasterOrWorker, OutsideBarrier DEF AtBarrier, Created
<1>3. Creating
  BY <1>2, MasterOrWorker DEF PoolInv, Waiting, Starting, Running, Closing, InPhase, Segment
<1>4. \A w \in Workers : Stands(w) # "none"
  <2>1. \A w \in Workers : pc[w] # "none"
    BY DEF Created
  <2> QED
    BY <2>1 DEF Stands, AfterBarrier
<1>5. Creating'
  BY <1>2, <1>3, <1>4, MasterOrWorker DEF Created, Creating, Rested
<1> QED
  BY <1>1, <1>2, <1>5 DEF PoolInv, PoolTypeOK, PoolPart, Segment, Created

LEMMA RequestKeepsPool ==
    ASSUME PoolInv, Call \/ Finalize
    PROVE  PoolPart' /\ Waiting /\ Starting'
<1>1. /\ pc' \in [Threads -> Labels] /\ pc[Master] = "idle" /\ pc'[Master] = "broadcast"
      /\ \A u \in Threads \ {Master} : pc'[u] = pc[u]
      /\ UNCHANGED barrierVars
  BY MasterOrWorker DEF PoolInv, PoolTypeOK, Call, Finalize, Goto, Labels
<1>2. /\ InsideBarrier'
      /\ Stands(Master) = "idle" /\ Stands(Master)' = "broadcast"
      /\ \A u \in Threads \ {Master} : Stands(u)' = Stands(u)
  BY <1>1, MasterOrWorker, OutsideBarrier DEF AtBarrier
<1>3. Waiting
  BY <1>2, MasterOrWorker DEF PoolInv, Creating, Starting, Running, Closing, InPhase, Segment
<1>4. PoolTypeOK' /\ action'[Master] = status'
  BY <1>1, MasterOrWorker DEF PoolInv, PoolTypeOK, Call, Finalize, Requests
<1>5. Starting'
  <2>1. CASE Call
    BY <1>2, <1>3, <1>4, <2>1, MasterOrWorker DEF Waiting, Starting, Rested, Call, PoolInv, PoolTypeOK
  <2>2. CASE Finalize
    BY <1>2, <1>3, <1>4, <2>2, MasterOrWorker DEF Waiting, Starting, Rested, Finalize
  <2> QED
    BY <2>1, <2>2
<1> QED
  BY <1>2, <1>3, <1>4, <1>5 DEF PoolPart, Segment

LEMMA BroadcastKeepsPool ==
    ASSUME PoolInv, BroadcastStatus
    PROVE  PoolPart'
<1> DEFINE M == {u \in Threads : u = Master \/ pc[u] = "standby"}
<1>1. /\ pc' \in [Threads -> Labels] /\ pc[Master] = "broadcast" /\ pc'[Master] = "start"
      /\ \A u \in M \ {Master} : pc[u] = "standby" /\ pc'[u] = "check"
      /\ \A u \in Threads \ M : pc'[u] = pc[u] /\ pc[u] # "standby"
      /\ UNCHANGED <<barrierVars, status, pfunc, action, job, phase>>
      /\ Master \in M /\ M \in SUBSET Threads
  BY MasterOrWorker DEF PoolInv, PoolTypeOK, BroadcastStatus, Labels
<1>2. \A u \in M : pc[u] \notin AtBarrier
  BY <1>1 DEF AtBarrier
<1> HIDE DEF M
<1>3. /\ InsideBarrier'
      /\ \A u \in M : Stands(u) = pc[u] /\ Stands(u)' = pc'[u]
      /\ \A u \in Threads \ M : Stands(u)' = Stands(u)
  BY <1>1, <1>2, OutsideBarrier
<1>4. Stands(Master) = "broadcast" /\ Stands(Master)' = "start"
  BY <1>1, <1>3
<1>5. Starting
  BY <1>4, MasterOrWorker DEF PoolInv, Creating, Waiting, Running, Closing, InPhase, Segment
<1>6. \A w \in Workers : Stands(w)' \in {"check", Stands(w)} \ {"standby"}
  <2> SUFFICES ASSUME NEW w \in Workers PROVE Stands(w)' \in {"check", Stands(w)} \ {"standby"}
    OBVIOUS
  <2>1. CASE w \in M
    BY <1>1, <1>3, <2>1, MasterOrWorker
  <2>2. CASE w \notin M
    <3>1. Stands(w)' = Stands(w) /\ pc[w] # "standby"
      BY <1>1, <1>3, <2>2, MasterOrWorker
    <3> QED
      BY <3>1 DEF Stands, AfterBarrier
  <2> QED
    BY <2>1, <2>2
<1>7. Starting'
  BY <1>1, <1>4, <1>5, <1>6, MasterOrWorker DEF Starting, Rested
<1> QED
  BY <1>1, <1>3, <1>7 DEF PoolInv, PoolTypeOK, PoolPart, Segment

(* The master has passed the barrier of the request.                       *)
LEMMA ResetKeepsPool ==
    ASSUME PoolInv, Reset
    PROVE  PoolPart'
<1>1. /\ pc' \in [Threads -> Labels] /\ pc[Master] = "reset"
      /\ pc'[Master] = (IF action[Master] = "PARALLEL" THEN "run" ELSE "join")
      /\ \A u \in Threads \ {Master} : pc'[u] = pc[u]
      /\ UNCHANGED <<barrierVars, pfunc, action>> /\ status' = "STAND_BY"
      /\ job'   = [job EXCEPT ![Master] = IF action[Master] = "PARALLEL" THEN pfunc ELSE @]
      /\ phase' = [phase EXCEPT ![Master] = IF action[Master] = "PARALLEL" THEN 0 ELSE @]
  BY MasterOrWorker DEF PoolInv, PoolTypeOK, Reset, Goto, Labels
<1>2. /\ InsideBarrier'
      /\ Stands(Master) = "reset" /\ Stands(Master)' = pc'[Master]
      /\ \A u \in Threads \ {Master} : Stands(u)' = Stands(u)
  BY <1>1, MasterOrWorker, OutsideBarrier DEF AtBarrier
<1>3. PoolTypeOK'
  BY <1>1, MasterOrWorker DEF PoolInv, PoolTypeOK, Requests
<1>4. CASE Running
  <2>1. PICK k \in 0 .. Phases - 1 : \A t \in Threads : InPhase(t, k)
    BY <1>4 DEF Running
  <2>2. k = 0 /\ action[Master] = "PARALLEL"
    BY <1>2, <1>4, <2>1, MasterOrWorker DEF InPhase, Running
  <2>3. InPhase(Master, k)'
    BY <1>1, <1>2, <2>2, MasterOrWorker DEF InPhase, PoolInv, PoolTypeOK
  <2>4. \A u \in Threads \ {Master} : InPhase(u, k)'
    BY <1>1, <1>2, <2>1, MasterOrWorker DEF InPhase, PoolInv, PoolTypeOK
  <2>5. Running'
    BY <1>1, <1>2, <1>4, <2>2, <2>3, <2>4 DEF Running
  <2> QED
    BY <1>2, <1>3, <2>5 DEF PoolPart, Segment
<1>5. CASE Closing
  <2>1. action[Master] = "FINALIZE" /\ job' = job /\ phase' = phase
    BY <1>1, <1>5, MasterOrWorker DEF Closing, PoolInv, PoolTypeOK
  <2>2. Closing'
    BY <1>1, <1>2, <1>5, <2>1, MasterOrWorker DEF Closing, Rested
  <2> QED
    BY <1>2, <1>3, <2>2 DEF PoolPart, Segment
<1> QED
  BY <1>2, <1>4, <1>5 DEF PoolInv, Creating, Waiting, Starting, Segment

LEMMA JoinKeepsPool ==
    ASSUME PoolInv, Join
    PROVE  PoolPart'
<1>1. /\ pc' \in [Threads -> Labels] /\ pc[Master] = "join" /\ pc'[Master] = "closed"
      /\ \A u \in Threads \ {Master} : pc'[u] = pc[u]
  BY MasterOrWorker DEF PoolInv, PoolTypeOK, Join, Goto, Labels
<1>2. /\ InsideBarrier'
      /\ Stands(Master) = "join" /\ Stands(Master)' = "closed"
      /\ \A u \in Threads \ {Master} : Stands(u)' = Stands(u)
  BY <1>1, MasterOrWorker, OutsideBarrier DEF AtBarrier, Join
<1>3. Closing
  BY <1>2, MasterOrWorker DEF PoolInv, Creating, Waiting, Starting, Running, InPhase, Segment
<1>4. \A w \in Workers : Stands(w) = "exited"
  BY MasterOrWorker DEF Join, Stands, PoolInv, InsideBarrier, AtBarrier, Released
<1>5. Closing'
  BY <1>2, <1>3, <1>4, MasterOrWorker DEF Join, Closing, Rested
<1> QED
  BY <1>1, <1>2, <1>5 DEF PoolInv, PoolTypeOK, PoolPart, Segment, Join

LEMMA CheckKeepsPool ==
    ASSUME PoolInv, NEW w \in Workers, CheckStatus(w)
    PROVE  PoolPart'
<1>1. /\ pc' \in [Threads -> Labels] /\ pc[w] = "check"
      /\ pc'[w] = (IF status = "STAND_BY" THEN "standby" ELSE "start")
      /\ \A u \in Threads \ {w} : pc'[u] = pc[u]
  BY MasterOrWorker DEF PoolInv, PoolTypeOK, CheckStatus, Goto, Labels
<1>2. /\ InsideBarrier'
      /\ Stands(w) = "check" /\ Stands(w)' = pc'[w]
      /\ \A u \in Threads \ {w} : Stands(u)' = Stands(u)
  BY <1>1, MasterOrWorker, OutsideBarrier DEF AtBarrier, CheckStatus
<1>3. PoolTypeOK' /\ action' = [action EXCEPT ![w] = status]
  BY <1>1, MasterOrWorker DEF PoolInv, PoolTypeOK, CheckStatus
<1>4. Waiting \/ Starting
  BY <1>2, MasterOrWorker DEF PoolInv, Creating, Running, Closing, InPhase, Segment
<1>5. CASE Waiting
  BY <1>1, <1>2, <1>3, <1>5, MasterOrWorker DEF Waiting, Rested, CheckStatus, PoolPart, Segment
<1>6. CASE Starting
  <2>1. Starting'
    BY <1>1, <1>2, <1>3, <1>6, MasterOrWorker DEF Starting, Rested, CheckStatus, PoolInv, PoolTypeOK
  <2> QED
    BY <1>2, <1>3, <2>1 DEF PoolPart, Segment
<1> QED
  BY <1>4, <1>5, <1>6

LEMMA DispatchKeepsPool ==
    ASSUME PoolInv, NEW w \in Workers, Dispatch(w)
    PROVE  PoolPart'
<1>1. /\ pc' \in [Threads -> Labels] /\ pc[w] = "dispatch"
      /\ \A u \in Threads \ {w} : pc'[u] = pc[u]
      /\ UNCHANGED <<barrierVars, status, pfunc, action>>
      /\ \/ /\ action[w] = "PARALLEL" /\ pc'[w] = "run"
            /\ job' = [job EXCEPT ![w] = pfunc] /\ phase' = [phase EXCEPT ![w] = 0]
         \/ action[w] = "FINALIZE" /\ pc'[w] = "exited" /\ UNCHANGED <<job, phase>>
  BY MasterOrWorker DEF PoolInv, PoolTypeOK, Dispatch, Goto, Labels
<1>2. /\ InsideBarrier'
      /\ Stands(w) = "dispatch" /\ Stands(w)' = pc'[w]
      /\ \A u \in Threads \ {w} : Stands(u)' = Stands(u)
  BY <1>1, MasterOrWorker, OutsideBarrier DEF AtBarrier
<1>3. PoolTypeOK'
  BY <1>1, MasterOrWorker DEF PoolInv, PoolTypeOK
<1>4. CASE Running
  <2>1. PICK k \in 0 .. Phases - 1 : \A t \in Threads : InPhase(t, k)
    BY <1>4 DEF Running
  <2>2. k = 0 /\ action[w] = "PARALLEL"
    BY <1>2, <1>4, <2>1, MasterOrWorker DEF InPhase, Running
  <2>3. InPhase(w, k)'
    BY <1>1, <1>2, <2>2, MasterOrWorker DEF InPhase, PoolInv, PoolTypeOK
  <2>4. \A u \in Threads \ {w} : InPhase(u, k)'
    BY <1>1, <1>2, <2>1, <2>2, MasterOrWorker DEF InPhase, PoolInv, PoolTypeOK
  <2>5. Running'
    BY <1>1, <1>2, <1>4, <2>2, <2>3, <2>4, MasterOrWorker DEF Running
  <2> QED
    BY <1>2, <1>3, <2>5 DEF PoolPart, Segment
<1>5. CASE Closing
  <2>1. Closing'
    BY <1>1, <1>2, <1>5, MasterOrWorker DEF Closing, Rested
  <2> QED
    BY <1>2, <1>3, <2>1 DEF PoolPart, Segment
<1> QED
  BY <1>2, <1>4, <1>5, MasterOrWorker DEF PoolInv, Creating, Waiting, Starting, Segment

LEMMA PhaseKeepsPool ==
    ASSUME PoolInv, NEW t \in Threads, DoPhase(t)
    PROVE  /\ PoolPart' /\ Running /\ job[t] = pfunc
           /\ \A k \in 0 .. Phases - 1 : InPhase(t, k) => k = phase[t]
<1>1. /\ pc' \in [Threads -> Labels] /\ pc[t] = "run"
      /\ pc'[t] = (IF phase[t] + 1 < Phases THEN "inner" ELSE "end")
      /\ \A u \in Threads \ {t} : pc'[u] = pc[u]
      /\ UNCHANGED <<barrierVars, status, pfunc, action, job>>
      /\ phase' = [phase EXCEPT ![t] = phase[t] + 1]
  BY MasterOrWorker DEF PoolInv, PoolTypeOK, DoPhase, Goto, Labels
<1>2. /\ InsideBarrier'
      /\ Stands(t) = "run" /\ Stands(t)' = pc'[t]
      /\ \A u \in Threads \ {t} : Stands(u)' = Stands(u)
  BY <1>1, MasterOrWorker, OutsideBarrier DEF AtBarrier
<1>3. PoolTypeOK'
  BY <1>1, MasterOrWorker DEF PoolInv, PoolTypeOK
<1>4. Running
  BY <1>2, MasterOrWorker DEF PoolInv, Creating, Waiting, Starting, Closing, Segment
<1>5. PICK k \in 0 .. Phases - 1 : \A u \in Threads : InPhase(u, k)
  BY <1>4 DEF Running
<1>6. \A j \in 0 .. Phases - 1 : InPhase(t, j) => job[t] = pfunc /\ phase[t] = j
  BY <1>2, MasterOrWorker DEF InPhase
<1>7. InPhase(t, k)'
  BY <1>1, <1>2, <1>5, <1>6, MasterOrWorker DEF InPhase, PoolInv, PoolTypeOK
<1>8. \A u \in Threads \ {t} : InPhase(u, k)'
  BY <1>1, <1>2, <1>5, MasterOrWorker DEF InPhase, PoolInv, PoolTypeOK
<1>9. Running'
  BY <1>1, <1>2, <1>4, <1>5, <1>7, <1>8, MasterOrWorker DEF Running
<1> QED
  BY <1>2, <1>3, <1>4, <1>5, <1>6, <1>9 DEF PoolPart, Segment

-----------------------------------------------------------------------------
LEMMA InitPool == Init => PoolInv
<1> SUFFICES ASSUME Init PROVE PoolInv
  OBVIOUS
<1>1. BarrierInv
  BY BarrierInitInv DEF Init
<1>2. PoolTypeOK /\ InsideBarrier
  BY MasterOrWorker DEF Init, BarrierInit, PoolTypeOK, InsideBarrier, Labels, Requests
<1>3. \A t \in Threads : Stands(t) = pc[t]
  BY DEF Init, BarrierInit, Stands, Released
<1>4. Creating
  BY <1>3, MasterOrWorker DEF Init, Creating, Rested
<1> QED
  BY <1>1, <1>2, <1>4 DEF PoolInv, Segment

LEMMA NextPool == PoolInv /\ [Next]_vars => PoolInv'
<1> SUFFICES ASSUME PoolInv, [Next]_vars PROVE PoolInv'
  OBVIOUS
<1>1. BarrierInv'
  BY PoolStep, BarrierNextInv DEF PoolInv
<1>2. CASE Call \/ Finalize \/ MasterStep
  BY <1>1, <1>2, RequestKeepsPool, CreatedKeepsPool, BroadcastKeepsPool, ResetKeepsPool, JoinKeepsPool
     DEF MasterStep, PoolPart, PoolInv
<1>3. ASSUME NEW w \in Workers, WorkerStep(w) PROVE PoolInv'
  BY <1>1, <1>3, CreateKeepsPool, CheckKeepsPool, DispatchKeepsPool DEF WorkerStep, PoolPart, PoolInv
<1>4. ASSUME NEW t \in Threads, TeamStep(t) \/ Spurious(t) PROVE PoolInv'
  BY <1>1, <1>4, TeamKeepsPool, PhaseKeepsPool, SpuriousKeepsPool DEF TeamStep, PoolPart, PoolInv
<1>5. CASE UNCHANGED vars
  <2>1. Released' = Released /\ UNCHANGED <<where, pc, status, pfunc, action, job, phase>>
    BY <1>5 DEF vars, barrierVars, poolVars, Released
  <2>2. \A u \in Threads : Stands(u)' = Stands(u)
    BY <2>1 DEF Stands, AfterBarrier
  <2>3. Segment'
    BY <2>1, <2>2, SameSegment DEF PoolInv
  <2> QED
    BY <1>1, <2>1, <2>3 DEF PoolInv, PoolTypeOK, InsideBarrier
<1> QED
  BY <1>2, <1>3, <1>4, <1>5 DEF Next, Closed

(* The threads of the pool are always between the same two barriers, and   *)
(* there each of them is where the request, its function and its phases    *)
(* put it: for every number of threads, of calls and of phases.            *)
THEOREM PoolInvariant == Spec => []PoolInv
<1> QED
  BY InitPool, NextPool, PTL DEF Spec

(* The master resets the status without the lock only when no worker can   *)
(* read it: the unlocked write of isched_parallel_call and ischedFinalize  *)
(* is safe, however many threads there are.                                *)
THEOREM UnlockedWriteSafeAlways == Spec => []UnlockedWriteSafe
<1>1. PoolInv => UnlockedWriteSafe
  <2> SUFFICES ASSUME PoolInv, pc[Master] = "reset", NEW w \in Workers
               PROVE  /\ pc[w] \notin {"check", "standby"}
                      /\ pc[w] = "start" => where[w] = "awake"
    BY DEF UnlockedWriteSafe
  <2>1. Stands(Master) = "reset"
    BY MasterOrWorker DEF PoolInv, InsideBarrier, AtBarrier, Stands, Released
  <2>2. Running \/ Closing
    BY <2>1 DEF PoolInv, Segment, Creating, Waiting, Starting
  <2>3. Stands(w) \notin {"check", "standby", "start"}
    <3>1. CASE Running
      <4>1. PICK k \in 0 .. Phases - 1 : \A t \in Threads : InPhase(t, k)
        BY <3>1 DEF Running
      <4> QED
        BY <4>1, MasterOrWorker DEF InPhase
    <3>2. CASE Closing
      BY <3>2 DEF Closing
    <3> QED
      BY <2>2, <3>1, <3>2
  <2>4. CASE w \notin Released
    BY <2>3, <2>4 DEF Stands
  <2>5. CASE w \in Released
    BY <2>5, MasterOrWorker
       DEF PoolInv, InsideBarrier, AtBarrier, Released, BarrierInv, BarrierTypeOK, NoLostWakeup
  <2> QED
    BY <2>4, <2>5
<1> QED
  BY <1>1, PoolInvariant, PTL

-----------------------------------------------------------------------------
(* The phases of the current call that each thread has completed.          *)
Completed == [t \in Threads |-> IF job[t] = pfunc THEN phase[t] ELSE 0]

LEMMA SameCompleted ==
    ASSUME UNCHANGED pfunc,
           \A t \in Threads : (IF job'[t] = pfunc THEN phase'[t] ELSE 0)
                               = (IF job[t] = pfunc THEN phase[t] ELSE 0)
    PROVE  Completed' = Completed
  BY DEF Completed

LEMMA InitCall == Init => P!AbsInit
  BY MasterOrWorker DEF Init, P!AbsInit, State

(* A thread passes a barrier: the call returns if it is the master at the  *)
(* end of the call, and nothing happens otherwise.                         *)
LEMMA ReturnMapped ==
    ASSUME PoolInv, PoolInv', NEW t \in Threads, BarrierReturn(t)
    PROVE  P!Return \/ UNCHANGED <<pfunc, State, Completed>>
<1>1. /\ pc[t] \in AtBarrier /\ pc' = [pc EXCEPT ![t] = AfterBarrier(t)]
      /\ UNCHANGED <<status, pfunc, action, job, phase>>
  BY DEF BarrierReturn, Goto
<1>2. UNCHANGED <<pfunc, Completed>>
  BY <1>1 DEF Completed
<1>3. CASE ~ (t = Master /\ pc[t] = "end")
  <2>1. State' = State
    <3>1. CASE t = Master
      <4>1. pc'[Master] = AfterBarrier(Master)
        BY <1>1, <3>1 DEF PoolInv, PoolTypeOK
      <4> QED
        BY <1>1, <1>3, <3>1, <4>1 DEF State, AtBarrier, AfterBarrier
    <3>2. CASE t # Master
      BY <1>1, <3>2 DEF State
    <3> QED
      BY <3>1, <3>2
  <2> QED
    BY <1>2, <2>1
<1>4. CASE t = Master /\ pc[t] = "end"
  <2>1. pc'[Master] = "idle"
    BY <1>1, <1>4 DEF AfterBarrier, PoolInv, PoolTypeOK
  <2>2. Stands(Master)' = "idle"
    BY <2>1, MasterOrWorker DEF PoolInv, InsideBarrier, AtBarrier, Stands, Released
  <2>3. Waiting'
    BY <2>2, MasterOrWorker DEF PoolInv, Segment, Creating, Starting, Running, Closing, InPhase
  <2> QED
    BY <1>1, <1>2, <1>4, <2>1, <2>3 DEF P!Return, State, Waiting, Rested, Completed
<1> QED
  BY <1>3, <1>4

(* The master and the workers enter the function; nothing is done yet.     *)
LEMMA EnterMapped ==
    ASSUME PoolInv, Reset \/ \E w \in Workers : Dispatch(w)
    PROVE  UNCHANGED <<pfunc, State, Completed>>
<1> USE MasterOrWorker
<1>1. PICK t \in Threads :
         /\ pc[t] = (IF t = Master THEN "reset" ELSE "dispatch")
         /\ pfunc' = pfunc /\ action' = action /\ \A u \in Threads \ {t} : pc'[u] = pc[u]
         /\ \/ /\ action[t] = "PARALLEL" /\ pc'[t] = "run"
               /\ job' = [job EXCEPT ![t] = pfunc] /\ phase' = [phase EXCEPT ![t] = 0]
            \/ /\ action[t] # "PARALLEL" /\ pc'[t] \in {"join", "exited"}
               /\ UNCHANGED <<job, phase>>
  <2>1. CASE Reset
    BY <2>1 DEF Reset, Goto, PoolInv, PoolTypeOK
  <2>2. CASE \E w \in Workers : Dispatch(w)
    BY <2>2 DEF Dispatch, Goto, PoolInv, PoolTypeOK
  <2> QED
    BY <2>1, <2>2
<1>2. State' = State
  BY <1>1 DEF State
<1>3. CASE action[t] # "PARALLEL"
  BY <1>1, <1>2, <1>3 DEF Completed
<1>4. CASE action[t] = "PARALLEL"
  <2>1. Stands(t) = pc[t]
    BY <1>1 DEF PoolInv, InsideBarrier, AtBarrier, Stands, Released
  <2>2. Running
    BY <1>1, <1>4, <2>1 DEF PoolInv, Segment, Creating, Waiting, Starting, Closing
  <2>3. PICK k \in 0 .. Phases - 1 : InPhase(t, k)
    BY <2>2 DEF Running
  <2>4. job[t] # pfunc
    BY <1>1, <2>1, <2>3 DEF InPhase, PoolInv, PoolTypeOK
  <2>5. \A u \in Threads : (IF job'[u] = pfunc THEN phase'[u] ELSE 0)
                            = (IF job[u] = pfunc THEN phase[u] ELSE 0)
    BY <1>1, <1>4, <2>4 DEF PoolInv, PoolTypeOK
  <2> QED
    BY <1>1, <1>2, <2>5, SameCompleted
<1> QED
  BY <1>3, <1>4

LEMMA PhaseMapped ==
    ASSUME PoolInv, NEW t \in Threads, DoPhase(t)
    PROVE  P!DoPhase(t)
<1> USE MasterOrWorker
<1>1. /\ pc[t] = "run" /\ pc' = [pc EXCEPT ![t] = IF phase[t] + 1 < Phases THEN "inner" ELSE "end"]
      /\ UNCHANGED <<pfunc, action, job>> /\ phase' = [phase EXCEPT ![t] = @ + 1]
  BY DEF DoPhase, Goto
<1>2. Running /\ job[t] = pfunc /\ \A k \in 0 .. Phases - 1 : InPhase(t, k) => k = phase[t]
  BY PhaseKeepsPool
<1>3. PICK k \in 0 .. Phases - 1 : \A u \in Threads : InPhase(u, k)
  BY <1>2 DEF Running
<1>4. k = phase[t] /\ Completed[t] = k /\ k < Phases
  BY <1>2, <1>3 DEF Completed
<1>5. \A u \in Threads : Completed[u] \in {k, k + 1}
  <2> SUFFICES ASSUME NEW u \in Threads PROVE Completed[u] \in {k, k + 1}
    OBVIOUS
  <2>1. InPhase(u, k) /\ job[u] \in Nat /\ phase[u] \in Nat /\ pfunc \in Nat
    BY <1>3 DEF PoolInv, PoolTypeOK
  <2> QED
    BY <2>1 DEF InPhase, Completed
<1>6. Completed' = [Completed EXCEPT ![t] = @ + 1]
  BY <1>1, <1>2 DEF Completed, PoolInv, PoolTypeOK
<1>7. State = "calling" /\ State' = "calling"
  <2>1. Stands(Master) \in {"reset", "run", "inner", "end"}
    BY <1>3 DEF InPhase
  <2>2. pc[Master] \notin {"create", "init", "idle"}
    <3>1. CASE Master \in Released
      <4>1. pc[Master] # "init"
        BY <2>1, <3>1 DEF Stands, AfterBarrier
      <4>2. pc[Master] \in AtBarrier
        BY <3>1 DEF Released, PoolInv, InsideBarrier
      <4> QED
        BY <4>1, <4>2 DEF AtBarrier
    <3>2. CASE Master \notin Released
      BY <2>1, <3>2 DEF Stands
    <3> QED
      BY <3>1, <3>2
  <2>3. pc'[Master] \notin {"create", "init", "idle"}
    BY <1>1, <2>2 DEF PoolInv, PoolTypeOK
  <2>4. action[Master] = "PARALLEL" /\ action' = action
    BY <1>1, <1>2 DEF Running
  <2> QED
    BY <2>2, <2>3, <2>4 DEF State
<1>8. [u \in Threads |-> IF job[u] = pfunc THEN phase[u] ELSE 0] = Completed
  BY DEF Completed
<1>9. [u \in Threads |-> IF job'[u] = pfunc' THEN phase'[u] ELSE 0] = Completed'
  BY DEF Completed
<1> HIDE DEF Completed
<1>10. /\ State = "calling" /\ Completed[t] < Phases
       /\ \A u \in Threads : Completed[u] >= Completed[t]
       /\ Completed' = [Completed EXCEPT ![t] = @ + 1]
       /\ UNCHANGED <<pfunc, State>>
  BY <1>1, <1>4, <1>5, <1>6, <1>7
<1> QED
  BY <1>8, <1>9, <1>10 DEF P!DoPhase

LEMMA RequestMapped ==
    ASSUME PoolInv, Call \/ Finalize
    PROVE  P!Call \/ P!Close
<1> USE MasterOrWorker
<1>1. Waiting /\ Starting' /\ pc[Master] = "idle" /\ pc'[Master] = "broadcast"
  BY RequestKeepsPool DEF Call, Finalize, Goto, PoolInv, PoolTypeOK
<1>2. State = "idle"
  BY <1>1 DEF State
<1>3. CASE Call
  <2>1. action'[Master] = "PARALLEL" /\ pfunc' = pfunc + 1 /\ pfunc < MaxCalls /\ status' = "PARALLEL"
    BY <1>3 DEF Call, PoolInv, PoolTypeOK
  <2>2. State' = "calling"
    BY <1>1, <2>1 DEF State
  <2>3. \A t \in Threads : job'[t] # pfunc'
    BY <1>1, <1>3, <2>1 DEF Waiting, Rested, Call, PoolInv, PoolTypeOK
  <2>4. [t \in Threads |-> IF job'[t] = pfunc' THEN phase'[t] ELSE 0] = [t \in Threads |-> 0]
    BY <2>3
  <2> QED
    BY <1>2, <2>1, <2>2, <2>4 DEF P!Call
<1>4. CASE Finalize
  <2>1. action'[Master] = "FINALIZE" /\ UNCHANGED <<pfunc, job, phase>>
    BY <1>4 DEF Finalize, PoolInv, PoolTypeOK
  <2>2. State' = "closed"
    BY <1>1, <2>1 DEF State
  <2> QED
    BY <1>2, <2>1, <2>2 DEF P!Close
<1> QED
  BY <1>3, <1>4

(* Every other step is silent.                                             *)
LEMMA SilentMapped ==
    ASSUME PoolInv,
           \/ Created \/ BroadcastStatus \/ Join
           \/ \E w \in Workers : Create(w) \/ CheckStatus(w)
           \/ \E t \in Threads : BarrierSleep(t) \/ Spurious(t)
           \/ UNCHANGED vars
    PROVE  UNCHANGED <<pfunc, State, Completed>>
<1> USE MasterOrWorker
<1>1. /\ UNCHANGED <<pfunc, job, phase>> /\ action'[Master] = action[Master]
      /\ pc'[Master] = pc[Master] \/ {pc'[Master], pc[Master]} \in {{"create", "init"}, {"broadcast", "start"}, {"join", "closed"}}
  <2>1. CASE Created
    BY <2>1 DEF Created, Goto, PoolInv, PoolTypeOK
  <2>2. CASE BroadcastStatus
    BY <2>2 DEF BroadcastStatus, PoolInv, PoolTypeOK
  <2>3. CASE Join
    BY <2>3 DEF Join, Goto, PoolInv, PoolTypeOK
  <2>4. ASSUME NEW w \in Workers, Create(w) \/ CheckStatus(w) PROVE <1>1!:
    BY <2>4 DEF Create, CheckStatus, Goto, PoolInv, PoolTypeOK
  <2>5. ASSUME NEW t \in Threads, BarrierSleep(t) PROVE <1>1!:
    BY <2>5 DEF BarrierSleep, poolVars
  <2>6. ASSUME NEW t \in Threads, Spurious(t) PROVE <1>1!:
    <3>1. CASE SpuriousWake(t) /\ UNCHANGED poolVars
      BY <3>1 DEF poolVars
    <3>2. CASE pc[t] = "standby" /\ Goto(t, "check") /\ UNCHANGED <<barrierVars, status, pfunc, action, job, phase>>
      <4>1. t # Master
        <5>1. Stands(t) = "standby"
          BY <3>2 DEF PoolInv, InsideBarrier, AtBarrier, Stands, Released
        <5> QED
          BY <5>1 DEF PoolInv, Segment, Creating, Waiting, Starting, Running, Closing, InPhase
      <4> QED
        BY <3>2, <4>1 DEF Goto, PoolInv, PoolTypeOK
    <3> QED
      BY <2>6, <3>1, <3>2 DEF Spurious
  <2>7. CASE UNCHANGED vars
    BY <2>7 DEF vars, poolVars
  <2> QED
    BY <2>1, <2>2, <2>3, <2>4, <2>5, <2>6, <2>7
<1>2. Completed' = Completed
  BY <1>1 DEF Completed
<1>3. State' = State
  BY <1>1 DEF State
<1> QED
  BY <1>1, <1>2, <1>3

LEMMA StepMapped == PoolInv /\ PoolInv' /\ [Next]_vars => [P!AbsNext]_(P!absVars)
<1> SUFFICES ASSUME PoolInv, PoolInv', [Next]_vars
             PROVE  P!AbsNext \/ UNCHANGED <<pfunc, State, Completed>>
  BY DEF P!absVars, Completed
<1>1. CASE Call \/ Finalize
  BY <1>1, RequestMapped DEF P!AbsNext
<1>2. CASE MasterStep
  BY <1>2, SilentMapped, EnterMapped DEF MasterStep
<1>3. ASSUME NEW w \in Workers, WorkerStep(w) PROVE UNCHANGED <<pfunc, State, Completed>>
  BY <1>3, SilentMapped, EnterMapped DEF WorkerStep
<1>4. ASSUME NEW t \in Threads, TeamStep(t) \/ Spurious(t)
      PROVE  P!AbsNext \/ UNCHANGED <<pfunc, State, Completed>>
  <2>1. CASE DoPhase(t)
    BY <2>1, PhaseMapped DEF P!AbsNext
  <2>2. CASE BarrierReturn(t)
    BY <2>2, ReturnMapped DEF P!AbsNext
  <2>3. CASE BarrierSleep(t) \/ Spurious(t)
    BY <2>3, SilentMapped
  <2> QED
    BY <1>4, <2>1, <2>2, <2>3 DEF TeamStep
<1>5. CASE UNCHANGED vars
  BY <1>5, SilentMapped
<1> QED
  BY <1>1, <1>2, <1>3, <1>4, <1>5 DEF Next, Closed

(* The pool keeps the promise of ParallelCall, whatever the numbers of     *)
(* threads, calls and phases: every call makes every thread execute the    *)
(* function once, no thread begins a phase before all of them finished the *)
(* previous one, and the call returns when all are done.                   *)
THEOREM PoolFollowsParallelCall == Spec => P!AbsInit /\ [][P!AbsNext]_(P!absVars)
<1> QED
  BY InitCall, StepMapped, PoolInvariant, PTL DEF Spec
=============================================================================
