------------------------- MODULE DynamicLoopProofs -------------------------
(***************************************************************************)
(* TLAPS proofs about the dynamic scheduler, for any number of threads,    *)
(* any graph of column blocks, any priorities and any initial distribution *)
(* of the tasks.                                                           *)
(***************************************************************************)
EXTENDS DynamicLoop, FiniteSetTheorems, TLAPS

-----------------------------------------------------------------------------
(* The inductive invariant.                                                *)

Working == {"update", "release", "push"}

(* The phases of the threads: nobody passes a barrier alone.               *)
Phases ==
    \A t, u \in Ranks :
        /\ pc[t] \in {"init", "startBarrier"} => pc[u] \in {"init", "startBarrier"}
        /\ pc[t] = "exit" => pc[u] = "exit"

(* Before the first barrier nothing has moved.                             *)
Starting ==
    \A t \in Ranks : pc[t] \in {"init", "startBarrier"} =>
        /\ cur[t] = NoCblk
        /\ \A c \in queue[t] : Owner[c] = t
        /\ pc[t] = "init" => queue[t] = {}
        /\ \A c \in Cblks : runs[c] = 0

(* What a thread holds depends on where it stands.                         *)
Holding ==
    \A t \in Ranks :
        /\ cur[t] # NoCblk <=> pc[t] \in {"got"} \cup Working
        /\ pc[t] \in Working => cur[t] \in Tasks /\ threadid[cur[t]] = t
        /\ todo[t] # {} => pc[t] \in Working
        /\ pc[t] \in {"release", "push"} => \E e \in todo[t] : IsNext(e, t)
        /\ \A e \in todo[t] : Src[e] = cur[t]

(* A column block is computed once, and not while it is ready to be.       *)
Computed ==
    \A c \in Cblks :
        /\ runs[c] \in {0, 1}
        /\ runs[c] = 1 => \A t \in Ranks : c \notin queue[t] /\ ~ Pushes(t, c)
        /\ \A t \in Ranks : cur[t] = c => (runs[c] = 0 <=> pc[t] = "got")

(* Thread t applied contribution e and has not released it yet.            *)
Releasing(t, e) == pc[t] = "release" /\ IsNext(e, t)

(* A contribution is applied once, by the thread that computed its source. *)
Contributed ==
    \A e \in Edges :
        /\ applied[e] \in {0, 1}
        /\ applied[e] = 1 => runs[Src[e]] = 1
        /\ runs[Src[e]] = 1 /\ applied[e] = 0 => \E t \in Ranks : e \in todo[t]
        /\ \A t \in Ranks : e \in todo[t] =>
              (applied[e] = 1 <=> pc[t] \in {"release", "push"} /\ IsNext(e, t))

(* The contributions to c that were counted down.                          *)
Released(c) ==
    {e \in Into(c) : applied[e] = 1 /\ \A t \in Ranks : ~ Releasing(t, e)}

(* The counter of a column block counts down its contributions, and is at  *)
(* zero wherever the column block may be found.                            *)
Counters ==
    \A c \in Cblks :
        /\ ctrbcnt[c] + Cardinality(Released(c)) = Ctrb[c]
        /\ \A t \in Ranks : c \in queue[t] \/ cur[t] = c \/ Pushes(t, c) => ctrbcnt[c] = 0
        /\ runs[c] = 1 => ctrbcnt[c] = 0

(* The local counts stand for column blocks computed and not held.         *)
LocalCounts ==
    \A t \in Ranks :
        /\ done[t] = Cardinality(fresh[t])
        /\ \A c \in fresh[t] : c \in Tasks /\ runs[c] = 1 /\ \A u \in Ranks : cur[u] # c
        /\ \A u \in Ranks : fresh[t] \cap fresh[u] # {} => t = u

(* The tasks that were taken off taskcnt.                                  *)
Flushed ==
    {c \in Tasks : runs[c] = 1 /\ \A t \in Ranks : cur[t] # c /\ c \notin fresh[t]}

GlobalCount == taskcnt + Cardinality(Flushed) = TaskCnt

LoopInv ==
    TypeOK /\ Phases /\ Starting /\ Holding /\ OnePlace /\ Computed /\ Contributed
           /\ Counters /\ LocalCounts /\ GlobalCount
-----------------------------------------------------------------------------
(* Facts about the parameters and the derived predicates.                  *)

LEMMA Params ==
    /\ Edges \subseteq Int /\ NoCblk \notin Cblks
    /\ \A e \in Edges : Src[e] \in Tasks /\ Src[e] \in Cblks /\ Dst[e] \in Cblks
    /\ \A c \in Cblks : Owner[c] \in Ranks /\ Ctrb[c] \in Nat
    /\ Tasks \subseteq Cblks
BY LoopAssumption DEF Tasks

(* The contributions to a column block are finitely many, and so are those *)
(* already counted down.                                                   *)
LEMMA ReleasedFinite ==
    ASSUME NEW c \in Cblks
    PROVE  /\ IsFiniteSet(Into(c)) /\ IsFiniteSet(Released(c))
           /\ Cardinality(Released(c)) \in Nat /\ Cardinality(Into(c)) \in Nat
           /\ Cardinality(Released(c)) <= Cardinality(Into(c))
           /\ Cardinality(Released(c)) = Cardinality(Into(c)) => Released(c) = Into(c)
<1>1. Into(c) \subseteq Edges /\ Released(c) \subseteq Into(c)
  BY DEF Into, Released
<1>2. IsFiniteSet(Into(c)) /\ IsFiniteSet(Released(c))
  BY <1>1, LoopAssumption, FS_Subset
<1> QED
  BY <1>1, <1>2, FS_Subset, FS_CardinalityType

(* The tasks are finitely many, and so are those taken off taskcnt.        *)
LEMMA FlushedFinite ==
    /\ IsFiniteSet(Tasks) /\ IsFiniteSet(Flushed)
    /\ Cardinality(Flushed) \in Nat /\ Cardinality(Tasks) \in Nat
    /\ Cardinality(Flushed) <= Cardinality(Tasks)
    /\ Cardinality(Flushed) = Cardinality(Tasks) => Flushed = Tasks
<1>1. Tasks \subseteq Cblks /\ Flushed \subseteq Tasks
  BY DEF Tasks, Flushed
<1>2. IsFiniteSet(Tasks) /\ IsFiniteSet(Flushed)
  BY <1>1, LoopAssumption, FS_Subset
<1> QED
  BY <1>1, <1>2, FS_Subset, FS_CardinalityType

(* A column block waits for as many contributions at least as it will get. *)
LEMMA EnoughCtrb == \A c \in Cblks : Ctrb[c] >= Cardinality(Into(c))
BY CounterAssumption, LoopAssumption, ReleasedFinite DEF Tasks

(* A thread is at one contribution at a time.                              *)
LEMMA NextUnique ==
    ASSUME TypeOK, NEW t \in Ranks, NEW e, NEW f, IsNext(e, t), IsNext(f, t)
    PROVE  e = f
BY Params DEF TypeOK, IsNext

(* A step changes nothing to the contributions being released when the     *)
(* threads that move are not releasing any, before or after.               *)
LEMMA EdgeFrame ==
    ASSUME applied' = applied,
           \A u \in Ranks :
              \/ pc'[u] = pc[u] /\ todo'[u] = todo[u]
              \/ pc[u] \notin {"release", "push"} /\ pc'[u] \notin {"release", "push"}
    PROVE  /\ \A u \in Ranks, c \in Cblks : Pushes(u, c)' <=> Pushes(u, c)
           /\ \A c \in Cblks : Released(c)' = Released(c)
<1>1. \A u \in Ranks, c \in Cblks : Pushes(u, c)' <=> Pushes(u, c)
  BY DEF Pushes, IsNext
<1>2. \A u \in Ranks, e \in Edges : Releasing(u, e)' <=> Releasing(u, e)
  BY DEF Releasing, IsNext
<1>3. \A c \in Cblks : Released(c)' = Released(c)
  BY <1>2 DEF Released, Into
<1> QED
  BY <1>1, <1>3

-----------------------------------------------------------------------------
(* Each action preserves the invariant.                                    *)

(* A thread that moves between two points of the loop and holds nothing.   *)
LEMMA IdleInv ==
    ASSUME LoopInv, NEW t \in Ranks,
           NEW l \in {"loop", "pop", "flush", "steal", "endBarrier"},
           pc[t] \in {"loop", "pop", "steal"},
           pc' = [pc EXCEPT ![t] = l], victim' \in [Ranks -> Ranks],
           UNCHANGED <<queue, ctrbcnt, threadid, taskcnt, done, cur, todo, fresh, runs, applied>>
    PROVE  LoopInv'
<1> USE DEF LoopInv
<1>1. TypeOK'
  BY DEF TypeOK
<1>2. Phases' /\ Starting'
  BY DEF TypeOK, Phases, Starting
<1>3. Holding'
  BY DEF TypeOK, Holding, Working, IsNext
<1>4. /\ \A u \in Ranks, c \in Cblks : Pushes(u, c)' <=> Pushes(u, c)
      /\ \A c \in Cblks : Released(c)' = Released(c)
  BY EdgeFrame DEF TypeOK
<1>5. OnePlace'
  BY <1>4 DEF OnePlace
<1>6. Computed'
  BY <1>4 DEF TypeOK, Computed, Holding, Working
<1>7. Contributed'
  BY DEF TypeOK, Contributed, Holding, Working, IsNext
<1>8. Counters'
  BY <1>4 DEF Counters
<1>9. LocalCounts' /\ GlobalCount'
  BY DEF LocalCounts, GlobalCount, Flushed
<1> QED
  BY <1>1, <1>2, <1>3, <1>5, <1>6, <1>7, <1>8, <1>9

(* A thread takes a column block from a queue, its own or another one.     *)
LEMMA TakeInv ==
    ASSUME LoopInv, NEW t \in Ranks, NEW q \in Ranks,
           pc[t] \in {"pop", "steal"}, Take(t, q),
           UNCHANGED <<ctrbcnt, threadid, taskcnt, done, todo, victim, fresh, runs, applied>>
    PROVE  LoopInv'
<1> USE DEF LoopInv
<1>1. PICK c \in queue[q] : /\ cur'   = [cur EXCEPT ![t] = c]
                            /\ queue' = [queue EXCEPT ![q] = queue[q] \ {c}]
                            /\ pc'    = [pc EXCEPT ![t] = "got"]
  BY DEF Take, IsFirst, Goto
<1>2. c \in Cblks /\ cur[t] = NoCblk /\ todo[t] = {}
  BY <1>1 DEF TypeOK, Holding, Working
<1>3. TypeOK'
  BY <1>1, <1>2 DEF TypeOK
<1>4. Phases' /\ Starting'
  BY <1>1 DEF TypeOK, Phases, Starting
<1>5. Holding'
  BY <1>1, <1>2, Params DEF TypeOK, Holding, Working, IsNext
<1>6. /\ \A u \in Ranks, d \in Cblks : Pushes(u, d)' <=> Pushes(u, d)
      /\ \A d \in Cblks : Released(d)' = Released(d)
  BY <1>1, EdgeFrame DEF TypeOK
<1>7. OnePlace'
  BY <1>1, <1>2, <1>6 DEF TypeOK, OnePlace
<1>8. Computed'
  BY <1>1, <1>2, <1>6 DEF TypeOK, Computed
<1>9. Contributed'
  BY <1>1, <1>2 DEF TypeOK, Contributed, IsNext
<1>10. Counters'
  BY <1>1, <1>2, <1>6 DEF TypeOK, Counters
<1>11. runs[c] = 0
  BY <1>1, <1>2 DEF Computed
<1>12. LocalCounts'
  BY <1>1, <1>11 DEF TypeOK, LocalCounts
<1>13. Flushed' = Flushed
  BY <1>1, <1>2, <1>11, Params DEF TypeOK, Flushed
<1>14. GlobalCount'
  BY <1>13 DEF GlobalCount
<1> QED
  BY <1>3, <1>4, <1>5, <1>7, <1>8, <1>9, <1>10, <1>12, <1>14

LEMMA FillQueueInv ==
    ASSUME LoopInv, NEW t \in Ranks, FillQueue(t)
    PROVE  LoopInv'
<1> USE DEF LoopInv
<1> DEFINE filled == {c \in Cblks : Owner[c] = t /\ Ctrb[c] = 0}
<1>1. /\ pc[t] = "init" /\ pc' = [pc EXCEPT ![t] = "startBarrier"]
      /\ queue' = [queue EXCEPT ![t] = filled]
      /\ UNCHANGED <<ctrbcnt, threadid, taskcnt, done, cur, todo, victim, fresh, runs, applied>>
  BY DEF FillQueue, Goto
<1>2. /\ \A u \in Ranks : pc[u] \in {"init", "startBarrier"} /\ cur[u] = NoCblk
      /\ \A u \in Ranks : \A c \in queue[u] : Owner[c] = u
      /\ \A c \in Cblks : runs[c] = 0
  BY <1>1 DEF Phases, Starting
<1>3. TypeOK'
  BY <1>1 DEF TypeOK
<1>4. Phases' /\ Starting'
  BY <1>1, <1>2 DEF TypeOK, Phases, Starting
<1>5. Holding'
  BY <1>1 DEF TypeOK, Holding, Working, IsNext
<1>6. /\ \A u \in Ranks, c \in Cblks : Pushes(u, c)' <=> Pushes(u, c)
      /\ \A c \in Cblks : Released(c)' = Released(c)
  BY <1>1, EdgeFrame DEF TypeOK
<1>7. \A u \in Ranks, c \in Cblks : ~ Pushes(u, c)
  BY <1>2 DEF Pushes
<1>8. OnePlace'
  BY <1>1, <1>2, <1>6, <1>7, Params DEF TypeOK, OnePlace
<1>9. Computed'
  BY <1>1, <1>2, <1>6 DEF TypeOK, Computed
<1>10. Contributed'
  BY <1>1 DEF TypeOK, Contributed, IsNext
<1>11. \A c \in Cblks : ctrbcnt[c] = Ctrb[c]
  <2> SUFFICES ASSUME NEW c \in Cblks PROVE ctrbcnt[c] = Ctrb[c]
    OBVIOUS
  <2>1. Released(c) = {}
    <3>1. \A e \in Edges : applied[e] # 1
      BY <1>2, Params DEF Contributed
    <3> HIDE DEF LoopInv
    <3> QED
      BY <3>1 DEF Released, Into
  <2>2. Cardinality(Released(c)) = 0
    BY <2>1, FS_EmptySet
  <2> QED
    BY <2>2, Params DEF Counters, TypeOK
<1>12. Counters'
  BY <1>1, <1>6, <1>11 DEF TypeOK, Counters
<1>13. LocalCounts' /\ GlobalCount'
  BY <1>1 DEF LocalCounts, GlobalCount, Flushed
<1> QED
  BY <1>3, <1>4, <1>5, <1>8, <1>9, <1>10, <1>12, <1>13

(* The tasks a thread has counted locally are taken off the shared count.  *)
LEMMA FlushInv ==
    ASSUME LoopInv, NEW t \in Ranks, Flush(t)
    PROVE  LoopInv'
<1> USE DEF LoopInv
<1>1. /\ pc[t] = "flush" /\ pc' = [pc EXCEPT ![t] = "steal"]
      /\ taskcnt' = taskcnt - done[t]
      /\ done'    = [done EXCEPT ![t] = 0]
      /\ fresh'   = [fresh EXCEPT ![t] = {}]
      /\ UNCHANGED <<queue, ctrbcnt, threadid, cur, todo, runs, applied>>
  BY DEF Flush, Goto
<1>2. TypeOK'
  <2>1. victim' \in [Ranks -> Ranks]
    <3>1. (t + 1) % ThreadNbr \in Ranks
      BY LoopAssumption DEF Ranks
    <3> QED
      BY <3>1 DEF Flush, TypeOK
  <2>2. taskcnt' \in Int
    BY <1>1 DEF TypeOK
  <2>3. done' \in [Ranks -> Nat]
    BY <1>1 DEF TypeOK
  <2>4. fresh' \in [Ranks -> SUBSET Cblks]
    BY <1>1 DEF TypeOK
  <2>5. pc' \in [Ranks -> {"init", "startBarrier", "loop", "pop", "flush", "steal", "got",
                         "update", "release", "push", "endBarrier", "exit"}]
    BY <1>1 DEF TypeOK
  <2> QED
    BY <1>1, <2>1, <2>2, <2>3, <2>4, <2>5 DEF TypeOK
<1>3. Phases' /\ Starting'
  BY <1>1 DEF TypeOK, Phases, Starting
<1>4. Holding'
  BY <1>1 DEF TypeOK, Holding, Working, IsNext
<1>5. /\ \A u \in Ranks, c \in Cblks : Pushes(u, c)' <=> Pushes(u, c)
      /\ \A c \in Cblks : Released(c)' = Released(c)
  BY <1>1, EdgeFrame DEF TypeOK
<1>6. OnePlace'
  BY <1>1, <1>5 DEF OnePlace
<1>7. Computed'
  BY <1>1, <1>5 DEF TypeOK, Computed, Holding, Working
<1>8. Contributed'
  BY <1>1 DEF TypeOK, Contributed, IsNext
<1>9. Counters'
  BY <1>1, <1>5 DEF Counters
<1>10. LocalCounts'
  <2>1. done'[t] = Cardinality(fresh'[t])
    BY <1>1, FS_EmptySet DEF TypeOK
  <2> QED
    BY <1>1, <2>1 DEF TypeOK, LocalCounts
<1>11. GlobalCount'
  <2>1. Flushed' = Flushed \cup fresh[t] /\ Flushed \cap fresh[t] = {}
    BY <1>1 DEF TypeOK, Flushed, LocalCounts
  <2>2. IsFiniteSet(fresh[t]) /\ Cardinality(fresh[t]) = done[t]
    BY LoopAssumption, FS_Subset DEF TypeOK, LocalCounts
  <2>3. Cardinality(Flushed') = Cardinality(Flushed) + Cardinality(fresh[t]) - Cardinality({})
    BY <2>1, <2>2, FlushedFinite, FS_Union
  <2>4. Cardinality(Flushed') = Cardinality(Flushed) + done[t]
    BY <2>2, <2>3, FlushedFinite, FS_EmptySet DEF TypeOK
  <2> QED
    BY <1>1, <2>4, FlushedFinite, LoopAssumption DEF GlobalCount, TypeOK
<1> QED
  BY <1>2, <1>3, <1>4, <1>6, <1>7, <1>8, <1>9, <1>10, <1>11

(* A column block of the Schur complement is dropped.                      *)
LEMMA SkipInv ==
    ASSUME LoopInv, NEW t \in Ranks, Skip(t)
    PROVE  LoopInv'
<1> USE DEF LoopInv
<1>1. /\ pc[t] = "got" /\ cur[t] \in Skipped /\ pc' = [pc EXCEPT ![t] = "loop"]
      /\ cur' = [cur EXCEPT ![t] = NoCblk]
      /\ UNCHANGED <<queue, ctrbcnt, threadid, taskcnt, done, todo, victim, fresh, runs, applied>>
  BY DEF Skip, Goto
<1>2. TypeOK'
  BY <1>1 DEF TypeOK
<1>3. Phases' /\ Starting'
  BY <1>1 DEF TypeOK, Phases, Starting
<1>4. Holding'
  BY <1>1, Params DEF TypeOK, Holding, Working, IsNext
<1>5. /\ \A u \in Ranks, c \in Cblks : Pushes(u, c)' <=> Pushes(u, c)
      /\ \A c \in Cblks : Released(c)' = Released(c)
  BY <1>1, EdgeFrame DEF TypeOK
<1>6. OnePlace'
  BY <1>1, <1>5, Params DEF TypeOK, OnePlace
<1>7. Computed'
  BY <1>1, <1>5, Params DEF TypeOK, Computed
<1>8. Contributed'
  BY <1>1 DEF TypeOK, Contributed, IsNext
<1>9. Counters'
  BY <1>1, <1>5, Params DEF TypeOK, Counters
<1>10. LocalCounts'
  BY <1>1, Params DEF TypeOK, LocalCounts
<1>11. Flushed' = Flushed
  BY <1>1, Params DEF TypeOK, Flushed, Tasks
<1>12. GlobalCount'
  BY <1>1, <1>11 DEF GlobalCount
<1> QED
  BY <1>2, <1>3, <1>4, <1>6, <1>7, <1>8, <1>9, <1>10, <1>12

(* The counter of the column block is at zero: nobody else can have it.    *)
LEMMA ComputeInv ==
    ASSUME LoopInv, NEW t \in Ranks, Compute(t)
    PROVE  LoopInv'
<1> USE DEF LoopInv
<1> DEFINE c == cur[t]
<1>1. /\ pc[t] = "got" /\ c \in Tasks /\ pc' = [pc EXCEPT ![t] = "update"]
      /\ threadid' = [threadid EXCEPT ![c] = t]
      /\ runs' = [runs EXCEPT ![c] = runs[c] + 1]
      /\ todo' = [todo EXCEPT ![t] = OutOf(c)]
      /\ UNCHANGED <<queue, ctrbcnt, taskcnt, done, cur, victim, fresh, applied>>
  BY DEF Compute, Goto
<1>2. c \in Cblks /\ runs[c] = 0 /\ ctrbcnt[c] = 0 /\ todo[t] = {}
  BY <1>1, Params DEF Computed, Counters, Holding, Working
<1>3. \A u \in Ranks : cur[u] = c => u = t
  BY <1>2 DEF OnePlace
<1>4. \A u \in Ranks : c \notin queue[u] /\ ~ Pushes(u, c)
  BY <1>2 DEF OnePlace
<1> HIDE DEF c
<1>5. TypeOK'
  BY <1>1, <1>2 DEF TypeOK, OutOf
<1>6. Phases' /\ Starting'
  BY <1>1 DEF TypeOK, Phases, Starting
<1>7. Holding'
  <2>1. c # NoCblk /\ c = cur[t]
    BY <1>2, Params DEF c
  <2>2. \A e \in OutOf(c) : Src[e] = c
    BY DEF OutOf
  <2> QED
    BY <1>1, <1>2, <1>3, <2>1, <2>2, Params DEF TypeOK, Holding, Working, IsNext
<1>8. /\ \A u \in Ranks, d \in Cblks : Pushes(u, d)' <=> Pushes(u, d)
      /\ \A d \in Cblks : Released(d)' = Released(d)
  BY <1>1, EdgeFrame DEF TypeOK
<1>9. OnePlace'
  BY <1>1, <1>8 DEF OnePlace
<1>10. Computed'
  BY <1>1, <1>2, <1>3, <1>4, <1>8 DEF TypeOK, Computed, c
<1>11. \A e \in OutOf(c) : applied[e] = 0 /\ Src[e] = c
  BY <1>2, Params DEF Contributed, OutOf
<1>12. \A u \in Ranks, e \in Edges : u # t => (IsNext(e, u)' <=> IsNext(e, u))
  BY <1>1 DEF IsNext, TypeOK
<1>13. Contributed'
  <2> SUFFICES ASSUME NEW e \in Edges
               PROVE  /\ applied'[e] \in {0, 1}
                      /\ applied'[e] = 1 => runs'[Src[e]] = 1
                      /\ runs'[Src[e]] = 1 /\ applied'[e] = 0 => \E u \in Ranks : e \in todo'[u]
                      /\ \A u \in Ranks : e \in todo'[u] =>
                            (applied'[e] = 1 <=> pc'[u] \in {"release", "push"} /\ IsNext(e, u)')
    BY DEF Contributed
  <2>1. applied'[e] \in {0, 1}
    BY <1>1 DEF Contributed
  <2>2. applied'[e] = 1 => runs'[Src[e]] = 1
    BY <1>1, <1>2, Params DEF Contributed, TypeOK
  <2>3. runs'[Src[e]] = 1 /\ applied'[e] = 0 => \E u \in Ranks : e \in todo'[u]
    <3>1. CASE Src[e] = c
      BY <1>1, <3>1 DEF OutOf, TypeOK
    <3>2. CASE Src[e] # c
      BY <1>1, <1>2, <3>2, Params DEF Contributed, TypeOK
    <3> QED
      BY <3>1, <3>2
  <2>4. ASSUME NEW u \in Ranks, e \in todo'[u]
        PROVE  applied'[e] = 1 <=> pc'[u] \in {"release", "push"} /\ IsNext(e, u)'
    <3>1. CASE u = t
      BY <1>1, <1>11, <2>4, <3>1 DEF TypeOK
    <3>2. CASE u # t
      BY <1>1, <1>12, <2>4, <3>2 DEF TypeOK, Contributed
    <3> QED
      BY <3>1, <3>2
  <2> QED
    BY <2>1, <2>2, <2>3, <2>4
<1>14. Counters'
  BY <1>1, <1>2, <1>8 DEF TypeOK, Counters
<1>15. LocalCounts'
  BY <1>1, <1>2 DEF TypeOK, LocalCounts
<1>16. Flushed' = Flushed
  BY <1>1, <1>2, Params DEF TypeOK, Flushed, c
<1>17. GlobalCount'
  BY <1>1, <1>16 DEF GlobalCount
<1> QED
  BY <1>5, <1>6, <1>7, <1>9, <1>10, <1>13, <1>14, <1>15, <1>17

(* A contribution is applied to the column block it faces.                 *)
LEMMA UpdateInv ==
    ASSUME LoopInv, NEW t \in Ranks, Update(t)
    PROVE  LoopInv'
<1> USE DEF LoopInv
<1>1. PICK e \in Edges :
         /\ pc[t] = "update" /\ pc' = [pc EXCEPT ![t] = "release"] /\ IsNext(e, t)
         /\ applied' = [applied EXCEPT ![e] = applied[e] + 1]
         /\ UNCHANGED <<queue, ctrbcnt, threadid, taskcnt, done, cur, todo, victim, fresh, runs>>
  BY DEF Update, Goto
<1>2. /\ e \in todo[t] /\ Src[e] = cur[t] /\ cur[t] \in Tasks /\ cur[t] \in Cblks
      /\ runs[cur[t]] = 1 /\ applied[e] = 0
  BY <1>1, Params DEF IsNext, Holding, Working, Computed, Contributed
<1>3. TypeOK'
  BY <1>1 DEF TypeOK
<1>4. Phases' /\ Starting'
  BY <1>1 DEF TypeOK, Phases, Starting
<1>5. \A u \in Ranks, f \in Edges : IsNext(f, u)' <=> IsNext(f, u)
  BY <1>1 DEF IsNext
<1>6. Holding'
  BY <1>1, <1>2 DEF TypeOK, Holding, Working, IsNext
<1>7. \A u \in Ranks, c \in Cblks : Pushes(u, c)' <=> Pushes(u, c)
  BY <1>1, <1>5 DEF TypeOK, Pushes
<1>8. OnePlace'
  BY <1>1, <1>7 DEF OnePlace
<1>9. Computed'
  BY <1>1, <1>7 DEF TypeOK, Computed
<1>10. \A u \in Ranks : e \in todo[u] => u = t
  BY <1>2 DEF Holding, OnePlace
<1>11. \A c \in Cblks : Released(c)' = Released(c)
  <2>1. \A f \in Edges : f # e => applied'[f] = applied[f] /\ \A u \in Ranks : Releasing(u, f)' <=> Releasing(u, f)
    BY <1>1, <1>5, NextUnique DEF TypeOK, Releasing
  <2>2. applied[e] = 0 /\ Releasing(t, e)'
    BY <1>1, <1>2, <1>5 DEF Releasing, TypeOK
  <2> QED
    BY <2>1, <2>2 DEF Released, Into
<1>12. Contributed'
  <2>1. \A f \in Edges : IsNext(f, t) => f = e
    BY <1>1, NextUnique
  <2>2. applied'[e] = 1
    BY <1>1, <1>2 DEF TypeOK
  <2>3. \A f \in Edges : f # e => applied'[f] = applied[f]
    BY <1>1 DEF TypeOK
  <2>4. \A u \in Ranks : pc'[u] = IF u = t THEN "release" ELSE pc[u]
    BY <1>1 DEF TypeOK
  <2> QED
    BY <1>1, <1>2, <1>5, <1>10, <2>1, <2>2, <2>3, <2>4 DEF Contributed
<1>13. Counters'
  BY <1>1, <1>7, <1>11 DEF Counters
<1>14. LocalCounts' /\ GlobalCount'
  BY <1>1 DEF LocalCounts, GlobalCount, Flushed
<1> QED
  BY <1>3, <1>4, <1>6, <1>8, <1>9, <1>12, <1>13, <1>14

(* The first contribution of a thread that releases one.                   *)
LEMMA ReleasePick ==
    ASSUME LoopInv, NEW t \in Ranks, Release(t)
    PROVE  \E e \in Edges :
         /\ pc[t] = "release" /\ IsNext(e, t)
         /\ ctrbcnt' = [ctrbcnt EXCEPT ![Dst[e]] = ctrbcnt[Dst[e]] - 1]
         /\ \/ /\ ctrbcnt[Dst[e]] = 1 /\ pc' = [pc EXCEPT ![t] = "push"] /\ todo' = todo
            \/ /\ ctrbcnt[Dst[e]] # 1 /\ pc' = [pc EXCEPT ![t] = "update"]
               /\ todo' = [todo EXCEPT ![t] = todo[t] \ {e}]
         /\ UNCHANGED <<queue, threadid, taskcnt, done, cur, victim, fresh, runs, applied>>
<1>1. PICK e \in Edges :
         /\ IsNext(e, t)
         /\ ctrbcnt' = [ctrbcnt EXCEPT ![Dst[e]] = ctrbcnt[Dst[e]] - 1]
         /\ IF ctrbcnt'[Dst[e]] = 0
            THEN pc' = [pc EXCEPT ![t] = "push"] /\ UNCHANGED todo
            ELSE pc' = [pc EXCEPT ![t] = "update"] /\ todo' = [todo EXCEPT ![t] = todo[t] \ {e}]
  BY DEF Release, Goto
<1>2. ctrbcnt'[Dst[e]] = ctrbcnt[Dst[e]] - 1 /\ ctrbcnt[Dst[e]] \in Nat
  BY <1>1, Params DEF TypeOK, LoopInv
<1>3. pc[t] = "release" /\ UNCHANGED <<queue, threadid, taskcnt, done, cur, victim, fresh, runs, applied>>
  BY DEF Release
<1>4. ctrbcnt'[Dst[e]] = 0 <=> ctrbcnt[Dst[e]] = 1
  BY <1>2
<1> QED
  BY <1>1, <1>3, <1>4

(* A contribution is counted down.  As it was not counted yet the counter  *)
(* is positive, so that the column block is nowhere yet: whoever brings    *)
(* the counter to zero is alone to push it.                                *)
LEMMA ReleaseInv ==
    ASSUME LoopInv, NEW t \in Ranks, Release(t)
    PROVE  LoopInv'
<1> USE DEF LoopInv
<1>1. PICK e \in Edges :
         /\ pc[t] = "release" /\ IsNext(e, t)
         /\ ctrbcnt' = [ctrbcnt EXCEPT ![Dst[e]] = ctrbcnt[Dst[e]] - 1]
         /\ \/ /\ ctrbcnt[Dst[e]] = 1 /\ pc' = [pc EXCEPT ![t] = "push"] /\ todo' = todo
            \/ /\ ctrbcnt[Dst[e]] # 1 /\ pc' = [pc EXCEPT ![t] = "update"]
               /\ todo' = [todo EXCEPT ![t] = todo[t] \ {e}]
         /\ UNCHANGED <<queue, threadid, taskcnt, done, cur, victim, fresh, runs, applied>>
  BY ReleasePick
<1> DEFINE d == Dst[e]
<1>2. /\ e \in todo[t] /\ Src[e] = cur[t] /\ cur[t] \in Tasks /\ cur[t] \in Cblks /\ d \in Cblks
      /\ runs[cur[t]] = 1 /\ applied[e] = 1
  BY <1>1, Params DEF IsNext, Holding, Working, Computed, Contributed
<1>3. \A u \in Ranks : e \in todo[u] => u = t
  BY <1>2 DEF Holding, OnePlace
<1>4. \A u \in Ranks, f \in Edges : Releasing(u, f)' <=> Releasing(u, f) /\ u # t
  BY <1>1 DEF Releasing, IsNext, TypeOK
<1>5. \A f \in Edges : Releasing(t, f) <=> f = e
  BY <1>1, NextUnique DEF Releasing
<1>6. e \notin Released(d) /\ Released(d)' = Released(d) \cup {e}
  <2>1. e \in Into(d) /\ Releasing(t, e) /\ \A u \in Ranks : Releasing(u, e) => u = t
    BY <1>2, <1>3, <1>5 DEF Into, Releasing, IsNext
  <2> QED
    BY <1>1, <1>2, <1>4, <1>5, <2>1 DEF Released, Into
<1>7. \A c \in Cblks : c # d => Released(c)' = Released(c)
  BY <1>1, <1>4, <1>5 DEF Released, Into
<1>8. Cardinality(Released(d)') = Cardinality(Released(d)) + 1
  BY <1>2, <1>6, ReleasedFinite, FS_AddElement
<1>9. ctrbcnt[d] >= 1 /\ ctrbcnt[d] \in Nat
  <2>1. Released(d)' \subseteq Into(d)
    BY <1>6 DEF Released, Into
  <2>2. Cardinality(Released(d)') <= Cardinality(Into(d))
    BY <1>2, <2>1, ReleasedFinite, FS_Subset
  <2>3. ctrbcnt[d] + Cardinality(Released(d)) = Ctrb[d] /\ ctrbcnt[d] \in Nat
    BY <1>2 DEF Counters, TypeOK
  <2> QED
    BY <1>2, <1>8, <2>2, <2>3, ReleasedFinite, EnoughCtrb, Params
<1>10. \A u \in Ranks : d \notin queue[u] /\ cur[u] # d /\ ~ Pushes(u, d)
  BY <1>2, <1>9 DEF Counters
<1>11. runs[d] = 0
  BY <1>2, <1>9 DEF Counters, Computed
<1> HIDE DEF d
<1>12. TypeOK'
  <2>1. ctrbcnt' \in [Cblks -> Nat]
    BY <1>1, <1>2, <1>9 DEF TypeOK, d
  <2>2. pc' \in [Ranks -> {"init", "startBarrier", "loop", "pop", "flush", "steal", "got",
                         "update", "release", "push", "endBarrier", "exit"}]
    BY <1>1 DEF TypeOK
  <2>3. todo' \in [Ranks -> SUBSET Edges]
    BY <1>1 DEF TypeOK
  <2> QED
    BY <1>1, <2>1, <2>2, <2>3 DEF TypeOK
<1>13. Phases' /\ Starting'
  BY <1>1 DEF TypeOK, Phases, Starting
<1>14. Holding'
  BY <1>1, <1>2 DEF TypeOK, Holding, Working, IsNext
<1>15. \A u \in Ranks, c \in Cblks :
          /\ u # t => (Pushes(u, c)' <=> Pushes(u, c))
          /\ ~ Pushes(t, c) /\ (Pushes(t, c)' => c = d /\ ctrbcnt[d] = 1)
  <2> SUFFICES ASSUME NEW u \in Ranks, NEW c \in Cblks
               PROVE  /\ u # t => (Pushes(u, c)' <=> Pushes(u, c))
                      /\ ~ Pushes(t, c) /\ (Pushes(t, c)' => c = d /\ ctrbcnt[d] = 1)
    OBVIOUS
  <2>1. u # t => (Pushes(u, c)' <=> Pushes(u, c))
    BY <1>1 DEF Pushes, IsNext, TypeOK
  <2>2. ~ Pushes(t, c)
    BY <1>1 DEF Pushes
  <2>3. ASSUME Pushes(t, c)' PROVE c = d /\ ctrbcnt[d] = 1
    <3>1. pc'[t] = "push" /\ todo' = todo /\ ctrbcnt[d] = 1
      BY <1>1, <2>3 DEF Pushes, TypeOK, d
    <3>2. PICK f \in Edges : IsNext(f, t) /\ Dst[f] = c
      BY <2>3, <3>1 DEF Pushes, IsNext
    <3> QED
      BY <1>1, <3>1, <3>2, NextUnique DEF d
  <2> QED
    BY <2>1, <2>2, <2>3
<1>16. OnePlace'
  BY <1>1, <1>10, <1>15 DEF OnePlace
<1>17. Computed'
  <2>1. \A u \in Ranks : pc'[u] = "got" <=> pc[u] = "got"
    BY <1>1 DEF TypeOK
  <2> QED
    BY <1>1, <1>11, <1>15, <2>1 DEF Computed
<1>18. Contributed'
  <2> SUFFICES ASSUME NEW f \in Edges
               PROVE  /\ runs[Src[f]] = 1 /\ applied[f] = 0 => \E u \in Ranks : f \in todo'[u]
                      /\ \A u \in Ranks : f \in todo'[u] =>
                            (applied[f] = 1 <=> pc'[u] \in {"release", "push"} /\ IsNext(f, u)')
    BY <1>1 DEF Contributed
  <2>1. runs[Src[f]] = 1 /\ applied[f] = 0 => \E u \in Ranks : f \in todo'[u]
    <3> SUFFICES ASSUME runs[Src[f]] = 1, applied[f] = 0
                 PROVE  \E u \in Ranks : f \in todo'[u]
      OBVIOUS
    <3>1. PICK u \in Ranks : f \in todo[u]
      BY DEF Contributed
    <3>2. f # e
      BY <1>2
    <3>3. f \in todo'[u]
      BY <1>1, <3>1, <3>2 DEF TypeOK
    <3> QED
      BY <3>3
  <2>2. ASSUME NEW u \in Ranks, f \in todo'[u]
        PROVE  applied[f] = 1 <=> pc'[u] \in {"release", "push"} /\ IsNext(f, u)'
    <3>1. CASE u # t
      <4>1. pc'[u] = pc[u] /\ todo'[u] = todo[u]
        BY <1>1, <3>1 DEF TypeOK
      <4> QED
        BY <2>2, <4>1 DEF Contributed, IsNext
    <3>2. CASE u = t /\ todo' = todo
      BY <1>1, <2>2, <3>2 DEF Contributed, IsNext, TypeOK
    <3>3. CASE u = t /\ todo' # todo
      <4>1. pc'[t] = "update" /\ f \in todo[t] /\ f # e
        BY <1>1, <2>2, <3>3 DEF TypeOK
      <4>2. applied[f] # 1
        BY <1>1, <4>1, NextUnique DEF Contributed
      <4> QED
        BY <3>3, <4>1, <4>2
    <3> QED
      BY <3>1, <3>2, <3>3
  <2> QED
    BY <2>1, <2>2
<1>19. Counters'
  <2> SUFFICES ASSUME NEW c \in Cblks
               PROVE  /\ ctrbcnt'[c] + Cardinality(Released(c)') = Ctrb[c]
                      /\ \A u \in Ranks : c \in queue[u] \/ cur[u] = c \/ Pushes(u, c)' => ctrbcnt'[c] = 0
                      /\ runs[c] = 1 => ctrbcnt'[c] = 0
    BY <1>1 DEF Counters
  <2>1. CASE c = d
    <3>1. ctrbcnt'[d] = ctrbcnt[d] - 1
      BY <1>1, <1>2 DEF TypeOK, d
    <3>2. ctrbcnt'[d] + Cardinality(Released(d)') = Ctrb[d]
      BY <1>2, <1>8, <1>9, <3>1, ReleasedFinite DEF Counters
    <3> QED
      BY <1>9, <1>10, <1>11, <1>15, <2>1, <3>1, <3>2
  <2>2. CASE c # d
    <3>1. ctrbcnt'[c] = ctrbcnt[c] /\ Released(c)' = Released(c)
      BY <1>1, <1>7, <2>2 DEF TypeOK, d
    <3> QED
      BY <1>15, <2>2, <3>1 DEF Counters
  <2> QED
    BY <2>1, <2>2
<1>20. LocalCounts' /\ GlobalCount'
  BY <1>1 DEF LocalCounts, GlobalCount, Flushed
<1> QED
  BY <1>12, <1>13, <1>14, <1>16, <1>17, <1>18, <1>19, <1>20

(* The column block that waits for nothing more is queued.                 *)
LEMMA PushInv ==
    ASSUME LoopInv, NEW t \in Ranks, Push(t)
    PROVE  LoopInv'
<1> USE DEF LoopInv
<1>1. PICK e \in Edges :
         /\ pc[t] = "push" /\ pc' = [pc EXCEPT ![t] = "update"] /\ IsNext(e, t)
         /\ queue' = [queue EXCEPT ![t] = queue[t] \cup {Dst[e]}]
         /\ todo' = [todo EXCEPT ![t] = todo[t] \ {e}]
         /\ UNCHANGED <<ctrbcnt, threadid, taskcnt, done, cur, victim, fresh, runs, applied>>
  <2>1. pc[t] = "push" /\ threadid[cur[t]] = t
    BY DEF Push, Holding, Working
  <2> QED
    BY <2>1 DEF Push, Goto
<1> DEFINE d == Dst[e]
<1>2. /\ e \in todo[t] /\ Src[e] = cur[t] /\ cur[t] \in Tasks /\ d \in Cblks
      /\ applied[e] = 1
  BY <1>1, Params DEF IsNext, Holding, Working, Contributed
<1>3. Pushes(t, d)
  BY <1>1 DEF Pushes
<1>4. /\ ctrbcnt[d] = 0 /\ runs[d] = 0
      /\ \A u \in Ranks : d \notin queue[u] /\ cur[u] # d /\ (Pushes(u, d) => u = t)
  BY <1>2, <1>3 DEF Counters, Computed, OnePlace
<1> HIDE DEF d
<1>5. TypeOK'
  <2>1. queue' \in [Ranks -> SUBSET Cblks]
    BY <1>1, <1>2 DEF TypeOK, d
  <2>2. pc' \in [Ranks -> {"init", "startBarrier", "loop", "pop", "flush", "steal", "got",
                         "update", "release", "push", "endBarrier", "exit"}]
    BY <1>1 DEF TypeOK
  <2>3. todo' \in [Ranks -> SUBSET Edges]
    BY <1>1 DEF TypeOK
  <2> QED
    BY <1>1, <2>1, <2>2, <2>3 DEF TypeOK
<1>6. Phases' /\ Starting'
  BY <1>1 DEF TypeOK, Phases, Starting
<1>7. Holding'
  BY <1>1, <1>2 DEF TypeOK, Holding, Working, IsNext
<1>8. \A u \in Ranks, c \in Cblks : Pushes(u, c)' <=> Pushes(u, c) /\ u # t
  BY <1>1 DEF Pushes, IsNext, TypeOK
<1>9. \A u \in Ranks, f \in Edges : Releasing(u, f)' <=> Releasing(u, f)
  BY <1>1 DEF Releasing, IsNext, TypeOK
<1>10. \A c \in Cblks : Released(c)' = Released(c)
  BY <1>1, <1>9 DEF Released, Into
<1>11. \A u \in Ranks : queue'[u] = IF u = t THEN queue[t] \cup {d} ELSE queue[u]
  BY <1>1 DEF TypeOK, d
<1>12. OnePlace'
  BY <1>1, <1>4, <1>8, <1>11 DEF OnePlace
<1>13. Computed'
  <2>1. \A u \in Ranks : pc'[u] = "got" <=> pc[u] = "got"
    BY <1>1 DEF TypeOK
  <2> QED
    BY <1>1, <1>4, <1>8, <1>11, <2>1 DEF Computed
<1>14. Contributed'
  <2>1. \A u \in Ranks : u # t => pc'[u] = pc[u] /\ todo'[u] = todo[u]
    BY <1>1 DEF TypeOK
  <2>2. \A u \in Ranks, f \in Edges : u # t => (IsNext(f, u)' <=> IsNext(f, u))
    BY <2>1 DEF IsNext
  <2>3. pc'[t] = "update" /\ todo'[t] = todo[t] \ {e}
    BY <1>1 DEF TypeOK
  <2>4. \A f \in todo'[t] : f \in Edges /\ applied[f] # 1
    BY <1>1, <2>3, NextUnique DEF Contributed, TypeOK
  <2>5. ASSUME NEW f \in Edges, runs[Src[f]] = 1, applied[f] = 0
        PROVE  \E u \in Ranks : f \in todo'[u]
    BY <1>2, <2>1, <2>3, <2>5 DEF Contributed
  <2>6. ASSUME NEW f \in Edges, NEW u \in Ranks, f \in todo'[u]
        PROVE  applied[f] = 1 <=> pc'[u] \in {"release", "push"} /\ IsNext(f, u)'
    <3>1. CASE u = t
      BY <2>3, <2>4, <2>6, <3>1
    <3>2. CASE u # t
      BY <2>1, <2>2, <2>6, <3>2 DEF Contributed
    <3> QED
      BY <3>1, <3>2
  <2> QED
    BY <1>1, <2>5, <2>6 DEF Contributed
<1>15. Counters'
  BY <1>1, <1>4, <1>8, <1>10, <1>11 DEF Counters
<1>16. LocalCounts' /\ GlobalCount'
  BY <1>1 DEF LocalCounts, GlobalCount, Flushed
<1> QED
  BY <1>5, <1>6, <1>7, <1>12, <1>13, <1>14, <1>15, <1>16

(* A task is finished: it passes from the thread to its local count.       *)
LEMMA CountInv ==
    ASSUME LoopInv, NEW t \in Ranks, Count(t)
    PROVE  LoopInv'
<1> USE DEF LoopInv
<1> DEFINE c == cur[t]
<1>1. /\ pc[t] = "update" /\ todo[t] = {} /\ pc' = [pc EXCEPT ![t] = "loop"]
      /\ done' = [done EXCEPT ![t] = done[t] + 1]
      /\ fresh' = [fresh EXCEPT ![t] = fresh[t] \cup {c}]
      /\ cur' = [cur EXCEPT ![t] = NoCblk]
      /\ UNCHANGED <<queue, ctrbcnt, threadid, taskcnt, todo, victim, runs, applied>>
  BY DEF Count, Goto
<1>2. c \in Tasks /\ c \in Cblks /\ runs[c] = 1
  BY <1>1, Params DEF Holding, Working, Computed
<1>3. \A u \in Ranks : (cur[u] = c <=> u = t) /\ c \notin fresh[u]
  BY <1>1, <1>2 DEF OnePlace, LocalCounts
<1> HIDE DEF c
<1>4. TypeOK'
  <2>1. done' \in [Ranks -> Nat]
    BY <1>1 DEF TypeOK
  <2>2. fresh' \in [Ranks -> SUBSET Cblks]
    BY <1>1, <1>2 DEF TypeOK
  <2>3. cur' \in [Ranks -> Cblks \cup {NoCblk}]
    BY <1>1 DEF TypeOK
  <2>4. pc' \in [Ranks -> {"init", "startBarrier", "loop", "pop", "flush", "steal", "got",
                         "update", "release", "push", "endBarrier", "exit"}]
    BY <1>1 DEF TypeOK
  <2> QED
    BY <1>1, <2>1, <2>2, <2>3, <2>4 DEF TypeOK
<1>5. Phases' /\ Starting'
  BY <1>1 DEF TypeOK, Phases, Starting
<1>6. Holding'
  BY <1>1, Params DEF TypeOK, Holding, Working, IsNext
<1>7. /\ \A u \in Ranks, d \in Cblks : Pushes(u, d)' <=> Pushes(u, d)
      /\ \A d \in Cblks : Released(d)' = Released(d)
  BY <1>1, EdgeFrame DEF TypeOK
<1>8. \A u \in Ranks : cur'[u] = IF u = t THEN NoCblk ELSE cur[u]
  BY <1>1 DEF TypeOK
<1>9. OnePlace'
  BY <1>1, <1>7, <1>8, Params DEF OnePlace
<1>10. Computed'
  <2>1. \A u \in Ranks : u # t => pc'[u] = pc[u]
    BY <1>1 DEF TypeOK
  <2> QED
    BY <1>1, <1>7, <1>8, <2>1, Params DEF Computed
<1>11. Contributed'
  BY <1>1 DEF TypeOK, Contributed, IsNext
<1>12. Counters'
  BY <1>1, <1>7, <1>8, Params DEF Counters
<1>13. \A u \in Ranks : fresh'[u] = IF u = t THEN fresh[t] \cup {c} ELSE fresh[u]
  BY <1>1 DEF TypeOK
<1>14. LocalCounts'
  <2>1. IsFiniteSet(fresh[t])
    BY LoopAssumption, FS_Subset DEF TypeOK
  <2>2. Cardinality(fresh[t] \cup {c}) = done[t] + 1
    <3>1. c \notin fresh[t] /\ Cardinality(fresh[t]) = done[t]
      BY <1>3 DEF LocalCounts
    <3> HIDE DEF LoopInv
    <3> QED
      BY <2>1, <3>1, FS_AddElement
  <2>3. \A u \in Ranks : done'[u] = Cardinality(fresh'[u])
    BY <1>1, <1>13, <2>2 DEF TypeOK, LocalCounts
  <2>4. \A u, v \in Ranks : fresh'[u] \cap fresh'[v] # {} => u = v
    BY <1>3, <1>13 DEF LocalCounts
  <2>5. \A u \in Ranks : \A d \in fresh'[u] :
           d \in Tasks /\ runs[d] = 1 /\ \A v \in Ranks : cur'[v] # d
    BY <1>2, <1>3, <1>8, <1>13, Params DEF LocalCounts
  <2> QED
    BY <1>1, <2>3, <2>4, <2>5 DEF LocalCounts
<1>15. Flushed' = Flushed
  BY <1>1, <1>3, <1>8, <1>13, Params DEF Flushed, c
<1>16. GlobalCount'
  BY <1>1, <1>15 DEF GlobalCount
<1> QED
  BY <1>4, <1>5, <1>6, <1>9, <1>10, <1>11, <1>12, <1>14, <1>16

(* All the threads pass a barrier together.                                *)
LEMMA BarrierInv ==
    ASSUME LoopInv, Start \/ End
    PROVE  LoopInv'
<1> USE DEF LoopInv
<1>1. PICK l \in {"loop", "exit"} :
         /\ \A t \in Ranks : pc[t] \in {"startBarrier", "endBarrier"}
         /\ pc' = [t \in Ranks |-> l]
         /\ UNCHANGED <<queue, ctrbcnt, threadid, taskcnt, done, cur, todo, victim, fresh, runs, applied>>
  BY DEF Start, End
<1>2. TypeOK'
  BY <1>1 DEF TypeOK
<1>3. Phases' /\ Starting'
  BY <1>1 DEF Phases, Starting
<1>4. Holding'
  BY <1>1 DEF Holding, Working, IsNext
<1>5. /\ \A u \in Ranks, c \in Cblks : Pushes(u, c)' <=> Pushes(u, c)
      /\ \A c \in Cblks : Released(c)' = Released(c)
  BY <1>1, EdgeFrame
<1>6. OnePlace'
  BY <1>1, <1>5 DEF OnePlace
<1>7. Computed'
  BY <1>1, <1>5 DEF Computed
<1>8. Contributed'
  BY <1>1 DEF Contributed, IsNext
<1>9. Counters'
  BY <1>1, <1>5 DEF Counters
<1>10. LocalCounts' /\ GlobalCount'
  BY <1>1 DEF LocalCounts, GlobalCount, Flushed
<1> QED
  BY <1>2, <1>3, <1>4, <1>6, <1>7, <1>8, <1>9, <1>10

(* A parallel phase that starts, after another one perhaps: nobody reads   *)
(* cblk->threadid before it is written.                                    *)
Fresh ==
    /\ pc       = [t \in Ranks |-> "init"]
    /\ queue    = [t \in Ranks |-> {}]
    /\ ctrbcnt  = Ctrb
    /\ threadid \in [Cblks -> Ranks]
    /\ taskcnt  = TaskCnt
    /\ done     = [t \in Ranks |-> 0]
    /\ cur      = [t \in Ranks |-> NoCblk]
    /\ todo     = [t \in Ranks |-> {}]
    /\ victim   = [t \in Ranks |-> t]
    /\ fresh    = [t \in Ranks |-> {}]
    /\ runs     = [c \in Cblks |-> 0]
    /\ applied  = [e \in Edges |-> 0]

(* Nothing was computed, applied, counted nor queued at the beginning.     *)
LEMMA FreshInv == Fresh => LoopInv
<1> SUFFICES ASSUME Fresh PROVE LoopInv
  OBVIOUS
<1>1. TypeOK
  BY LoopAssumption DEF Fresh, TypeOK, Ranks
<1>2. Phases /\ Starting
  BY DEF Fresh, Phases, Starting
<1>3. Holding
  BY DEF Fresh, Holding, Working
<1>4. \A t \in Ranks, c \in Cblks : ~ Pushes(t, c)
  BY DEF Fresh, Pushes
<1>5. OnePlace
  BY <1>4, Params DEF Fresh, OnePlace
<1>6. Computed
  BY <1>4, Params DEF Fresh, Computed
<1>7. Contributed
  BY Params DEF Fresh, Contributed
<1>8. Counters
  <2> SUFFICES ASSUME NEW c \in Cblks
               PROVE  ctrbcnt[c] + Cardinality(Released(c)) = Ctrb[c]
    BY <1>4, Params DEF Fresh, Counters
  <2>1. Released(c) = {}
    BY DEF Fresh, Released, Into
  <2> QED
    BY <2>1, FS_EmptySet, Params DEF Fresh
<1>9. LocalCounts
  BY FS_EmptySet DEF Fresh, LocalCounts
<1>10. GlobalCount
  <2>1. Flushed = {}
    BY Params DEF Fresh, Flushed
  <2> QED
    BY <2>1, FS_EmptySet, LoopAssumption DEF Fresh, GlobalCount
<1> QED
  BY <1>1, <1>2, <1>3, <1>5, <1>6, <1>7, <1>8, <1>9, <1>10 DEF LoopInv

LEMMA InitInv == Init => LoopInv
<1>1. Init => Fresh
  BY LoopAssumption DEF Init, Fresh, Ranks
<1> QED
  BY <1>1, FreshInv

(* What is left when the threads have all returned.                        *)
LEMMA ExitState ==
    ASSUME LoopInv, \A t \in Ranks : pc[t] = "exit"
    PROVE  /\ cur = [t \in Ranks |-> NoCblk] /\ todo = [t \in Ranks |-> {}]
           /\ threadid \in [Cblks -> Ranks]
<1>1. \A t \in Ranks : cur[t] = NoCblk /\ todo[t] = {}
  BY DEF LoopInv, Holding, Working
<1> QED
  BY <1>1 DEF LoopInv, TypeOK

(* Taking a column block, from one's own queue or from that of another.    *)
LEMMA PopInv ==
    ASSUME LoopInv, NEW t \in Ranks, Pop(t)
    PROVE  LoopInv'
<1>1. CASE Take(t, t)
  BY <1>1, TakeInv DEF Pop
<1>2. CASE ~ Take(t, t)
  <2>1. pc[t] = "pop" /\ pc' = [pc EXCEPT ![t] = "flush"]
    BY <1>2 DEF Pop, Goto
  <2>2. UNCHANGED <<queue, ctrbcnt, threadid, taskcnt, done, cur, todo, fresh, runs, applied, victim>>
    BY <1>2 DEF Pop
  <2> QED
    BY <2>1, <2>2, IdleInv DEF LoopInv, TypeOK
<1> QED
  BY <1>1, <1>2

LEMMA StealInv ==
    ASSUME LoopInv, NEW t \in Ranks, Steal(t)
    PROVE  LoopInv'
<1>1. pc[t] = "steal" /\ victim[t] \in Ranks /\ pc = [pc EXCEPT ![t] = "steal"]
  BY DEF Steal, LoopInv, TypeOK
<1>2. UNCHANGED <<ctrbcnt, threadid, taskcnt, done, todo, fresh, runs, applied>>
  BY DEF Steal
<1>3. CASE Take(t, victim[t]) /\ UNCHANGED victim
  BY <1>1, <1>2, <1>3, TakeInv
<1>4. CASE /\ victim' = [victim EXCEPT ![t] = (victim[t] + 1) % ThreadNbr]
           /\ UNCHANGED <<pc, queue, cur>>
  <2>1. (victim[t] + 1) % ThreadNbr \in Ranks
    BY <1>1, LoopAssumption DEF Ranks
  <2>2. victim' \in [Ranks -> Ranks]
    BY <1>4, <2>1 DEF LoopInv, TypeOK
  <2> QED
    BY <1>1, <1>2, <1>4, <2>2, IdleInv
<1>5. CASE Goto(t, "loop") /\ UNCHANGED <<queue, cur, victim>>
  BY <1>1, <1>2, <1>5, IdleInv DEF Goto, LoopInv, TypeOK
<1> QED
  BY <1>3, <1>4, <1>5 DEF Steal

LEMMA TestTaskCntInv ==
    ASSUME LoopInv, NEW t \in Ranks, TestTaskCnt(t)
    PROVE  LoopInv'
<1>1. PICK l \in {"pop", "endBarrier"} : pc' = [pc EXCEPT ![t] = l]
  BY DEF TestTaskCnt, Goto
<1> QED
  BY <1>1, IdleInv DEF TestTaskCnt, LoopInv, TypeOK

LEMMA StutterInv ==
    ASSUME LoopInv, UNCHANGED vars
    PROVE  LoopInv'
<1>1. UNCHANGED <<pc, queue, ctrbcnt, threadid, taskcnt, done, cur, todo, victim, fresh, runs, applied>>
  BY DEF vars
<1>2. /\ \A u \in Ranks, c \in Cblks : Pushes(u, c)' <=> Pushes(u, c)
      /\ \A c \in Cblks : Released(c)' = Released(c)
  BY <1>1, EdgeFrame
<1>3. TypeOK'
  BY <1>1 DEF LoopInv, TypeOK
<1>4. Phases' /\ Starting' /\ Holding'
  BY <1>1 DEF LoopInv, Phases, Starting, Holding, IsNext
<1>5. OnePlace' /\ Computed' /\ Counters'
  BY <1>1, <1>2 DEF LoopInv, OnePlace, Computed, Counters
<1>6. Contributed'
  BY <1>1 DEF LoopInv, Contributed, IsNext
<1>7. LocalCounts' /\ GlobalCount'
  BY <1>1 DEF LoopInv, LocalCounts, GlobalCount, Flushed
<1> QED
  BY <1>3, <1>4, <1>5, <1>6, <1>7 DEF LoopInv

LEMMA NextInv == LoopInv /\ [Next]_vars => LoopInv'
<1> SUFFICES ASSUME LoopInv, [Next]_vars PROVE LoopInv'
  OBVIOUS
<1>1. CASE Start \/ End
  BY <1>1, BarrierInv
<1>2. ASSUME NEW t \in Ranks, Step(t) PROVE LoopInv'
  BY <1>2, FillQueueInv, TestTaskCntInv, PopInv, FlushInv, StealInv, SkipInv, ComputeInv,
     UpdateInv, ReleaseInv, PushInv, CountInv DEF Step
<1>3. CASE UNCHANGED vars
  BY <1>3, StutterInv
<1> QED
  BY <1>1, <1>2, <1>3 DEF Next, Finished

THEOREM LoopInvariant == LoopSpec => []LoopInv
BY InitInv, NextInv, PTL DEF LoopSpec

-----------------------------------------------------------------------------
(* What follows from the invariant.                                        *)

(* Every variable of the scheduler keeps its type; no counter of           *)
(* dependencies of cblk->ctrbcnt goes below zero.                          *)
THEOREM TypeCorrect == LoopSpec => []TypeOK
BY LoopInvariant, PTL DEF LoopInv

(* No column block is queued twice, held by two threads, or queued while   *)
(* a thread holds it, whatever the order of the pops, steals and pushes.   *)
THEOREM OnePlaceAlways == LoopSpec => []OnePlace
BY LoopInvariant, PTL DEF LoopInv

LEMMA InvComputed == LoopInv => ComputedAfterAll
<1> SUFFICES ASSUME LoopInv, NEW c \in Cblks, runs[c] > 0
             PROVE  /\ runs[c] = 1 /\ ctrbcnt[c] = 0
                    /\ \A e \in Into(c) : applied[e] = 1
  BY DEF ComputedAfterAll
<1>1. runs[c] = 1 /\ ctrbcnt[c] = 0
  BY DEF LoopInv, Computed, Counters
<1>2. Cardinality(Released(c)) = Ctrb[c]
  BY <1>1, ReleasedFinite DEF LoopInv, Counters
<1>3. Released(c) = Into(c)
  BY <1>2, ReleasedFinite, EnoughCtrb, Params
<1> QED
  BY <1>1, <1>3 DEF Released

(* A column block is computed once, after all the contributions to it:     *)
(* its counter is at zero, and was at least the number of contributions.   *)
THEOREM ComputedAfterAllAlways == LoopSpec => []ComputedAfterAll
BY InvComputed, LoopInvariant, PTL

LEMMA InvStops ==
    ASSUME LoopInv, TaskCnt = Cardinality(Tasks)
    PROVE  StopsWhenDone
<1> SUFFICES ASSUME taskcnt <= 0
             PROVE  /\ \A c \in Tasks : runs[c] = 1
                    /\ \A e \in Edges : applied[e] = 1
  BY DEF StopsWhenDone
<1>1. Flushed = Tasks
  BY FlushedFinite DEF LoopInv, GlobalCount, TypeOK
<1>2. \A c \in Tasks : runs[c] = 1 /\ \A t \in Ranks : cur[t] # c
  BY <1>1 DEF Flushed
<1>3. ASSUME NEW e \in Edges PROVE applied[e] = 1
  <2>1. runs[Src[e]] = 1 /\ \A t \in Ranks : cur[t] # Src[e]
    BY <1>2, Params
  <2>2. \A t \in Ranks : e \notin todo[t]
    BY <2>1 DEF LoopInv, Holding
  <2> QED
    BY <2>1, <2>2 DEF LoopInv, Contributed
<1> QED
  BY <1>2, <1>3

(* The count that the threads test covers every task: when it claims that  *)
(* nothing is left, every task was computed and had all its contributions  *)
(* applied - if it started from the number of tasks, which is what         *)
(* dynamic_ztrsm gets wrong for a forward solve over the Schur complement. *)
THEOREM StopsWhenDoneAlways ==
    ASSUME TaskCnt = Cardinality(Tasks)
    PROVE  LoopSpec => []StopsWhenDone
<1>1. LoopInv => StopsWhenDone
  BY InvStops
<1> QED
  BY <1>1, LoopInvariant, PTL

(* A thread steals only from queues that are allocated: the barriers keep  *)
(* everyone together, before the queues are used and before they go.       *)
THEOREM StealsLiveQueuesAlways == LoopSpec => []StealsLiveQueues
<1>1. LoopInv => StealsLiveQueues
  <2> SUFFICES ASSUME LoopInv, NEW t \in Ranks, pc[t] = "steal"
               PROVE  pc[victim[t]] \notin {"init", "startBarrier", "exit"}
    BY DEF StealsLiveQueues
  <2>1. victim[t] \in Ranks
    BY DEF LoopInv, TypeOK
  <2> QED
    BY <2>1 DEF LoopInv, Phases
<1> QED
  BY <1>1, LoopInvariant, PTL

-----------------------------------------------------------------------------
(* The queues are empty at the end, although the column blocks that are    *)
(* dropped are queued and not counted.                                     *)

(* The thief t has not looked at the queue of u yet, in its round.         *)
Ahead(t, u) ==
    IF victim[t] <= t THEN victim[t] <= u /\ u < t ELSE victim[t] <= u \/ u < t

(* A dropped column block that was pushed is in the queue of a thread that *)
(* is going to pop again before it leaves.  One that was queued at the     *)
(* start, when the count is at zero, is about to be stolen.                *)
LeftoverInv ==
    /\ \A u \in Ranks : \A c \in queue[u] \cap Skipped :
          /\ Ctrb[c] > 0 => pc[u] \in Working \/ fresh[u] # {}
          /\ Ctrb[c] = 0 /\ taskcnt <= 0 => \E t \in Ranks : pc[t] = "steal" /\ Ahead(t, u)
    /\ \A u \in Ranks : pc[u] = "flush" => queue[u] = {}
    /\ \A u \in Ranks : pc[u] \in {"endBarrier", "exit"} => taskcnt <= 0

(* Once the count is at zero nothing is left but dropped column blocks.    *)
LEMMA AllFlushed ==
    ASSUME LoopInv, TaskCnt = Cardinality(Tasks), taskcnt <= 0
    PROVE  \A t \in Ranks : /\ fresh[t] = {} /\ pc[t] \notin Working
                            /\ \A c \in queue[t] : c \in Skipped /\ c \in Cblks
<1>1. Flushed = Tasks
  BY FlushedFinite DEF LoopInv, GlobalCount, TypeOK
<1>2. \A c \in Tasks : runs[c] = 1 /\ \A t \in Ranks : cur[t] # c /\ c \notin fresh[t]
  BY <1>1 DEF Flushed
<1> SUFFICES ASSUME NEW t \in Ranks
             PROVE  /\ fresh[t] = {} /\ pc[t] \notin Working
                    /\ \A c \in queue[t] : c \in Skipped /\ c \in Cblks
  OBVIOUS
<1>3. fresh[t] = {}
  BY <1>2 DEF LoopInv, LocalCounts
<1>4. pc[t] \notin Working
  BY <1>2 DEF LoopInv, Holding
<1>5. ASSUME NEW c \in queue[t] PROVE c \in Skipped /\ c \in Cblks
  <2>1. c \in Cblks
    BY DEF LoopInv, TypeOK
  <2>2. c \notin Tasks
    BY <1>2, <2>1 DEF LoopInv, Computed
  <2> QED
    BY <2>1, <2>2 DEF Tasks
<1> QED
  BY <1>3, <1>4, <1>5

(* Before the first barrier the count is that of all the tasks.            *)
LEMMA CountAtStart ==
    ASSUME LoopInv, NEW t \in Ranks, pc[t] \in {"init", "startBarrier"}
    PROVE  taskcnt = TaskCnt
<1>1. \A c \in Cblks : runs[c] = 0
  BY DEF LoopInv, Starting
<1>2. Flushed = {}
  BY <1>1, Params DEF Flushed
<1>3. Cardinality(Flushed) = 0
  BY <1>2, FS_EmptySet
<1> QED
  BY <1>3, LoopAssumption DEF LoopInv, GlobalCount, TypeOK

(* The round of a thief starts after itself and passes one queue at a time. *)
LEMMA AheadStarts ==
    ASSUME NEW t \in Ranks, NEW u \in Ranks, u # t, victim'[t] = (t + 1) % ThreadNbr
    PROVE  Ahead(t, u)'
<1>1. (t + 1) % ThreadNbr = IF t + 1 = ThreadNbr THEN 0 ELSE t + 1
  BY LoopAssumption DEF Ranks
<1> QED
  BY <1>1, LoopAssumption DEF Ahead, Ranks

LEMMA AheadGoesOn ==
    ASSUME NEW t \in Ranks, NEW u \in Ranks, Ahead(t, u), victim[t] \in Ranks, u # victim[t],
           victim[t] # t, victim'[t] = (victim[t] + 1) % ThreadNbr
    PROVE  Ahead(t, u)'
<1>1. (victim[t] + 1) % ThreadNbr = IF victim[t] + 1 = ThreadNbr THEN 0 ELSE victim[t] + 1
  BY LoopAssumption DEF Ranks
<1> QED
  BY <1>1, LoopAssumption DEF Ahead, Ranks

(* A step that queues nothing but column blocks that waited, and lets the  *)
(* thieves alone.                                                          *)
LEMMA LeftoverFrame ==
    ASSUME LoopInv, LeftoverInv, NEW t \in Ranks, NEW l, pc' = [pc EXCEPT ![t] = l],
           taskcnt' = taskcnt, UNCHANGED victim,
           pc[t] # "steal",
           \A u \in Ranks : queue'[u] \subseteq queue[u],
           \A u \in Ranks : fresh[u] \subseteq fresh'[u],
           pc[t] \in Working => l \in Working \/ fresh'[t] # {},
           l = "flush" => queue'[t] = {},
           l \in {"endBarrier", "exit"} => taskcnt <= 0
    PROVE  LeftoverInv'
<1>1. /\ \A u \in Ranks : u # t => pc'[u] = pc[u]
      /\ pc'[t] = l
  BY DEF LoopInv, TypeOK
<1>2. ASSUME NEW u \in Ranks, NEW c \in queue'[u] \cap Skipped
      PROVE  /\ Ctrb[c] > 0 => pc'[u] \in Working \/ fresh'[u] # {}
             /\ Ctrb[c] = 0 /\ taskcnt' <= 0 => \E v \in Ranks : pc'[v] = "steal" /\ Ahead(v, u)'
  <2>1. c \in queue[u] \cap Skipped
    BY <1>2
  <2>2. Ctrb[c] > 0 => pc[u] \in Working \/ fresh[u] # {}
    BY <2>1 DEF LeftoverInv
  <2>3. Ctrb[c] > 0 => pc'[u] \in Working \/ fresh'[u] # {}
    BY <1>1, <2>2
  <2>4. ASSUME Ctrb[c] = 0, taskcnt' <= 0
        PROVE  \E v \in Ranks : pc'[v] = "steal" /\ Ahead(v, u)'
    <3>1. PICK v \in Ranks : pc[v] = "steal" /\ Ahead(v, u)
      BY <2>1, <2>4 DEF LeftoverInv
    <3>2. v # t /\ pc'[v] = "steal"
      BY <1>1, <3>1
    <3>3. Ahead(v, u)'
      BY <3>1 DEF Ahead
    <3> QED
      BY <3>2, <3>3
  <2> QED
    BY <2>3, <2>4
<1>3. ASSUME NEW u \in Ranks, pc'[u] = "flush" PROVE queue'[u] = {}
  <2>1. CASE u = t
    BY <1>1, <1>3, <2>1
  <2>2. CASE u # t
    BY <1>1, <1>3, <2>2 DEF LeftoverInv
  <2> QED
    BY <2>1, <2>2
<1>4. ASSUME NEW u \in Ranks, pc'[u] \in {"endBarrier", "exit"} PROVE taskcnt' <= 0
  BY <1>1, <1>4 DEF LeftoverInv
<1> QED
  BY <1>2, <1>3, <1>4 DEF LeftoverInv

(* What the matrix must be like: something to compute, and one dropped     *)
(* column block at most that waits for nothing.                            *)
FewReady == \A c, d \in Skipped \cap Cblks : Ctrb[c] = 0 /\ Ctrb[d] = 0 => c = d

(* When the count is at zero, what a thief takes is the last one.          *)
LEMMA LeftoverSteal ==
    ASSUME LoopInv, LeftoverInv, TaskCnt = Cardinality(Tasks), FewReady,
           NEW t \in Ranks, Steal(t)
    PROVE  LeftoverInv'
<1>1. pc[t] = "steal" /\ victim[t] \in Ranks /\ UNCHANGED <<taskcnt, fresh>>
  BY DEF Steal, LoopInv, TypeOK
<1>2. CASE victim[t] # t /\ queue[victim[t]] # {} /\ Take(t, victim[t]) /\ UNCHANGED victim
  <2> DEFINE q == victim[t]
  <2>1. PICK d \in Cblks : /\ d \in queue[q] /\ queue' = [queue EXCEPT ![q] = queue[q] \ {d}]
                           /\ pc' = [pc EXCEPT ![t] = "got"]
    BY <1>2 DEF Take, IsFirst, Goto
  <2>2. /\ \A u \in Ranks : u # t => pc'[u] = pc[u]
        /\ pc'[t] = "got"
        /\ \A u \in Ranks : queue'[u] = IF u = q THEN queue[u] \ {d} ELSE queue[u]
    BY <1>1, <2>1 DEF LoopInv, TypeOK
  <2>3. ASSUME NEW u \in Ranks, NEW c \in queue'[u] \cap Skipped
        PROVE  /\ Ctrb[c] > 0 => pc'[u] \in Working \/ fresh'[u] # {}
               /\ ~ (Ctrb[c] = 0 /\ taskcnt' <= 0)
    <3>1. c \in queue[u] /\ c \in Skipped /\ c \in Cblks
      BY <2>2, <2>3 DEF LoopInv, TypeOK
    <3>2. Ctrb[c] > 0 => pc'[u] \in Working \/ fresh'[u] # {}
      BY <1>1, <2>2, <3>1 DEF LeftoverInv, Working
    <3>3. ASSUME Ctrb[c] = 0, taskcnt <= 0 PROVE FALSE
      <4>1. d \in Skipped /\ fresh[q] = {} /\ pc[q] \notin Working
        BY <1>1, <2>1, <3>3, AllFlushed
      <4>2. Ctrb[d] \in Nat /\ ~ (Ctrb[d] > 0)
        BY <1>1, <2>1, <4>1, Params DEF LeftoverInv
      <4>3. d = c
        BY <3>1, <3>3, <4>1, <4>2 DEF FewReady
      <4>4. u = q
        BY <1>1, <2>1, <3>1, <4>3 DEF LoopInv, OnePlace
      <4> QED
        BY <2>2, <2>3, <4>3, <4>4
    <3> QED
      BY <1>1, <3>2, <3>3
  <2>4. ASSUME NEW u \in Ranks
        PROVE  /\ pc'[u] = "flush" => queue'[u] = {}
               /\ pc'[u] \in {"endBarrier", "exit"} => taskcnt' <= 0
    BY <1>1, <2>2, <2>4 DEF LeftoverInv
  <2> QED
    BY <2>3, <2>4 DEF LeftoverInv
<1>3. CASE /\ victim[t] # t /\ queue[victim[t]] = {}
           /\ victim' = [victim EXCEPT ![t] = (victim[t] + 1) % ThreadNbr]
           /\ UNCHANGED <<pc, queue, cur>>
  <2>1. /\ victim'[t] = (victim[t] + 1) % ThreadNbr
        /\ \A v \in Ranks : v # t => victim'[v] = victim[v]
    BY <1>3 DEF LoopInv, TypeOK
  <2>2. ASSUME NEW u \in Ranks, NEW c \in queue'[u] \cap Skipped, Ctrb[c] = 0, taskcnt' <= 0
        PROVE  \E v \in Ranks : pc'[v] = "steal" /\ Ahead(v, u)'
    <3>1. PICK v \in Ranks : pc[v] = "steal" /\ Ahead(v, u)
      BY <1>1, <1>3, <2>2 DEF LeftoverInv
    <3>2. CASE v = t
      <4>1. u # victim[t]
        BY <1>3, <2>2
      <4>2. Ahead(t, u)'
        BY <1>1, <1>3, <2>1, <3>1, <3>2, <4>1, AheadGoesOn
      <4> QED
        BY <1>1, <1>3, <4>2
    <3>3. CASE v # t
      <4>1. Ahead(v, u)'
        BY <2>1, <3>1, <3>3 DEF Ahead
      <4> QED
        BY <1>3, <3>1, <4>1
    <3> QED
      BY <3>2, <3>3
  <2> QED
    BY <1>1, <1>3, <2>2 DEF LeftoverInv
<1>4. CASE victim[t] = t /\ Goto(t, "loop") /\ UNCHANGED <<queue, cur, victim>>
  <2>1. /\ \A u \in Ranks : u # t => pc'[u] = pc[u]
        /\ pc'[t] = "loop"
    BY <1>4 DEF Goto, LoopInv, TypeOK
  <2>2. ASSUME NEW u \in Ranks, NEW c \in queue'[u] \cap Skipped, Ctrb[c] = 0, taskcnt' <= 0
        PROVE  \E v \in Ranks : pc'[v] = "steal" /\ Ahead(v, u)'
    <3>1. PICK v \in Ranks : pc[v] = "steal" /\ Ahead(v, u)
      BY <1>1, <1>4, <2>2 DEF LeftoverInv
    <3>2. v # t
      BY <1>4, <3>1 DEF Ahead, Ranks
    <3>3. Ahead(v, u)'
      BY <1>4, <3>1 DEF Ahead
    <3> QED
      BY <2>1, <3>1, <3>2, <3>3
  <2>3. \A u \in Ranks : \A c \in queue'[u] \cap Skipped :
           Ctrb[c] > 0 => pc'[u] \in Working \/ fresh'[u] # {}
    BY <1>1, <1>4, <2>1 DEF LeftoverInv, Working
  <2> QED
    BY <1>1, <1>4, <2>1, <2>2, <2>3 DEF LeftoverInv
<1> QED
  BY <1>2, <1>3, <1>4 DEF Steal

(* The thread that brings the count to zero is about to look at all the    *)
(* other queues, and its own is empty.                                     *)
LEMMA LeftoverFlush ==
    ASSUME LoopInv, LeftoverInv, NEW t \in Ranks, Flush(t)
    PROVE  LeftoverInv'
<1>1. /\ pc[t] = "flush" /\ queue[t] = {} /\ UNCHANGED queue
      /\ pc'[t] = "steal" /\ \A u \in Ranks : u # t => pc'[u] = pc[u] /\ fresh'[u] = fresh[u]
      /\ victim'[t] = (t + 1) % ThreadNbr
      /\ taskcnt' = taskcnt - done[t] /\ done[t] \in Nat /\ taskcnt \in Int
  BY DEF Flush, Goto, LoopInv, TypeOK, LeftoverInv
<1>2. ASSUME NEW u \in Ranks, NEW c \in queue'[u] \cap Skipped
      PROVE  /\ Ctrb[c] > 0 => pc'[u] \in Working \/ fresh'[u] # {}
             /\ \E v \in Ranks : pc'[v] = "steal" /\ Ahead(v, u)'
  <2>1. u # t /\ c \in queue[u] \cap Skipped
    BY <1>1, <1>2
  <2>2. Ahead(t, u)'
    BY <1>1, <2>1, AheadStarts
  <2> QED
    BY <1>1, <2>1, <2>2 DEF LeftoverInv
<1>3. ASSUME NEW u \in Ranks
      PROVE  /\ pc'[u] = "flush" => queue'[u] = {}
             /\ pc'[u] \in {"endBarrier", "exit"} => taskcnt' <= 0
  BY <1>1 DEF LeftoverInv
<1> QED
  BY <1>2, <1>3 DEF LeftoverInv

(* A column block that is pushed has waited for a contribution.            *)
LEMMA LeftoverPush ==
    ASSUME LoopInv, LeftoverInv, NEW t \in Ranks, Push(t)
    PROVE  LeftoverInv'
<1>1. PICK e \in Edges : /\ IsNext(e, t)
                         /\ queue' = [queue EXCEPT ![threadid[cur[t]]] = @ \cup {Dst[e]}]
  BY DEF Push
<1>2. /\ pc[t] = "push" /\ threadid[cur[t]] = t
      /\ pc'[t] = "update" /\ \A u \in Ranks : u # t => pc'[u] = pc[u]
      /\ UNCHANGED <<taskcnt, fresh, victim>>
  BY DEF Push, Goto, LoopInv, Holding, Working, TypeOK
<1>3. /\ queue'[t] = queue[t] \cup {Dst[e]}
      /\ \A u \in Ranks : u # t => queue'[u] = queue[u]
  BY <1>1, <1>2 DEF LoopInv, TypeOK
<1>4. Dst[e] \in Cblks /\ Ctrb[Dst[e]] > 0
  <2>1. Dst[e] \in Cblks /\ e \in Into(Dst[e]) /\ Ctrb[Dst[e]] \in Nat
    BY Params DEF Into
  <2>2. Cardinality(Into(Dst[e])) # 0
    BY <2>1, ReleasedFinite, FS_EmptySet
  <2> QED
    BY <2>1, <2>2, EnoughCtrb, ReleasedFinite
<1>5. ASSUME NEW u \in Ranks, NEW c \in queue'[u] \cap Skipped
      PROVE  /\ Ctrb[c] > 0 => pc'[u] \in Working \/ fresh'[u] # {}
             /\ Ctrb[c] = 0 /\ taskcnt' <= 0 => \E v \in Ranks : pc'[v] = "steal" /\ Ahead(v, u)'
  <2>1. Ctrb[c] > 0 => pc'[u] \in Working \/ fresh'[u] # {}
    <3>1. CASE u = t
      BY <1>2, <3>1 DEF Working
    <3>2. CASE u # t
      BY <1>2, <1>3, <1>5, <3>2 DEF LeftoverInv
    <3> QED
      BY <3>1, <3>2
  <2>2. ASSUME Ctrb[c] = 0, taskcnt' <= 0
        PROVE  \E v \in Ranks : pc'[v] = "steal" /\ Ahead(v, u)'
    <3>1. c \in queue[u] \cap Skipped
      BY <1>3, <1>4, <1>5, <2>2
    <3>2. PICK v \in Ranks : pc[v] = "steal" /\ Ahead(v, u)
      BY <1>2, <2>2, <3>1 DEF LeftoverInv
    <3>3. pc'[v] = "steal" /\ Ahead(v, u)'
      BY <1>2, <3>2 DEF Ahead
    <3> QED
      BY <3>3
  <2> QED
    BY <2>1, <2>2
<1>6. ASSUME NEW u \in Ranks
      PROVE  /\ pc'[u] = "flush" => queue'[u] = {}
             /\ pc'[u] \in {"endBarrier", "exit"} => taskcnt' <= 0
  BY <1>2, <1>3 DEF LeftoverInv
<1> QED
  BY <1>5, <1>6 DEF LeftoverInv

(* Only column blocks that wait for nothing are queued at the start.       *)
LEMMA LeftoverFill ==
    ASSUME LoopInv, LeftoverInv, TaskCnt > 0, NEW t \in Ranks, FillQueue(t)
    PROVE  LeftoverInv'
<1>1. /\ pc[t] = "init" /\ pc'[t] = "startBarrier"
      /\ \A u \in Ranks : u # t => pc'[u] = pc[u] /\ queue'[u] = queue[u]
      /\ \A c \in queue'[t] : Ctrb[c] = 0
      /\ UNCHANGED <<taskcnt, fresh>>
  BY DEF FillQueue, Goto, LoopInv, TypeOK
<1>2. taskcnt > 0
  BY <1>1, CountAtStart
<1>3. ASSUME NEW u \in Ranks, NEW c \in queue'[u] \cap Skipped, Ctrb[c] > 0
      PROVE  pc'[u] \in Working \/ fresh'[u] # {}
  <2>1. u # t
    BY <1>1, <1>3
  <2> QED
    BY <1>1, <1>3, <2>1 DEF LeftoverInv
<1>4. ASSUME NEW u \in Ranks
      PROVE  /\ pc'[u] = "flush" => queue'[u] = {}
             /\ pc'[u] \in {"endBarrier", "exit"} => taskcnt' <= 0
  BY <1>1 DEF LeftoverInv
<1>5. ~ (taskcnt' <= 0)
  BY <1>1, <1>2, LoopAssumption DEF LoopInv, TypeOK
<1> QED
  BY <1>3, <1>4, <1>5 DEF LeftoverInv

LEMMA LeftoverBarrier ==
    ASSUME LoopInv, LeftoverInv, Start \/ End
    PROVE  LeftoverInv'
<1>1. /\ UNCHANGED <<queue, taskcnt, fresh>>
      /\ \/ \A u \in Ranks : pc[u] = "startBarrier" /\ pc'[u] = "loop"
         \/ \A u \in Ranks : pc[u] = "endBarrier" /\ pc'[u] = "exit"
  BY DEF Start, End
<1>2. ASSUME NEW u \in Ranks, NEW c \in queue'[u] \cap Skipped
      PROVE  /\ Ctrb[c] > 0 => pc'[u] \in Working \/ fresh'[u] # {}
             /\ ~ (Ctrb[c] = 0 /\ taskcnt' <= 0)
  BY <1>1, <1>2 DEF LeftoverInv, Working
<1> QED
  BY <1>1, <1>2 DEF LeftoverInv

LEMMA NextLeftover ==
    ASSUME LoopInv, LeftoverInv, [Next]_vars,
           TaskCnt = Cardinality(Tasks), TaskCnt > 0, FewReady
    PROVE  LeftoverInv'
<1>1. CASE UNCHANGED vars
  BY <1>1 DEF vars, LeftoverInv, Ahead
<1>2. ASSUME NEW t \in Ranks, Step(t) PROVE LeftoverInv'
  <2>1. CASE FillQueue(t)
    BY <2>1, LeftoverFill
  <2>2. CASE TestTaskCnt(t)
    <3>1. pc[t] = "loop" /\ UNCHANGED <<queue, taskcnt, victim, fresh>> /\ taskcnt \in Int
      BY <2>2 DEF TestTaskCnt, LoopInv, TypeOK
    <3>2. CASE taskcnt > 0
      <4>1. pc' = [pc EXCEPT ![t] = "pop"]
        BY <2>2, <3>2 DEF TestTaskCnt, Goto
      <4> QED
        BY <3>1, <4>1, LeftoverFrame DEF Working
    <3>3. CASE taskcnt <= 0
      <4>1. pc' = [pc EXCEPT ![t] = "endBarrier"]
        <5>1. ~ (taskcnt > 0)
          BY <3>1, <3>3
        <5>2. (IF taskcnt > 0 THEN "pop" ELSE "endBarrier") = "endBarrier"
          BY <5>1
        <5> QED
          BY <2>2, <5>2 DEF TestTaskCnt, Goto
      <4>2. /\ pc[t] # "steal" /\ pc[t] \notin Working
            /\ "endBarrier" = "flush" => queue'[t] = {}
            /\ \A u \in Ranks : queue'[u] \subseteq queue[u] /\ fresh[u] \subseteq fresh'[u]
        BY <3>1 DEF Working
      <4>3. taskcnt' = taskcnt /\ UNCHANGED victim
        BY <3>1
      <4> QED
        BY <3>3, <4>1, <4>2, <4>3, LeftoverFrame, Zenon
    <3> QED
      BY <3>1, <3>2, <3>3
  <2>3. CASE Pop(t)
    <3>1. PICK l : /\ pc' = [pc EXCEPT ![t] = l] /\ l \in {"got", "flush"}
                   /\ l = "flush" => queue'[t] = {}
      BY <2>3 DEF Pop, Take, Goto
    <3>2. \A u \in Ranks : queue'[u] \subseteq queue[u]
      BY <2>3 DEF Pop, Take, LoopInv, TypeOK
    <3> QED
      BY <2>3, <3>1, <3>2, LeftoverFrame DEF Pop, Working
  <2>4. CASE Flush(t)
    BY <2>4, LeftoverFlush
  <2>5. CASE Steal(t)
    BY <2>5, LeftoverSteal
  <2>6. CASE Skip(t)
    BY <2>6, LeftoverFrame DEF Skip, Goto, Working
  <2>7. CASE Compute(t)
    BY <2>7, LeftoverFrame DEF Compute, Goto, Working
  <2>8. CASE Update(t)
    BY <2>8, LeftoverFrame DEF Update, Goto, Working
  <2>9. CASE Release(t)
    <3>1. PICK l : pc' = [pc EXCEPT ![t] = l] /\ l \in {"push", "update"}
      BY <2>9 DEF Release, Goto
    <3> QED
      BY <2>9, <3>1, LeftoverFrame DEF Release, Working
  <2>10. CASE Push(t)
    BY <2>10, LeftoverPush
  <2>11. CASE Count(t)
    <3>1. \A u \in Ranks : fresh'[u] = IF u = t THEN fresh[u] \cup {cur[t]} ELSE fresh[u]
      BY <2>11 DEF Count, LoopInv, TypeOK
    <3>2. pc' = [pc EXCEPT ![t] = "loop"] /\ pc[t] = "update" /\ UNCHANGED <<queue, taskcnt, victim>>
      BY <2>11 DEF Count, Goto
    <3>3. /\ \A u \in Ranks : queue'[u] \subseteq queue[u] /\ fresh[u] \subseteq fresh'[u]
          /\ fresh'[t] # {}
      BY <3>1, <3>2
    <3>4. /\ pc[t] # "steal" /\ taskcnt' = taskcnt /\ UNCHANGED victim
          /\ "loop" = "flush" => queue'[t] = {}
          /\ "loop" \in {"endBarrier", "exit"} => taskcnt <= 0
      BY <3>2
    <3> QED
      BY <3>2, <3>3, <3>4, LeftoverFrame, Zenon
  <2> QED
    BY <1>2, <2>1, <2>2, <2>3, <2>4, <2>5, <2>6, <2>7, <2>8, <2>9, <2>10, <2>11 DEF Step
<1> QED
  BY <1>1, <1>2, LeftoverBarrier DEF Next, Finished

LEMMA FreshLeftover == Fresh => LeftoverInv
BY DEF Fresh, LeftoverInv

LEMMA InvQueuesEmpty ==
    ASSUME LoopInv, LeftoverInv, TaskCnt = Cardinality(Tasks)
    PROVE  QueuesEmptyAtExit
<1> SUFFICES ASSUME NEW u \in Ranks, pc[u] = "exit", NEW c \in queue[u]
             PROVE  FALSE
  BY DEF QueuesEmptyAtExit
<1>1. taskcnt <= 0 /\ \A t \in Ranks : pc[t] = "exit"
  BY DEF LeftoverInv, LoopInv, Phases
<1>2. c \in Skipped /\ c \in Cblks /\ fresh[u] = {} /\ pc[u] \notin Working
  BY <1>1, AllFlushed
<1>3. Ctrb[c] = 0
  BY <1>2, Params DEF LeftoverInv
<1>4. \E t \in Ranks : pc[t] = "steal"
  BY <1>1, <1>2, <1>3 DEF LeftoverInv
<1> QED
  BY <1>1, <1>4

(* A count that starts from the number of tasks, when there are some.      *)
LEMMA SomeTasks ==
    ASSUME TaskCnt = Cardinality(Tasks), Tasks # {}
    PROVE  TaskCnt > 0
<1>1. Cardinality(Tasks) # 0
  BY FlushedFinite, FS_EmptySet
<1> QED
  BY <1>1, FlushedFinite

(* assert( computeQueue->used == 0 ) at the end of thread_ztrsm_dynamic:   *)
(* the column blocks of the Schur complement that are dropped are not left *)
(* in the queues, though taskcnt does not count them.  One of them may be  *)
(* queued at the start: the thread that brings the count to zero goes      *)
(* round the queues once more.  With nothing to compute, no thread would   *)
(* look at them.                                                           *)
THEOREM QueuesEmptyAlways ==
    ASSUME TaskCnt = Cardinality(Tasks), Tasks # {}, FewReady
    PROVE  LoopSpec => []QueuesEmptyAtExit
<1>1. TaskCnt > 0
  BY SomeTasks
<1>2. Init => LeftoverInv
  BY DEF Init, LeftoverInv
<1>3. LoopInv /\ LeftoverInv /\ [Next]_vars => LeftoverInv'
  BY <1>1, NextLeftover
<1>4. LoopInv /\ LeftoverInv => QueuesEmptyAtExit
  BY InvQueuesEmpty
<1> QED
  BY <1>2, <1>3, <1>4, LoopInvariant, PTL DEF LoopSpec

-----------------------------------------------------------------------------
(* A parallel phase among others: what a module that starts the loop again *)
(* and again needs of it.                                                  *)

(* The count of the tasks is right, and the queues can be emptied.         *)
Covers == TaskCnt = Cardinality(Tasks)
Drains == Covers /\ Tasks # {} /\ FewReady

JobInv == LoopInv /\ (Drains => LeftoverInv)

LEMMA JobStarts == Fresh => JobInv
BY FreshInv, FreshLeftover DEF JobInv

LEMMA JobGoesOn ==
    ASSUME JobInv, Start \/ End \/ (\E t \in Ranks : Step(t))
    PROVE  JobInv'
<1>1. [Next]_vars
  BY DEF Next
<1>2. LoopInv'
  BY <1>1, NextInv DEF JobInv
<1>3. Drains <=> Drains'
  BY DEF Drains, Covers, FewReady, Tasks
<1>4. Drains => LeftoverInv'
  BY <1>1, SomeTasks, NextLeftover DEF JobInv, Drains, Covers
<1> QED
  BY <1>2, <1>3, <1>4 DEF JobInv

LEMMA JobStays ==
    ASSUME JobInv, UNCHANGED vars
    PROVE  JobInv'
<1>1. LoopInv'
  BY NextInv DEF JobInv
<1>2. LeftoverInv => LeftoverInv'
  BY DEF vars, LeftoverInv, Ahead
<1>3. Drains <=> Drains'
  BY DEF Drains, Covers, FewReady, Tasks
<1> QED
  BY <1>1, <1>2, <1>3 DEF JobInv

LEMMA JobEnds ==
    ASSUME JobInv, \A t \in Ranks : pc[t] = "exit"
    PROVE  /\ cur = [t \in Ranks |-> NoCblk] /\ todo = [t \in Ranks |-> {}]
           /\ threadid \in [Cblks -> Ranks]
BY ExitState DEF JobInv

LEMMA JobSafe ==
    ASSUME JobInv
    PROVE  /\ DOMAIN pc = Ranks /\ ComputedAfterAll
           /\ Covers => StopsWhenDone
           /\ Drains => QueuesEmptyAtExit
BY InvComputed, InvStops, InvQueuesEmpty DEF JobInv, LoopInv, TypeOK, Covers, Drains

-----------------------------------------------------------------------------
(* The threads follow the graph of tasks.                                  *)

(* A column block about to be computed has all its contributions.          *)
LEMMA ComputeIsDag ==
    ASSUME LoopInv, NEW t \in Ranks, Compute(t)
    PROVE  D!DagNext
<1> DEFINE c == cur[t]
<1>1. c \in Tasks /\ c \in Cblks /\ runs[c] = 0 /\ ctrbcnt[c] = 0
  BY Params DEF Compute, LoopInv, Computed, Counters
<1>2. Released(c) = Into(c)
  <2>1. ctrbcnt[c] + Cardinality(Released(c)) = Ctrb[c]
    BY <1>1 DEF LoopInv, Counters
  <2> HIDE DEF c
  <2> QED
    BY <1>1, <2>1, ReleasedFinite, EnoughCtrb, Params
<1>3. \A e \in Edges : Dst[e] = c => applied[e] = 1
  BY <1>2 DEF Released, Into
<1>4. runs' = [runs EXCEPT ![c] = 1] /\ UNCHANGED applied
  BY <1>1 DEF Compute
<1> QED
  BY <1>1, <1>3, <1>4 DEF D!DagNext, D!Compute, D!Ready

(* A contribution about to be applied comes from a computed column block   *)
(* and was not applied before.                                             *)
LEMMA UpdateIsDag ==
    ASSUME LoopInv, NEW t \in Ranks, Update(t)
    PROVE  D!DagNext
<1>1. PICK e \in Edges : /\ pc[t] = "update" /\ IsNext(e, t) /\ runs' = runs
                         /\ applied' = [applied EXCEPT ![e] = applied[e] + 1]
  BY DEF Update
<1>2. e \in todo[t] /\ Src[e] = cur[t] /\ cur[t] \in Cblks
  BY <1>1, Params DEF LoopInv, Holding, IsNext, Working
<1>3. runs[Src[e]] = 1 /\ applied[e] = 0
  BY <1>1, <1>2 DEF LoopInv, Computed, Contributed
<1>4. applied' = [applied EXCEPT ![e] = 1]
  BY <1>1, <1>3
<1>5. D!Apply(e)
  BY <1>1, <1>3, <1>4 DEF D!Apply
<1> QED
  BY <1>5 DEF D!DagNext

(* Every step of the scheduler is a step of the graph of tasks, or changes *)
(* nothing to it: the safety part of ImplementsTaskDag.                    *)
THEOREM FollowsTaskDag == LoopSpec => D!DagInit /\ [][D!DagNext]_(D!dagVars)
<1>1. Init => D!DagInit
  BY DEF Init, D!DagInit
<1>2. LoopInv /\ [Next]_vars => [D!DagNext]_(D!dagVars)
  <2> SUFFICES ASSUME LoopInv, [Next]_vars PROVE [D!DagNext]_(D!dagVars)
    OBVIOUS
  <2>1. CASE UNCHANGED vars
    BY <2>1 DEF vars, D!dagVars
  <2>2. CASE Start \/ End
    BY <2>2 DEF Start, End, D!dagVars
  <2>3. ASSUME NEW t \in Ranks, Step(t) PROVE [D!DagNext]_(D!dagVars)
    <3>1. CASE Compute(t)
      BY <3>1, ComputeIsDag
    <3>2. CASE Update(t)
      BY <3>2, UpdateIsDag
    <3>3. CASE FillQueue(t) \/ TestTaskCnt(t) \/ Pop(t) \/ Flush(t) \/ Steal(t)
      BY <3>3 DEF FillQueue, TestTaskCnt, Pop, Flush, Steal, D!dagVars
    <3>4. CASE Skip(t) \/ Release(t) \/ Push(t) \/ Count(t)
      BY <3>4 DEF Skip, Release, Push, Count, D!dagVars
    <3> QED
      BY <2>3, <3>1, <3>2, <3>3, <3>4 DEF Step
  <2> QED
    BY <2>1, <2>2, <2>3 DEF Next, Finished
<1> QED
  BY <1>1, <1>2, LoopInvariant, PTL DEF LoopSpec

=============================================================================
