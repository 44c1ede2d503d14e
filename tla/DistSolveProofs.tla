--------------------------- MODULE DistSolveProofs ---------------------------
(***************************************************************************)
(* Proofs about DistSolve, for any number of processes, of threads and of  *)
(* column blocks, and with both schedulers: no message is handled in       *)
(* another step than the one it was sent in, a process comes to the        *)
(* barrier with nothing left, nobody writes what MPI may still read, and   *)
(* the two steps implement TriangularSolve.                                *)
(*                                                                         *)
(* The invariant speaks of one step at a time, Now: while a process is in  *)
(* the backward step, those that are not are at the barrier that ends the  *)
(* forward step.  It follows a block through the loop of the thread that   *)
(* applies it (FreshEdges, LeftEdges, UnsentEdges) and a remote column     *)
(* block through the network (Coming, Taking): the counters of the code    *)
(* are the cardinalities of what has not passed yet.                       *)
(***************************************************************************)
EXTENDS DistSolve, CommEngineProofs

-----------------------------------------------------------------------------
(* The threads and the steps.                                              *)

(* The step that is being done.                                            *)
Now == IF \E p \in Procs : Backward(p) THEN "backward" ELSE "forward"

(* A process that has not begun it.                                        *)
NotYet(p) == phase[p] = "start" \/ step[p] # Now

Working == {"update", "alloc", "gemm", "release", "isend", "register"}
Looping == {"wait", "pop", "popAgain", "steal", "elect", "snapshot", "test", "handle", "leave",
            "add", "dec", "store"}

SolveTypes ==
    /\ pc = [t \in Threads |-> pc[t]]
    /\ pos \in [Threads -> Nat]
    /\ queue \in [Threads -> SUBSET Local]
    /\ taskcnt \in [Procs -> Int] /\ done \in [Threads -> Nat]
    /\ cur \in [Threads -> Local \cup {NoIdx}]
    /\ step \in [Procs -> Steps]
    /\ phase \in [Procs -> {"start", "tasks", "cleanup", "barrier"}]
    /\ todo \in [Threads -> SUBSET Edges]
    /\ tosend \in [Threads -> SUBSET FanIns]
    /\ faninb = [x \in FanIns |-> faninb[x]] /\ recvb = [x \in FanIns |-> recvb[x]]
    /\ solved \in [Steps -> [Cblks -> {0, 1}]]
    /\ got \in [Steps -> [Edges -> {0, 1}]]

(* The steps one after the other.                                          *)
StepsInv ==
    /\ \A p \in Procs : step[p] # Now => phase[p] = "barrier"
    /\ \A p \in Procs : NotYet(p) => \A c \in Cblks : Own[c] = p => solved[Now][c] = 0
    /\ Now = "forward" => /\ \A c \in Cblks : solved["backward"][c] = 0
                          /\ \A e \in Edges : got["backward"][e] = 0
    /\ Now = "backward" => /\ \A c \in Cblks : solved["forward"][c] = 1
                           /\ \A e \in Edges : got["forward"][e] = 1

(* The task of a block, and the column block it contributes to.            *)
TaskOf(e) == <<Own[Src[e]], IF Now = "forward" THEN Src[e] ELSE Dst[e]>>
Home(e)   == <<Own[Src[e]], IF Now = "forward" THEN Dst[e] ELSE Src[e]>>

(* Where a thread is in the phases of its process.                         *)
Placed(t) ==
    /\ pc[t] \in Working \cup Looping \cup {"idle", "end"}
    /\ pc[t] \in Working \cup Looping => phase[ProcOf(t)] = "tasks" /\ step[ProcOf(t)] = Now
    /\ pc[t] = "idle" => phase[ProcOf(t)] # "tasks"
    /\ pc[t] = "end" /\ Dynamic /\ ~ NotYet(ProcOf(t)) => taskcnt[ProcOf(t)] <= 0
    /\ phase[ProcOf(t)] \in {"cleanup", "barrier"} => pc[t] = "end"
    /\ pc[t] \in {"add", "dec"} => Now = "forward"
    /\ pc[t] = "store" => Now = "backward"
    /\ pc[t] \in {"pop", "popAgain", "steal"} => Dynamic
    /\ pc[t] = "wait" => ~ Dynamic

(* Where it is in its task.                                                *)
AtTask(t) ==
    /\ pc[t] \in Working =>
          /\ cur[t] \in Local /\ cur[t][1] = ProcOf(t)
          /\ \A e \in todo[t] : TaskOf(e) = cur[t]
          /\ cur[t] \in FanIns => Now = "backward"
          /\ tosend[t] # {} => Now = "backward" /\ cur[t] \notin FanIns /\ tosend[t] \subseteq RecvsTo(cur[t][2])
    /\ pc[t] \notin Working => todo[t] = {} /\ tosend[t] = {}
    /\ pc[t] \in {"alloc", "gemm", "release", "isend"} => todo[t] # {} /\ tosend[t] = {}
    /\ pc[t] \in {"alloc", "gemm", "isend"} => Target(t) \in FanIns
    /\ IF pc[t] # "register" THEN posted[t] = NoIdx
       ELSE IF Now = "forward" THEN todo[t] # {} /\ tosend[t] = {} /\ posted[t] = Target(t) /\ Target(t) \in FanIns
       ELSE posted[t] \in tosend[t]

(* A task is done by one thread.                                           *)
OneThread ==
    \A t, u \in Threads : pc[t] \in Working /\ pc[u] \in Working /\ cur[t] = cur[u] => t = u

ThreadInv == SolveTypes /\ StepsInv /\ OneThread /\ \A t \in Threads : Placed(t) /\ AtTask(t)

-----------------------------------------------------------------------------
(* The messages.                                                           *)

Contribs(x) == ProcEdges(x[1], x[2])
Sender(x)   == IF Now = "forward" THEN x[1] ELSE Own[x[2]]
Receiver(x) == IF Now = "forward" THEN Own[x[2]] ELSE x[1]
Data(x) == IF Now = "forward" THEN {<<"forward", e>> : e \in Contribs(x)} ELSE {<<"backward", x[2]>>}
Msg(x)  == [from |-> Sender(x), tag |-> x[2], data |-> Data(x)]

Channel(x)  == net[<<Sender(x), Receiver(x)>>]
InNet(x)    == \E i \in 1 .. Len(Channel(x)) : Channel(x)[i] = Msg(x)
BufferFull(p) == recvreq[p] \in {"done", "inactive"}
InBuffer(x) == BufferFull(Receiver(x)) /\ rcoeftab[Receiver(x)] = Msg(x)
Taking(x)   == \E t \in ThreadsOf(Receiver(x)) : held[t] = Msg(x)
TakenAt(x, l) == \E t \in ThreadsOf(Receiver(x)) : pc[t] = l /\ held[t] = Msg(x)

(* backward: the solution of a column block was not sent.                  *)
UnsentSolution(x) ==
    \/ solved["backward"][x[2]] = 0
    \/ \E t \in Threads : x \in tosend[t] /\ posted[t] # x

Queued(x) == \E t \in Threads : x \in queue[t]

(* A task that no thread has begun.                                        *)
Ahead(x) ==
    IF x \notin FanIns THEN solved[Now][x[2]] = 0
    ELSE Now = "forward" \/ UnsentSolution(x) \/ InNet(x) \/ InBuffer(x) \/ TakenAt(x, "store") \/ Queued(x)

NewTasks == {x \in Local : Ahead(x)}

BegunInv == \A t \in Threads : pc[t] \in Working => cur[t] \notin NewTasks

(* The blocks that have not passed the labels of L; a solution is sent     *)
(* before its column block is applied.                                     *)
EdgesBefore(L) ==
    {e \in Edges : \/ TaskOf(e) \in NewTasks
                   \/ \E t \in Threads : e \in todo[t] /\ (e # NextEdge(t) \/ pc[t] \in L \/ tosend[t] # {})}

FreshEdges  == EdgesBefore({"update", "alloc", "gemm"})                      \* not computed
LeftEdges   == EdgesBefore({"update", "alloc", "gemm", "release"})           \* not counted
UnsentEdges == EdgesBefore({"update", "alloc", "gemm", "release", "isend"})  \* nor sent

(* What is not sent, and what its receiver has not taken.                  *)
Unsent(x) == IF Now = "forward" THEN Contribs(x) \cap UnsentEdges # {} ELSE UnsentSolution(x)
Coming(x) == Unsent(x) \/ InNet(x) \/ InBuffer(x)

(* A thread that uses the message it received.                             *)
Holding(t) == pc[t] \in {"add", "dec", "store"} \/ (pc[t] \in Working /\ cur[t] \in FanIns /\ ~ Dynamic)

MessageInv ==
    /\ \A t \in Threads : held[t] # NoMsg <=> Holding(t)
    /\ \A q, p \in Procs :
          /\ net[<<q, p>>] \in Seq({Msg(x) : x \in FanIns})
          /\ \A i \in 1 .. Len(net[<<q, p>>]) :
                \E x \in FanIns : Sender(x) = q /\ Receiver(x) = p /\ net[<<q, p>>][i] = Msg(x)
    /\ \A p \in Procs : BufferFull(p) => \E x \in FanIns : Receiver(x) = p /\ rcoeftab[p] = Msg(x)
    /\ \A t \in Threads : held[t] # NoMsg => \E x \in FanIns : Receiver(x) = ProcOf(t) /\ held[t] = Msg(x)
    /\ \A t \in Threads : \A x \in FanIns : pc[t] \in Working /\ cur[t] = x /\ ~ Dynamic => held[t] = Msg(x)

(* A message is in one place at a time.                                    *)
OnePlaceInv ==
    \A x \in FanIns :
        /\ Unsent(x) => ~ InNet(x) /\ ~ InBuffer(x) /\ ~ Taking(x)
        /\ InNet(x) => ~ InBuffer(x) /\ ~ Taking(x)
        /\ InBuffer(x) => ~ Taking(x)
        /\ \A i, j \in 1 .. Len(Channel(x)) : Channel(x)[i] = Msg(x) /\ Channel(x)[j] = Msg(x) => i = j

(* A column block is sent once, and the copy of a solution is freed once   *)
(* it was sent.                                                            *)
SendInv ==
    /\ \A p \in Procs : \A i \in 1 .. Len(reqtab[p]) :
          \A x \in FanIns : reqtab[p][i].idx = x => Sender(x) = p
    /\ \A x \in FanIns : Unsent(x) =>
          /\ \A p \in Procs : \A i \in 1 .. Len(reqtab[p]) : reqtab[p][i].idx # x
          /\ \A t \in Threads : posted[t] # x
    /\ \A x \in FanIns : recvb[x] # <<>> => Now = "backward" /\ Pending(x)
    /\ \A p \in Procs : NotYet(p) \/ phase[p] = "barrier" => reqtab[p] = <<>>

(* What a fan-in holds: forward the sum of what was computed, backward the *)
(* solution it received, until its task is done.                           *)
Content(x) == IF faninb[x] = <<>> THEN {} ELSE faninb[x][1]

FanInInv ==
    /\ \A t \in Threads : pc[t] = "gemm" => faninb[Target(t)] # <<>>
    /\ \A x \in FanIns : Now = "forward" /\ Unsent(x) =>
          Content(x) = {<<"forward", e>> : e \in Contribs(x) \ FreshEdges}
    (* Only the last contribution is sent.                                 *)
    /\ \A x \in FanIns : Now = "forward" =>
          \A e \in Contribs(x) \cap UnsentEdges : \A f \in Contribs(x) \cap UnsentEdges :
              e \notin LeftEdges => f = e
    /\ \A x \in FanIns : faninb[x] # <<>> =>
          IF Now = "forward" THEN Unsent(x) \/ Pending(x)
          ELSE Queued(x) \/ \E t \in Threads : pc[t] \in Working /\ cur[t] = x
    /\ \A t \in Threads : \A x \in FanIns : pc[t] \in Working /\ cur[t] = x => faninb[x] = <<Data(x)>>

-----------------------------------------------------------------------------
(* The counters.                                                           *)

IncomingInv ==
    \A p \in Procs :
        IF NotYet(p) THEN incoming[p] = 0 /\ \A x \in FanIns : Receiver(x) = p => Coming(x)
        ELSE incoming[p] = Cardinality({x \in FanIns : Receiver(x) = p /\ Coming(x)})

(* What a column block waits for from the other processes.                 *)
Awaited(x) == {y \in RecvsTo(x[2]) : Now = "forward" /\ x \notin FanIns /\ (Coming(y) \/ Taking(y))}
Counter(x) == Cardinality({e \in LeftEdges : Home(e) = x}) + Cardinality(Awaited(x))

CounterInv ==
    /\ ctrbcnt \in [Local -> Nat]
    /\ \A x \in Local : ~ NotYet(x[1]) => ctrbcnt[x] = Counter(x)

(* A block is applied once: by its process, or with the message.           *)
GotInv ==
    /\ \A e \in Edges : Home(e) \notin FanIns => got[Now][e] = IF e \in FreshEdges THEN 0 ELSE 1
    /\ \A x \in FanIns : \A e \in Edges : Home(e) = x =>
          got[Now][e] = IF Coming(x) \/ TakenAt(x, "add") THEN 0 ELSE 1

(* A column block is solved when nothing is left for it.                   *)
ReadyInv ==
    \A c \in Cblks : solved[Now][c] # 0 =>
        /\ \A e \in LeftEdges : Home(e) # <<Own[c], c>>
        /\ Awaited(<<Own[c], c>>) = {}

-----------------------------------------------------------------------------
(* The two schedulers.                                                     *)

(* static: a thread follows its list.                                      *)
InOrder(t) ==
    /\ pos[t] \in 1 .. Len(Order[t]) + 1
    /\ pc[t] = "end" /\ ~ NotYet(ProcOf(t)) => pos[t] = Len(Order[t]) + 1
    /\ pc[t] \in Working \cup Looping => pos[t] <= Len(Order[t])
    /\ pc[t] \in Working /\ cur[t] \notin FanIns => cur[t][2] = Tasks(t)[pos[t]]
    /\ ~ NotYet(ProcOf(t)) => \A i \in 1 .. Len(Order[t]) :
          solved[Now][Tasks(t)[i]] =
              IF i < pos[t] \/ (i = pos[t] /\ pc[t] \in Working /\ cur[t] \notin FanIns) THEN 1 ELSE 0

(* dynamic: what is in the queues waits for nothing.                       *)
QueueInv ==
    /\ \A t, u \in Threads : queue[t] \cap queue[u] # {} => t = u
    /\ \A t \in Threads : \A x \in queue[t] :
          /\ Dynamic /\ x[1] = ProcOf(t) /\ ~ NotYet(x[1])
          /\ x \notin FanIns => solved[Now][x[2]] = 0 /\ ctrbcnt[x] = 0
          /\ x \in FanIns => /\ Now = "backward" /\ ~ Coming(x) /\ ~ TakenAt(x, "store")
                             /\ faninb[x] = <<Data(x)>>
                             /\ \A u \in Threads : pc[u] \in Working => cur[u] # x

(* dynamic: what taskcnt and local_taskcnt count.                          *)
TasksOf(p) == {x \in Local : x[1] = p /\ (x \in FanIns => Now = "backward")}
DoneTask(x) == x \notin NewTasks /\ \A t \in Threads : pc[t] \in Working => cur[t] # x

(* F[t]: the tasks done[t] counts; G: those that were taken off taskcnt.   *)
Counts(F, G) ==
    /\ \A t \in Threads : /\ F[t] \subseteq TasksOf(ProcOf(t)) /\ F[t] \cap G = {}
                          /\ done[t] = Cardinality(F[t])
                          /\ \A x \in F[t] : DoneTask(x)
                          /\ \A u \in Threads : u # t => F[t] \cap F[u] = {}
    /\ \A p \in Procs : ~ NotYet(p) => /\ \A x \in TasksOf(p) \cap G : DoneTask(x)
                                       /\ taskcnt[p] = Cardinality(TasksOf(p) \ G)

CountInv == \E F \in [Threads -> SUBSET Local], G \in SUBSET Local : Counts(F, G)

SolveInv ==
    /\ ThreadInv /\ EngineInv /\ MessageInv /\ OnePlaceInv /\ BegunInv /\ SendInv /\ FanInInv
    /\ IncomingInv /\ CounterInv /\ GotInv /\ ReadyInv
    /\ ~ Dynamic => \A t \in Threads : InOrder(t)
    /\ QueueInv
    /\ Dynamic => CountInv

-----------------------------------------------------------------------------
(* The structure, in the step that is being done.                          *)

LEMMA NowFacts ==
    /\ Now \in Steps /\ (Now = "forward" \/ Now = "backward")
    /\ Now # "forward" <=> Now = "backward"
    /\ \A p \in Procs : step[p] = Now => (Forward(p) <=> Now = "forward") /\ (Backward(p) <=> Now = "backward")
BY DEF Now, Steps, Forward, Backward

LEMMA NowSame ==
    ASSUME UNCHANGED step
    PROVE  /\ Now' = Now
           /\ \A e : TaskOf(e)' = TaskOf(e) /\ Home(e)' = Home(e)
           /\ \A x : Sender(x)' = Sender(x) /\ Receiver(x)' = Receiver(x)
           /\ \A x : Data(x)' = Data(x) /\ Msg(x)' = Msg(x)
           /\ \A p : (Forward(p)' <=> Forward(p)) /\ (Backward(p)' <=> Backward(p))
<1>1. \A p : (Forward(p)' <=> Forward(p)) /\ (Backward(p)' <=> Backward(p))
  BY DEF Forward, Backward
<1>2. Now' = Now
  BY <1>1 DEF Now
<1>3. \A x : Data(x)' = Data(x)
  BY <1>2 DEF Data
<1>4. \A x : Sender(x)' = Sender(x) /\ Receiver(x)' = Receiver(x)
  BY <1>2 DEF Sender, Receiver
<1>5. \A x : Msg(x)' = Msg(x)
  BY <1>3, <1>4 DEF Msg
<1>6. \A e : TaskOf(e)' = TaskOf(e) /\ Home(e)' = Home(e)
  BY <1>2 DEF TaskOf, Home
<1> QED
  BY <1>1, <1>2, <1>3, <1>4, <1>5, <1>6

LEMMA EdgeFacts ==
    /\ Edges \subseteq Int
    /\ \A e \in Edges :
          /\ Src[e] \in Cblks /\ Dst[e] \in Cblks /\ Own[Src[e]] \in Procs /\ Own[Dst[e]] \in Procs
          /\ TaskOf(e) \in Local /\ Home(e) \in Local
          /\ TaskOf(e)[1] = Own[Src[e]] /\ Home(e)[1] = Own[Src[e]]
          /\ Home(e) \in FanIns <=> Now = "forward" /\ Own[Src[e]] # Own[Dst[e]]
          /\ TaskOf(e) \in FanIns <=> Now = "backward" /\ Own[Src[e]] # Own[Dst[e]]
    /\ \A x \in Local : /\ x[1] \in Procs /\ x[2] \in Cblks /\ x = <<x[1], x[2]>>
                        /\ x \in FanIns <=> x[1] # Own[x[2]]
    /\ \A x \in Local : \A e \in Edges :
          /\ Now = "forward" => (e \in Contribs(x) <=> Home(e) = x)
          /\ Now = "backward" => (e \in Contribs(x) <=> TaskOf(e) = x)
          /\ Now = "forward" => (TaskOf(e) = x <=> x \notin FanIns /\ e \in OutOf(x[2]))
          /\ Now = "backward" => (Home(e) = x <=> x \notin FanIns /\ e \in OutOf(x[2]))
    /\ \A x : Contribs(x) \subseteq Edges
<1>1. /\ Edges \subseteq Int /\ Src \in [Edges -> Cblks] /\ Dst \in [Edges -> Cblks]
      /\ Own \in [Cblks -> Procs]
  BY StructureAssumption
<1>2. \A x \in Local : /\ x[1] \in Procs /\ x[2] \in Cblks /\ x = <<x[1], x[2]>>
                       /\ x \in FanIns <=> x[1] # Own[x[2]]
  <2>1. \A x \in FanIns : /\ x[1] \in Procs /\ x[2] \in Cblks /\ x = <<x[1], x[2]>> /\ x[1] # Own[x[2]]
    BY FanInFacts
  <2>2. \A c \in Cblks : <<Own[c], c>>[1] = Own[c] /\ <<Own[c], c>>[2] = c /\ Own[c] \in Procs
    BY <1>1
  <2> QED
    BY <2>1, <2>2 DEF Local
<1>3. ASSUME NEW e \in Edges, NEW d \in {Src[e], Dst[e]}
      PROVE  <<Own[Src[e]], d>> \in Local /\ (<<Own[Src[e]], d>> \in FanIns <=> d = Dst[e] /\ Own[Src[e]] # Own[Dst[e]])
  <2>1. Src[e] \in Cblks /\ Dst[e] \in Cblks /\ Own[Src[e]] \in Procs
    BY <1>1
  <2>2. e \in ProcEdges(Own[Src[e]], Dst[e])
    BY DEF ProcEdges
  <2>3. <<Own[Src[e]], Dst[e]>> \in FanIns <=> Own[Src[e]] # Own[Dst[e]]
    BY <2>1, <2>2 DEF FanIns
  <2>4. <<Own[Src[e]], Src[e]>> \notin FanIns
    BY DEF FanIns
  <2> QED
    BY <2>1, <2>3, <2>4 DEF Local
<1>4. ASSUME NEW e \in Edges
      PROVE  /\ Src[e] \in Cblks /\ Dst[e] \in Cblks /\ Own[Src[e]] \in Procs /\ Own[Dst[e]] \in Procs
             /\ TaskOf(e) \in Local /\ Home(e) \in Local
             /\ TaskOf(e)[1] = Own[Src[e]] /\ Home(e)[1] = Own[Src[e]]
             /\ Home(e) \in FanIns <=> Now = "forward" /\ Own[Src[e]] # Own[Dst[e]]
             /\ TaskOf(e) \in FanIns <=> Now = "backward" /\ Own[Src[e]] # Own[Dst[e]]
  <2>1. Src[e] \in Cblks /\ Dst[e] \in Cblks /\ Own[Src[e]] \in Procs /\ Own[Dst[e]] \in Procs
    BY <1>1
  <2>2. CASE Now = "forward"
    <3>1. TaskOf(e) = <<Own[Src[e]], Src[e]>> /\ Home(e) = <<Own[Src[e]], Dst[e]>>
      BY <2>2 DEF TaskOf, Home
    <3>2. <<Own[Src[e]], Src[e]>> \notin FanIns
      BY DEF FanIns
    <3> QED
      BY <1>3, <2>1, <2>2, <3>1, <3>2
  <2>3. CASE Now # "forward"
    <3>1. Now = "backward"
      BY <2>3, NowFacts
    <3>2. TaskOf(e) = <<Own[Src[e]], Dst[e]>> /\ Home(e) = <<Own[Src[e]], Src[e]>>
      BY <2>3 DEF TaskOf, Home
    <3>3. <<Own[Src[e]], Src[e]>> \notin FanIns
      BY DEF FanIns
    <3> QED
      BY <1>3, <2>1, <2>3, <3>1, <3>2, <3>3
  <2> QED
    BY <2>2, <2>3
<1>5. ASSUME NEW x \in Local, NEW e \in Edges
      PROVE  /\ Now = "forward" => (e \in Contribs(x) <=> Home(e) = x)
             /\ Now = "backward" => (e \in Contribs(x) <=> TaskOf(e) = x)
             /\ Now = "forward" => (TaskOf(e) = x <=> x \notin FanIns /\ e \in OutOf(x[2]))
             /\ Now = "backward" => (Home(e) = x <=> x \notin FanIns /\ e \in OutOf(x[2]))
  <2>1. x = <<x[1], x[2]>> /\ (x \in FanIns <=> x[1] # Own[x[2]])
    BY <1>2
  <2>2. e \in Contribs(x) <=> Own[Src[e]] = x[1] /\ Dst[e] = x[2]
    BY DEF Contribs, ProcEdges
  <2>3. e \in OutOf(x[2]) <=> Src[e] = x[2]
    BY DEF OutOf
  <2> QED
    BY <2>1, <2>2, <2>3 DEF Home, TaskOf
<1>6. \A x : Contribs(x) \subseteq Edges
  BY DEF Contribs, ProcEdges
<1> QED
  BY <1>1, <1>2, <1>4, <1>5, <1>6

LEMMA LocalFinite == IsFiniteSet(Local) /\ \A S : S \subseteq Local => IsFiniteSet(S) /\ Cardinality(S) \in Nat
<1> DEFINE f == [c \in Cblks |-> <<Own[c], c>>]
           D == {<<Own[c], c>> : c \in Cblks}
<1>1. IsFiniteSet(D)
  <2>1. f \in Surjection(Cblks, D)
    BY DEF Surjection
  <2>2. IsFiniteSet(Cblks)
    BY StructureAssumption
  <2> QED
    BY <2>1, <2>2, FS_Surjection
<1>2. IsFiniteSet(Local)
  BY <1>1, FanInsFinite, FS_Union DEF Local
<1> QED
  BY <1>2, FS_Subset, FS_CardinalityType

(* What is left of a set without some of its members.                      *)
LEMMA SubsetCardinality ==
    ASSUME NEW S, IsFiniteSet(S), NEW T, T \subseteq S
    PROVE  /\ Cardinality(S \ T) = Cardinality(S) - Cardinality(T)
           /\ Cardinality(S) \in Nat /\ Cardinality(T) \in Nat
<1>1. S \cap T = T
  OBVIOUS
<1>2. Cardinality(S \ T) = Cardinality(S) - Cardinality(T)
  BY <1>1, FS_Difference
<1>3. IsFiniteSet(T)
  BY FS_Subset
<1> QED
  BY <1>2, <1>3, FS_CardinalityType

(* A remote column block and its message.                                  *)
LEMMA RemoteFacts ==
    /\ \A x \in FanIns : /\ Sender(x) \in Procs /\ Receiver(x) \in Procs /\ Sender(x) # Receiver(x)
                         /\ Now = "forward" => Sender(x) = x[1] /\ Receiver(x) = Own[x[2]]
                         /\ Now = "backward" => Sender(x) = Own[x[2]] /\ Receiver(x) = x[1]
                         /\ Msg(x) # NoMsg /\ Msg(x).tag = x[2] /\ Msg(x).data = Data(x)
    /\ \A x, y \in FanIns : Msg(x) = Msg(y) /\ Receiver(x) = Receiver(y) => x = y
<1>1. ASSUME NEW x \in FanIns
      PROVE  /\ Sender(x) \in Procs /\ Receiver(x) \in Procs /\ Sender(x) # Receiver(x)
             /\ Now = "forward" => Sender(x) = x[1] /\ Receiver(x) = Own[x[2]]
             /\ Now = "backward" => Sender(x) = Own[x[2]] /\ Receiver(x) = x[1]
  BY FanInFacts DEF Sender, Receiver
<1>2. ASSUME NEW x \in FanIns PROVE Msg(x) # NoMsg /\ Msg(x).tag = x[2] /\ Msg(x).data = Data(x)
  <2>1. Sender(x) # NoThread
    BY <1>1, ThreadFacts
  <2>2. Msg(x).from = Sender(x) /\ NoMsg.from = NoThread
    BY DEF Msg, NoMsg
  <2> QED
    BY <2>1, <2>2 DEF Msg
<1>3. ASSUME NEW x \in FanIns, NEW y \in FanIns, Msg(x) = Msg(y), Receiver(x) = Receiver(y) PROVE x = y
  <2>1. x[2] = y[2]
    BY <1>2, <1>3
  <2>2. Sender(x) = Sender(y)
    <3>1. Msg(x).from = Sender(x) /\ Msg(y).from = Sender(y)
      BY DEF Msg
    <3> QED
      BY <1>3, <3>1
  <2>3. x[1] = y[1]
    BY <1>1, <1>3, <2>2, NowFacts
  <2> QED
    BY <2>1, <2>3, FanInFacts
<1> QED
  BY <1>1, <1>2, <1>3

-----------------------------------------------------------------------------
(* The threads in their tasks.                                             *)

(* The block a thread is at.                                               *)
LEMMA NextEdgeFacts ==
    ASSUME ThreadInv, NEW t \in Threads, todo[t] # {}
    PROVE  /\ NextEdge(t) \in todo[t] /\ NextEdge(t) \in Edges
           /\ pc[t] \in Working /\ step[ProcOf(t)] = Now
           /\ \A e \in todo[t] : TaskOf(e) = cur[t]
           /\ Target(t) = Home(NextEdge(t)) /\ Target(t) \in Local
<1>1. pc[t] \in Working
  BY DEF ThreadInv, AtTask
<1>2. todo[t] \subseteq Edges /\ cur[t] \in Local /\ cur[t][1] = ProcOf(t) /\ \A e \in todo[t] : TaskOf(e) = cur[t]
  BY <1>1 DEF ThreadInv, SolveTypes, AtTask
<1>3. NextEdge(t) \in todo[t]
  <2>1. todo[t] \subseteq Int /\ IsFiniteSet(todo[t])
    BY <1>2, EdgeFacts, EdgesFinite
  <2> QED
    BY <2>1, MinOfFinite, MaxOfFinite DEF NextEdge
<1>4. step[ProcOf(t)] = Now
  BY <1>1 DEF ThreadInv, Placed
<1>5. Target(t) = Home(NextEdge(t))
  <2>1. Own[Src[NextEdge(t)]] = ProcOf(t)
    BY <1>2, <1>3, EdgeFacts
  <2>2. Forward(ProcOf(t)) <=> Now = "forward"
    BY <1>4, NowFacts, ThreadFacts
  <2> QED
    BY <2>1, <2>2 DEF Target, Home
<1> QED
  BY <1>1, <1>2, <1>3, <1>4, <1>5, EdgeFacts

(* A block is in the task of one thread.                                   *)
LEMMA OneTask ==
    ASSUME ThreadInv, NEW t \in Threads, NEW u \in Threads, NEW e, e \in todo[t], e \in todo[u]
    PROVE  t = u
<1>1. cur[t] = cur[u] /\ pc[t] \in Working /\ pc[u] \in Working
  BY NextEdgeFacts
<1> QED
  BY <1>1 DEF ThreadInv, OneThread

(* The other threads stay where they are.                                  *)
Others(t) == \A u \in Threads : u # t =>
    pc'[u] = pc[u] /\ todo'[u] = todo[u] /\ tosend'[u] = tosend[u] /\ cur'[u] = cur[u] /\ posted'[u] = posted[u]

LEMMA NextSame ==
    ASSUME UNCHANGED step, NEW u, todo'[u] = todo[u]
    PROVE  NextEdge(u)' = NextEdge(u) /\ Target(u)' = Target(u)
<1>1. NextEdge(u)' = NextEdge(u)
  BY DEF NextEdge, Forward
<1> QED
  BY <1>1 DEF Target, Forward

LEMMA StepsSame ==
    ASSUME StepsInv, UNCHANGED <<step, solved>>,
           \A p \in Procs : phase'[p] = phase[p] \/ (phase[p] # "barrier" /\ phase'[p] # "start"),
           \A s \in Steps : s # Now => got'[s] = got[s]
    PROVE  StepsInv'
<1>1. Now' = Now /\ Now \in Steps
  BY NowSame, NowFacts
<1>2. \A p \in Procs : NotYet(p)' => NotYet(p)
  BY <1>1 DEF NotYet
<1>3. Now = "forward" => got'["backward"] = got["backward"]
  BY <1>1 DEF Steps
<1>4. Now = "backward" => got'["forward"] = got["forward"]
  BY <1>1 DEF Steps
<1> QED
  BY <1>1, <1>2, <1>3, <1>4 DEF StepsInv

(* A step of one thread, in its process and in its task.                   *)
LEMMA ThreadStep ==
    ASSUME ThreadInv, SolveTypes', StepsInv', UNCHANGED <<step, phase>>, NEW t \in Threads, Others(t),
           \A p \in Procs : taskcnt'[p] <= taskcnt[p],
           Placed(t)', AtTask(t)',
           pc'[t] \in Working => \/ pc[t] \in Working /\ cur'[t] = cur[t]
                                 \/ \A u \in Threads : pc[u] \in Working => cur[u] # cur'[t]
    PROVE  ThreadInv'
<1>1. Now' = Now /\ \A e : TaskOf(e)' = TaskOf(e)
  BY NowSame
<1>2. ASSUME NEW u \in Threads, u # t PROVE Placed(u)' /\ AtTask(u)'
  <2>1. pc'[u] = pc[u] /\ todo'[u] = todo[u] /\ tosend'[u] = tosend[u] /\ cur'[u] = cur[u] /\ posted'[u] = posted[u]
    BY <1>2 DEF Others
  <2>2. Target(u)' = Target(u)
    BY <2>1, NextSame
  <2>3. Placed(u) /\ AtTask(u)
    BY DEF ThreadInv
  <2>4. taskcnt'[ProcOf(u)] <= taskcnt[ProcOf(u)] /\ taskcnt'[ProcOf(u)] \in Int /\ taskcnt[ProcOf(u)] \in Int
    BY ThreadFacts DEF ThreadInv, SolveTypes
  <2>5. NotYet(ProcOf(u))' <=> NotYet(ProcOf(u))
    BY <1>1 DEF NotYet
  <2>6. Placed(u)'
    BY <1>1, <2>1, <2>3, <2>4, <2>5 DEF Placed
  <2>7. AtTask(u)'
    BY <1>1, <2>1, <2>2, <2>3 DEF AtTask
  <2> QED
    BY <2>6, <2>7
<1>3. OneThread'
  <2> SUFFICES ASSUME NEW u \in Threads, NEW v \in Threads, pc'[u] \in Working, pc'[v] \in Working,
                      cur'[u] = cur'[v], u # v
               PROVE  FALSE
    BY DEF OneThread
  <2>1. \A w \in Threads : w # t => pc'[w] = pc[w] /\ cur'[w] = cur[w]
    BY DEF Others
  <2>2. \A w \in Threads : \A x \in Threads : pc[w] \in Working /\ pc[x] \in Working /\ cur[w] = cur[x] => w = x
    BY DEF ThreadInv, OneThread
  <2> QED
    BY <2>1, <2>2
<1> QED
  BY <1>2, <1>3 DEF ThreadInv

-----------------------------------------------------------------------------
(* The blocks that have not passed some labels, step by step.              *)

LEMMA EdgesBeforeFacts ==
    ASSUME ThreadInv, BegunInv, NEW t \in Threads, todo[t] # {}, NEW L
    PROVE  NextEdge(t) \in EdgesBefore(L) <=> pc[t] \in L \/ tosend[t] # {}
<1>1. /\ NextEdge(t) \in todo[t] /\ NextEdge(t) \in Edges
      /\ TaskOf(NextEdge(t)) \notin NewTasks
  BY NextEdgeFacts DEF BegunInv
<1>2. \A u \in Threads : NextEdge(t) \in todo[u] => u = t
  BY <1>1, OneTask
<1> QED
  BY <1>1, <1>2 DEF EdgesBefore

LEMMA EdgesNested ==
    /\ FreshEdges \subseteq LeftEdges /\ LeftEdges \subseteq UnsentEdges /\ UnsentEdges \subseteq Edges
BY DEF FreshEdges, LeftEdges, UnsentEdges, EdgesBefore

LEMMA EdgesSame ==
    ASSUME UNCHANGED <<todo, step>>, NewTasks' = NewTasks, NEW L,
           \A t \in Threads : todo[t] # {} =>
              (pc'[t] \in L \/ tosend'[t] # {} <=> pc[t] \in L \/ tosend[t] # {})
    PROVE  EdgesBefore(L)' = EdgesBefore(L)
<1>1. \A t \in Threads : NextEdge(t)' = NextEdge(t)
  BY NextSame
<1>2. \A e : TaskOf(e)' = TaskOf(e)
  BY NowSame
<1> QED
  BY <1>1, <1>2 DEF EdgesBefore

(* A thread passes the labels of L with a block.                           *)
LEMMA EdgesPass ==
    ASSUME ThreadInv, BegunInv, UNCHANGED <<todo, tosend, step>>, NewTasks' = NewTasks,
           NEW L, NEW t \in Threads, todo[t] # {}, tosend[t] = {},
           \A u \in Threads : u # t => pc'[u] = pc[u], pc'[t] \notin L
    PROVE  EdgesBefore(L)' = EdgesBefore(L) \ {NextEdge(t)}
<1>1. NextEdge(t) \in todo[t] /\ TaskOf(NextEdge(t)) \notin NewTasks
  BY NextEdgeFacts DEF BegunInv
<1>2. /\ \A u \in Threads : NextEdge(u)' = NextEdge(u)
      /\ \A e : TaskOf(e)' = TaskOf(e)
  BY NextSame, NowSame
<1>3. \A u \in Threads : NextEdge(t) \in todo[u] => u = t
  BY <1>1, OneTask
<1>4. ASSUME NEW e \in Edges
      PROVE  e \in EdgesBefore(L)' <=> e \in EdgesBefore(L) /\ e # NextEdge(t)
  <2>1. CASE e = NextEdge(t)
    BY <1>1, <1>2, <1>3, <2>1 DEF EdgesBefore
  <2>2. CASE e # NextEdge(t)
    <3>1. \A u \in Threads : e \in todo'[u] /\ (e # NextEdge(u)' \/ pc'[u] \in L \/ tosend'[u] # {})
                              <=> e \in todo[u] /\ (e # NextEdge(u) \/ pc[u] \in L \/ tosend[u] # {})
      BY <1>2, <2>2
    <3> QED
      BY <1>2, <2>2, <3>1 DEF EdgesBefore
  <2> QED
    BY <2>1, <2>2
<1> QED
  BY <1>4 DEF EdgesBefore

(* A block leaves the task of a thread.                                    *)
LEMMA EdgesDrop ==
    ASSUME ThreadInv, BegunInv, UNCHANGED <<tosend, step>>, NewTasks' = NewTasks,
           NEW L, NEW t \in Threads, todo[t] # {},
           todo' = [todo EXCEPT ![t] = @ \ {NextEdge(t)}],
           \A u \in Threads : u # t => pc'[u] = pc[u], pc'[t] \in L
    PROVE  EdgesBefore(L)' = EdgesBefore(L) \ {NextEdge(t)}
<1>1. NextEdge(t) \in todo[t] /\ TaskOf(NextEdge(t)) \notin NewTasks
  BY NextEdgeFacts DEF BegunInv
<1>2. /\ todo'[t] = todo[t] \ {NextEdge(t)}
      /\ \A u \in Threads : u # t => todo'[u] = todo[u]
  BY DEF ThreadInv, SolveTypes
<1>3. /\ \A u \in Threads : u # t => NextEdge(u)' = NextEdge(u)
      /\ \A e : TaskOf(e)' = TaskOf(e)
  BY <1>2, NextSame, NowSame
<1>4. \A u \in Threads : NextEdge(t) \in todo[u] => u = t
  BY <1>1, OneTask
<1>5. ASSUME NEW e \in Edges
      PROVE  e \in EdgesBefore(L)' <=> e \in EdgesBefore(L) /\ e # NextEdge(t)
  <2>1. CASE e = NextEdge(t)
    BY <1>1, <1>2, <1>3, <1>4, <2>1 DEF EdgesBefore
  <2>2. CASE e # NextEdge(t)
    <3>1. \A u \in Threads : e \in todo'[u] /\ (e # NextEdge(u)' \/ pc'[u] \in L \/ tosend'[u] # {})
                              <=> e \in todo[u] /\ (e # NextEdge(u) \/ pc[u] \in L \/ tosend[u] # {})
      BY <1>2, <1>3, <2>2
    <3> QED
      BY <1>3, <2>2, <3>1 DEF EdgesBefore
  <2> QED
    BY <2>1, <2>2
<1> QED
  BY <1>5 DEF EdgesBefore

(* A task begins: its blocks wait for its thread.                          *)
LEMMA EdgesBegin ==
    ASSUME ThreadInv, BegunInv, UNCHANGED step, NEW t \in Threads, NEW x \in Local,
           todo[t] = {}, todo'[t] = {e \in Edges : TaskOf(e) = x}, pc'[t] = "update",
           \A u \in Threads : u # t => pc'[u] = pc[u] /\ todo'[u] = todo[u] /\ tosend'[u] = tosend[u],
           x \in NewTasks, NewTasks' = NewTasks \ {x}, NEW L, "update" \in L
    PROVE  EdgesBefore(L)' = EdgesBefore(L)
<1>1. \A u \in Threads : \A e \in todo[u] : TaskOf(e) \notin NewTasks
  BY NextEdgeFacts DEF BegunInv
<1>2. /\ \A u \in Threads : u # t => NextEdge(u)' = NextEdge(u)
      /\ \A e : TaskOf(e)' = TaskOf(e)
  BY NextSame, NowSame
<1>3. ASSUME NEW e \in Edges PROVE e \in EdgesBefore(L)' <=> e \in EdgesBefore(L)
  <2>1. CASE TaskOf(e) = x
    <3>1. e \in todo'[t]
      BY <2>1
    <3> QED
      BY <2>1, <3>1 DEF EdgesBefore
  <2>2. CASE TaskOf(e) # x
    <3>1. e \notin todo[t] /\ e \notin todo'[t]
      BY <2>2
    <3>2. \A u \in Threads : e \in todo'[u] /\ (e # NextEdge(u)' \/ pc'[u] \in L \/ tosend'[u] # {})
                              <=> e \in todo[u] /\ (e # NextEdge(u) \/ pc[u] \in L \/ tosend[u] # {})
      BY <1>2, <3>1
    <3>3. TaskOf(e)' \in NewTasks' <=> TaskOf(e) \in NewTasks
      BY <1>2, <2>2
    <3> QED
      BY <3>2, <3>3 DEF EdgesBefore
  <2> QED
    BY <2>1, <2>2
<1> QED
  BY <1>3 DEF EdgesBefore

(* The blocks stay where they are.                                         *)
EdgesKept == FreshEdges' = FreshEdges /\ LeftEdges' = LeftEdges /\ UnsentEdges' = UnsentEdges

(* A thread does not compute the block it is at.                           *)
Unmoved(t) ==
    pc'[t] = pc[t] \/ todo[t] = {} \/ tosend[t] # {} \/ {pc[t], pc'[t]} \subseteq {"update", "alloc", "gemm"}

LEMMA EdgesStay ==
    ASSUME UNCHANGED <<todo, tosend, step>>, NewTasks' = NewTasks,
           \A t \in Threads : Unmoved(t)
    PROVE  EdgesKept
BY EdgesSame DEF Unmoved, EdgesKept, FreshEdges, LeftEdges, UnsentEdges

-----------------------------------------------------------------------------
(* What a step that moves no message leaves as it was.                     *)

MessagesKept == UNCHANGED <<net, rcoeftab, held>> /\ \A p \in Procs : BufferFull(p)' <=> BufferFull(p)
AtFanIn(t) == pc[t] \in Working /\ cur[t] \in FanIns /\ ~ Dynamic
LabelsKept == \A t \in Threads :
    /\ pc'[t] = "add" <=> pc[t] = "add"
    /\ pc'[t] = "dec" <=> pc[t] = "dec"
    /\ pc'[t] = "store" <=> pc[t] = "store"
    /\ AtFanIn(t)' <=> AtFanIn(t)
    /\ AtFanIn(t) => cur'[t] = cur[t]
HoldersKept == \A t \in Threads :
    /\ pc'[t] \in {"add", "dec"} <=> pc[t] \in {"add", "dec"}
    /\ pc'[t] = "store" <=> pc[t] = "store"
    /\ AtFanIn(t)' <=> AtFanIn(t)
    /\ AtFanIn(t) => cur'[t] = cur[t]
TasksKept == \A t \in Threads : /\ pc'[t] \in Working <=> pc[t] \in Working
                                /\ pc[t] \in Working => cur'[t] = cur[t]
StepsKept == \A p \in Procs : NotYet(p)' <=> NotYet(p)
UnsentKept == \A x \in FanIns : Unsent(x)' <=> Unsent(x)
ComingKept == \A x \in FanIns : (Coming(x)' <=> Coming(x)) /\ (Taking(x)' <=> Taking(x))

LEMMA StepsKeptSame == ASSUME UNCHANGED <<step, phase>> PROVE StepsKept
BY NowSame DEF StepsKept, NotYet

LEMMA PlacesHeld ==
    ASSUME UNCHANGED step, MessagesKept, HoldersKept
    PROVE  \A x \in FanIns : /\ (InNet(x)' <=> InNet(x)) /\ (InBuffer(x)' <=> InBuffer(x))
                             /\ (Taking(x)' <=> Taking(x)) /\ Channel(x)' = Channel(x)
                             /\ (TakenAt(x, "store")' <=> TakenAt(x, "store"))
<1> SUFFICES ASSUME NEW x \in FanIns
             PROVE  /\ (InNet(x)' <=> InNet(x)) /\ (InBuffer(x)' <=> InBuffer(x))
                    /\ (Taking(x)' <=> Taking(x)) /\ Channel(x)' = Channel(x)
                    /\ (TakenAt(x, "store")' <=> TakenAt(x, "store"))
  OBVIOUS
<1>1. /\ Msg(x)' = Msg(x) /\ Receiver(x)' = Receiver(x) /\ Sender(x)' = Sender(x)
      /\ Receiver(x) \in Procs /\ ThreadsOf(Receiver(x)) \subseteq Threads
  BY NowSame, RemoteFacts, ThreadFacts
<1>2. Channel(x)' = Channel(x)
  BY <1>1 DEF Channel, MessagesKept
<1>3. InNet(x)' <=> InNet(x)
  BY <1>1, <1>2 DEF InNet
<1>4. InBuffer(x)' <=> InBuffer(x)
  BY <1>1 DEF InBuffer, MessagesKept, BufferFull
<1>5. Taking(x)' <=> Taking(x)
  BY <1>1 DEF Taking, MessagesKept
<1>6. TakenAt(x, "store")' <=> TakenAt(x, "store")
  BY <1>1 DEF TakenAt, MessagesKept, HoldersKept
<1> QED
  BY <1>2, <1>3, <1>4, <1>5, <1>6

LEMMA PlacesSame ==
    ASSUME UNCHANGED step, MessagesKept, LabelsKept
    PROVE  \A x \in FanIns : /\ (InNet(x)' <=> InNet(x)) /\ (InBuffer(x)' <=> InBuffer(x))
                             /\ (Taking(x)' <=> Taking(x)) /\ Channel(x)' = Channel(x)
                             /\ (TakenAt(x, "add")' <=> TakenAt(x, "add"))
                             /\ (TakenAt(x, "store")' <=> TakenAt(x, "store"))
<1>1. HoldersKept
  BY DEF LabelsKept, HoldersKept
<1>2. ASSUME NEW x \in FanIns PROVE TakenAt(x, "add")' <=> TakenAt(x, "add")
  <2>1. /\ Msg(x)' = Msg(x) /\ Receiver(x)' = Receiver(x)
        /\ Receiver(x) \in Procs /\ ThreadsOf(Receiver(x)) \subseteq Threads
    BY NowSame, RemoteFacts, ThreadFacts
  <2> QED
    BY <2>1 DEF TakenAt, MessagesKept, LabelsKept
<1> QED
  BY <1>1, <1>2, PlacesHeld

(* A remote column block that waits, anywhere, to be computed.             *)
Waiting(x) == UnsentSolution(x) \/ InNet(x) \/ InBuffer(x) \/ TakenAt(x, "store") \/ Queued(x)

LEMMA AheadSame ==
    ASSUME UNCHANGED <<step, solved>>, Now = "backward" => \A x \in FanIns : Waiting(x)' <=> Waiting(x)
    PROVE  NewTasks' = NewTasks
<1>1. Now' = Now
  BY NowSame
<1>2. ASSUME NEW x \in Local PROVE Ahead(x)' <=> Ahead(x)
  <2>1. CASE x \notin FanIns
    BY <1>1, <2>1 DEF Ahead
  <2>2. CASE x \in FanIns /\ Now = "forward"
    BY <1>1, <2>2 DEF Ahead
  <2>3. CASE x \in FanIns /\ Now = "backward"
    BY <1>1, <2>3 DEF Ahead, Waiting
  <2> QED
    BY <2>1, <2>2, <2>3, NowFacts
<1> QED
  BY <1>2 DEF NewTasks

LEMMA UnsentSolutionSame ==
    ASSUME UNCHANGED <<solved, tosend>>, \A t \in Threads : tosend[t] # {} => posted'[t] = posted[t]
    PROVE  \A x : UnsentSolution(x)' <=> UnsentSolution(x)
BY DEF UnsentSolution

LEMMA UnsentSame ==
    ASSUME UNCHANGED step, UnsentEdges' = UnsentEdges, \A x \in FanIns : UnsentSolution(x)' <=> UnsentSolution(x)
    PROVE  UnsentKept
BY NowSame DEF UnsentKept, Unsent, Contribs

LEMMA BegunSame ==
    ASSUME BegunInv, TasksKept, NewTasks' \subseteq NewTasks
    PROVE  BegunInv'
BY DEF BegunInv, TasksKept

LEMMA MessageHeld ==
    ASSUME MessageInv, OnePlaceInv, UNCHANGED step, MessagesKept, HoldersKept, UnsentKept
    PROVE  MessageInv' /\ OnePlaceInv' /\ ComingKept
<1>1. \A x : Msg(x)' = Msg(x) /\ Sender(x)' = Sender(x) /\ Receiver(x)' = Receiver(x)
  BY NowSame
<1>2. MessageInv'
  <2>1. \A t \in Threads : (Holding(t)' <=> Holding(t)) /\ held'[t] = held[t]
    BY DEF Holding, HoldersKept, MessagesKept, AtFanIn
  <2>2. {Msg(x) : x \in FanIns}' = {Msg(x) : x \in FanIns}
    BY <1>1
  <2>3. \A t \in Threads : held'[t] # NoMsg <=> Holding(t)'
    BY <2>1 DEF MessageInv
  <2>4. \A q, p \in Procs :
          /\ net'[<<q, p>>] \in Seq({Msg(x) : x \in FanIns}')
          /\ \A i \in 1 .. Len(net'[<<q, p>>]) :
                \E x \in FanIns : Sender(x)' = q /\ Receiver(x)' = p /\ net'[<<q, p>>][i] = Msg(x)'
    BY <1>1, <2>2 DEF MessageInv, MessagesKept
  <2>5. \A p \in Procs : BufferFull(p)' => \E x \in FanIns : Receiver(x)' = p /\ rcoeftab'[p] = Msg(x)'
    BY <1>1 DEF MessageInv, MessagesKept
  <2>6. \A t \in Threads : held'[t] # NoMsg => \E x \in FanIns : Receiver(x)' = ProcOf(t) /\ held'[t] = Msg(x)'
    BY <1>1, <2>1 DEF MessageInv
  <2>7. \A t \in Threads : \A x \in FanIns : pc'[t] \in Working /\ cur'[t] = x /\ ~ Dynamic => held'[t] = Msg(x)'
    BY <1>1, <2>1 DEF MessageInv, HoldersKept, AtFanIn
  <2> QED
    BY <2>3, <2>4, <2>5, <2>6, <2>7 DEF MessageInv
<1>3. OnePlaceInv'
  BY <1>1, PlacesHeld DEF OnePlaceInv, UnsentKept
<1>4. ComingKept
  BY PlacesHeld DEF ComingKept, Coming, UnsentKept
<1> QED
  BY <1>2, <1>3, <1>4

LEMMA MessageSame ==
    ASSUME MessageInv, OnePlaceInv, UNCHANGED step, MessagesKept, LabelsKept, UnsentKept
    PROVE  MessageInv' /\ OnePlaceInv' /\ ComingKept
<1>1. HoldersKept
  BY DEF LabelsKept, HoldersKept
<1> QED
  BY <1>1, MessageHeld

LEMMA IncomingSame ==
    ASSUME IncomingInv, UNCHANGED <<step, incoming>>, StepsKept,
           \A x \in FanIns : Coming(x)' <=> Coming(x)
    PROVE  IncomingInv'
<1>1. \A x : Receiver(x)' = Receiver(x)
  BY NowSame
<1>2. ASSUME NEW p \in Procs
      PROVE  {x \in FanIns : Receiver(x)' = p /\ Coming(x)'} = {x \in FanIns : Receiver(x) = p /\ Coming(x)}
  BY <1>1
<1> QED
  BY <1>1, <1>2 DEF IncomingInv, StepsKept

LEMMA AwaitedSame ==
    ASSUME UNCHANGED step,
           Now = "forward" => \A x \in FanIns : (Coming(x) \/ Taking(x))' <=> (Coming(x) \/ Taking(x))
    PROVE  \A x : Awaited(x)' = Awaited(x)
BY NowSame, RecvFacts DEF Awaited

LEMMA CounterSame ==
    ASSUME CounterInv, UNCHANGED <<step, ctrbcnt>>, StepsKept, LeftEdges' = LeftEdges,
           Now = "forward" => \A x \in FanIns : (Coming(x) \/ Taking(x))' <=> (Coming(x) \/ Taking(x))
    PROVE  CounterInv'
<1>1. \A x \in Local : Counter(x)' = Counter(x)
  <2> SUFFICES ASSUME NEW x \in Local PROVE Counter(x)' = Counter(x)
    OBVIOUS
  <2>1. Awaited(x)' = Awaited(x)
    BY AwaitedSame
  <2>2. {e \in LeftEdges : Home(e) = x}' = {e \in LeftEdges : Home(e) = x}
    BY NowSame
  <2> QED
    BY <2>1, <2>2 DEF Counter
<1>2. \A x \in Local : x[1] \in Procs
  BY EdgeFacts
<1> QED
  BY <1>1, <1>2 DEF CounterInv, StepsKept

LEMMA GotSame ==
    ASSUME GotInv, UNCHANGED <<step, got>>, FreshEdges' = FreshEdges,
           Now = "forward" =>
              \A x \in FanIns : (Coming(x) \/ TakenAt(x, "add"))' <=> (Coming(x) \/ TakenAt(x, "add"))
    PROVE  GotInv'
<1>1. /\ Now' = Now /\ \A e : Home(e)' = Home(e)
      /\ \A e \in Edges : Home(e) \in FanIns => Now = "forward"
  BY NowSame, EdgeFacts
<1> QED
  BY <1>1 DEF GotInv

LEMMA ReadySame ==
    ASSUME ReadyInv, UNCHANGED step, \A c \in Cblks : solved'[Now][c] # 0 => solved[Now][c] # 0,
           LeftEdges' \subseteq LeftEdges,
           Now = "forward" => \A x \in FanIns : (Coming(x) \/ Taking(x))' => (Coming(x) \/ Taking(x))
    PROVE  ReadyInv'
<1>1. \A x : Awaited(x)' \subseteq Awaited(x)
  BY NowSame, RecvFacts DEF Awaited
<1>2. Now' = Now /\ \A e : Home(e)' = Home(e)
  BY NowSame
<1> QED
  BY <1>1, <1>2 DEF ReadyInv

LEMMA FanInSame ==
    ASSUME FanInInv, UNCHANGED <<step, faninb>>, EdgesKept, UnsentKept,
           \A x \in FanIns : Pending(x)' <=> Pending(x),
           \A x \in FanIns : Queued(x)' <=> Queued(x), TasksKept,
           \A t \in Threads : pc'[t] = "gemm" => pc[t] = "gemm" /\ todo'[t] = todo[t]
    PROVE  FanInInv'
<1>1. \A t \in Threads : pc'[t] = "gemm" => Target(t)' = Target(t)
  BY NextSame
<1>2. Now' = Now /\ \A x : Data(x)' = Data(x)
  BY NowSame
<1>3. \A t \in Threads : pc'[t] = "gemm" => faninb'[Target(t)'] # <<>>
  BY <1>1 DEF FanInInv
<1>4. \A x \in FanIns : Now = "forward" /\ Unsent(x) =>
          Content(x)' = {<<"forward", e>> : e \in Contribs(x) \ FreshEdges'}
  BY DEF FanInInv, Content, EdgesKept
<1>5. \A x \in FanIns : Now = "forward" =>
          \A e \in Contribs(x) \cap UnsentEdges' : \A f \in Contribs(x) \cap UnsentEdges' :
              e \notin LeftEdges' => f = e
  BY DEF FanInInv, EdgesKept
<1>6. \A x \in FanIns : faninb'[x] # <<>> =>
          IF Now = "forward" THEN Unsent(x)' \/ Pending(x)'
          ELSE Queued(x)' \/ \E t \in Threads : pc'[t] \in Working /\ cur'[t] = x
  BY DEF FanInInv, UnsentKept, TasksKept
<1>7. \A t \in Threads : \A x \in FanIns : pc'[t] \in Working /\ cur'[t] = x => faninb'[x] = <<Data(x)>>
  BY DEF FanInInv, TasksKept
<1> QED
  BY <1>2, <1>3, <1>4, <1>5, <1>6, <1>7 DEF FanInInv, UnsentKept, Contribs

(* The requests stay where they are, or leave the table once handled.      *)
LEMMA SendKept ==
    ASSUME SendInv, EngineTypes', TablesShrink, UNCHANGED <<step, posted>>, UnsentKept,
           \A p \in Procs : NotYet(p)' \/ phase'[p] = "barrier" => NotYet(p) \/ phase[p] = "barrier",
           \A x \in FanIns : recvb'[x] # <<>> => recvb[x] # <<>> /\ (Pending(x) => Pending(x)')
    PROVE  SendInv'
<1>1. Now' = Now /\ \A x : Sender(x)' = Sender(x)
  BY NowSame
<1>2. \A p \in Procs : \A i \in 1 .. Len(reqtab'[p]) :
          \A x \in FanIns : reqtab'[p][i].idx = x => Sender(x)' = p
  <2> SUFFICES ASSUME NEW p \in Procs, NEW i \in 1 .. Len(reqtab'[p]), NEW x \in FanIns, reqtab'[p][i].idx = x
               PROVE  Sender(x) = p
    BY <1>1
  <2>1. PICK j \in 1 .. Len(reqtab[p]) : reqtab'[p][i].idx = reqtab[p][j].idx
    BY DEF TablesShrink
  <2> QED
    BY <2>1 DEF SendInv
<1>3. ASSUME NEW x \in FanIns, Unsent(x)
      PROVE  /\ \A p \in Procs : \A i \in 1 .. Len(reqtab'[p]) : reqtab'[p][i].idx # x
             /\ \A t \in Threads : posted'[t] # x
  <2>1. \A t \in Threads : posted'[t] # x
    BY <1>3 DEF SendInv
  <2>2. ASSUME NEW p \in Procs, NEW i \in 1 .. Len(reqtab'[p]) PROVE reqtab'[p][i].idx # x
    <3>1. PICK j \in 1 .. Len(reqtab[p]) : reqtab'[p][i].idx = reqtab[p][j].idx
      BY DEF TablesShrink
    <3> QED
      BY <1>3, <3>1 DEF SendInv
  <2> QED
    BY <2>1, <2>2
<1>4. \A x \in FanIns : recvb'[x] # <<>> => Now' = "backward" /\ Pending(x)'
  BY <1>1 DEF SendInv
<1>5. \A p \in Procs : NotYet(p)' \/ phase'[p] = "barrier" => reqtab'[p] = <<>>
  <2> SUFFICES ASSUME NEW p \in Procs, NotYet(p)' \/ phase'[p] = "barrier" PROVE reqtab'[p] = <<>>
    OBVIOUS
  <2>1. reqtab[p] = <<>>
    BY DEF SendInv
  <2>2. \A i \in 1 .. Len(reqtab'[p]) : FALSE
    BY <2>1 DEF TablesShrink
  <2>3. reqtab'[p] \in Seq(Entry)
    BY DEF EngineTypes
  <2> QED
    BY <2>2, <2>3
<1> QED
  BY <1>2, <1>3, <1>4, <1>5 DEF SendInv, UnsentKept

-----------------------------------------------------------------------------
(* The two schedulers, in the same way.                                    *)

LEMMA InOrderSame ==
    ASSUME NEW t \in Threads, InOrder(t), UNCHANGED <<step, solved>>, StepsKept, pos'[t] = pos[t],
           pc'[t] = "end" => pc[t] = "end",
           pc'[t] \in Working \cup Looping => pc[t] \in Working \cup Looping,
           pc'[t] \in Working /\ cur'[t] \notin FanIns <=> pc[t] \in Working /\ cur[t] \notin FanIns,
           pc'[t] \in Working /\ cur'[t] \notin FanIns => cur'[t] = cur[t]
    PROVE  InOrder(t)'
<1>1. Now' = Now /\ Tasks(t)' = Tasks(t) /\ (NotYet(ProcOf(t))' <=> NotYet(ProcOf(t)))
  BY NowSame, ThreadFacts DEF Tasks, StepsKept
<1> QED
  BY <1>1 DEF InOrder

LEMMA QueueSame ==
    ASSUME QueueInv, UNCHANGED step, \A p \in Procs : NotYet(p)' => NotYet(p),
           \A t \in Threads : queue'[t] \subseteq queue[t],
           \A t \in Threads : \A x \in queue'[t] :
              /\ x \notin FanIns => solved'[Now][x[2]] = 0 /\ ctrbcnt'[x] = 0
              /\ x \in FanIns => /\ ~ Coming(x)' /\ ~ TakenAt(x, "store")' /\ faninb'[x] = faninb[x]
                                 /\ \A u \in Threads : pc'[u] \in Working => cur'[u] # x
    PROVE  QueueInv'
<1>1. Now' = Now /\ \A x : Data(x)' = Data(x)
  BY NowSame
<1>2. \A t, u \in Threads : queue'[t] \cap queue'[u] # {} => t = u
  BY DEF QueueInv
<1>3. ASSUME NEW t \in Threads, NEW x \in queue'[t]
      PROVE  /\ Dynamic /\ x[1] = ProcOf(t) /\ ~ NotYet(x[1])'
             /\ x \notin FanIns => solved'[Now'][x[2]] = 0 /\ ctrbcnt'[x] = 0
             /\ x \in FanIns => /\ Now' = "backward" /\ ~ Coming(x)' /\ ~ TakenAt(x, "store")'
                                /\ faninb'[x] = <<Data(x)'>>
                                /\ \A u \in Threads : pc'[u] \in Working => cur'[u] # x
  <2>1. x \in queue[t]
    OBVIOUS
  <2>2. ProcOf(t) \in Procs
    BY ThreadFacts
  <2> QED
    BY <1>1, <2>1, <2>2 DEF QueueInv
<1> QED
  BY <1>2, <1>3 DEF QueueInv

LEMMA DoneSame ==
    ASSUME NewTasks' \subseteq NewTasks, TasksKept
    PROVE  \A x : DoneTask(x) => DoneTask(x)'
BY DEF DoneTask, TasksKept

LEMMA CountSame ==
    ASSUME CountInv, UNCHANGED <<step, taskcnt, done>>, \A p \in Procs : NotYet(p)' => NotYet(p),
           \A p \in Procs : NotYet(p) => NotYet(p)', \A x : DoneTask(x) => DoneTask(x)'
    PROVE  CountInv'
<1>1. PICK F \in [Threads -> SUBSET Local], G \in SUBSET Local : Counts(F, G)
  BY DEF CountInv
<1>2. \A p : TasksOf(p)' = TasksOf(p)
  BY NowSame DEF TasksOf
<1>3. Counts(F, G)'
  BY <1>1, <1>2 DEF Counts
<1> QED
  BY <1>3 DEF CountInv

-----------------------------------------------------------------------------
(* A step that moves no message, no block and no task.                     *)
LEMMA QuietStep ==
    ASSUME SolveInv, ThreadInv', EngineInv',
           UNCHANGED <<step, phase, todo, tosend, faninb, recvb, solved, got>>,
           UNCHANGED <<ctrbcnt, pos, queue, incoming, posted>>,
           MessagesKept, LabelsKept, TasksKept, TablesShrink,
           \A x \in FanIns : Pending(x)' <=> Pending(x),
           \A t \in Threads : Unmoved(t),
           \A t \in Threads : pc'[t] = "gemm" => pc[t] = "gemm",
           \A t \in Threads : pc'[t] \in Looping => pc[t] \in Looping,
           ~ Dynamic => \A t \in Threads : pc'[t] = "end" => pc[t] = "end",
           Dynamic => CountInv'
    PROVE  SolveInv'
<1> USE DEF SolveInv
<1>1. StepsKept
  BY StepsKeptSame
<1>2. \A x : UnsentSolution(x)' <=> UnsentSolution(x)
  BY UnsentSolutionSame
<1>3. \A x \in FanIns : Queued(x)' <=> Queued(x)
  BY DEF Queued
<1>4. \A x \in FanIns : Waiting(x)' <=> Waiting(x)
  BY <1>2, <1>3, PlacesSame DEF Waiting
<1>5. NewTasks' = NewTasks
  BY <1>4, AheadSame
<1>6. EdgesKept
  BY <1>5, EdgesStay
<1>7. UnsentKept
  BY <1>2, <1>6, UnsentSame DEF EdgesKept
<1>8. MessageInv' /\ OnePlaceInv' /\ ComingKept
  BY <1>7, MessageSame
<1>9. BegunInv'
  BY <1>5, BegunSame
<1>10. SendInv'
  <2>1. EngineTypes'
    BY DEF EngineInv
  <2>2. \A p \in Procs : NotYet(p)' \/ phase'[p] = "barrier" => NotYet(p) \/ phase[p] = "barrier"
    BY <1>1 DEF StepsKept
  <2> QED
    BY <1>7, <2>1, <2>2, SendKept
<1>11. FanInInv'
  BY <1>3, <1>6, <1>7, FanInSame
<1>12. IncomingInv'
  BY <1>1, <1>8, IncomingSame DEF ComingKept
<1>13. \A x \in FanIns : (Coming(x) \/ Taking(x))' <=> (Coming(x) \/ Taking(x))
  BY <1>8 DEF ComingKept
<1>14. CounterInv'
  BY <1>1, <1>6, <1>13, CounterSame DEF EdgesKept
<1>15. GotInv'
  <2>1. \A x \in FanIns : (Coming(x) \/ TakenAt(x, "add"))' <=> (Coming(x) \/ TakenAt(x, "add"))
    BY <1>8, PlacesSame DEF ComingKept
  <2> QED
    BY <1>6, <2>1, GotSame DEF EdgesKept
<1>16. ReadyInv'
  BY <1>6, <1>13, ReadySame DEF EdgesKept
<1>17. ~ Dynamic => \A t \in Threads : InOrder(t)'
  <2> SUFFICES ASSUME ~ Dynamic, NEW t \in Threads PROVE InOrder(t)'
    OBVIOUS
  <2>1. /\ pc'[t] \in Working <=> pc[t] \in Working
        /\ pc[t] \in Working => cur'[t] = cur[t]
    BY DEF TasksKept
  <2> QED
    BY <1>1, <2>1, InOrderSame
<1>18. QueueInv'
  <2>1. \A t \in Threads : \A x \in queue'[t] :
              /\ x \notin FanIns => solved'[Now][x[2]] = 0 /\ ctrbcnt'[x] = 0
              /\ x \in FanIns => /\ ~ Coming(x)' /\ ~ TakenAt(x, "store")' /\ faninb'[x] = faninb[x]
                                 /\ \A u \in Threads : pc'[u] \in Working => cur'[u] # x
    BY <1>8, PlacesSame DEF QueueInv, ComingKept, TasksKept
  <2> QED
    BY <1>1, <2>1, QueueSame DEF StepsKept
<1> QED
  BY <1>8, <1>9, <1>10, <1>11, <1>12, <1>14, <1>15, <1>16, <1>17, <1>18

-----------------------------------------------------------------------------
(* A thread that is not in a task: it waits, finds nothing, or makes the   *)
(* communications progress.                                                *)

LEMMA GotoFacts ==
    ASSUME ThreadInv, NEW t \in Threads, NEW l, Goto(t, l)
    PROVE  /\ pc'[t] = l /\ \A u \in Threads : u # t => pc'[u] = pc[u]
           /\ pc' = [u \in Threads |-> pc'[u]]
BY DEF ThreadInv, SolveTypes, Goto

taskVars == <<step, phase, todo, tosend, cur, posted>>

(* A thread goes on outside of its tasks, or ends one.                     *)
LEMMA ThreadLoops ==
    ASSUME ThreadInv, SolveTypes', StepsInv', UNCHANGED taskVars, NEW t \in Threads, NEW l, Goto(t, l),
           \A p \in Procs : taskcnt'[p] <= taskcnt[p],
           pc[t] \in Looping \/ (pc[t] = "update" /\ todo[t] = {} /\ tosend[t] = {}), l \in Looping \cup {"end"},
           l \in {"add", "dec"} => Now = "forward", l = "store" => Now = "backward",
           l \in {"pop", "popAgain", "steal"} => Dynamic, l = "wait" => ~ Dynamic,
           l = "end" /\ Dynamic => taskcnt'[ProcOf(t)] <= 0
    PROVE  ThreadInv'
<1>1. pc'[t] = l /\ \A u \in Threads : u # t => pc'[u] = pc[u]
  BY GotoFacts
<1>2. Others(t)
  BY <1>1 DEF Others, taskVars
<1>3. Placed(t) /\ AtTask(t)
  BY DEF ThreadInv
<1>4. Now' = Now /\ UNCHANGED <<step, phase, todo, tosend, cur, posted>>
  BY NowSame DEF taskVars
<1>5. Placed(t)'
  BY <1>1, <1>3, <1>4 DEF Placed, Working, Looping
<1>6. AtTask(t)'
  BY <1>1, <1>3, <1>4 DEF AtTask, Working, Looping
<1>7. pc'[t] \notin Working
  BY <1>1 DEF Working, Looping
<1> QED
  BY <1>2, <1>4, <1>5, <1>6, <1>7, ThreadStep

(* A thread goes on within its task.                                       *)
LEMMA ThreadWorks ==
    ASSUME ThreadInv, SolveTypes', StepsInv', UNCHANGED <<taskVars, taskcnt>>,
           NEW t \in Threads, NEW l, Goto(t, l),
           pc[t] \in Working \ {"register"}, l \in {"alloc", "gemm", "release", "isend"},
           todo[t] # {}, tosend[t] = {}, l # "release" => Target(t) \in FanIns
    PROVE  ThreadInv'
<1>1. pc'[t] = l /\ \A u \in Threads : u # t => pc'[u] = pc[u]
  BY GotoFacts
<1>2. Others(t)
  BY <1>1 DEF Others, taskVars
<1>3. Placed(t) /\ AtTask(t)
  BY DEF ThreadInv
<1>4. Now' = Now /\ UNCHANGED <<step, phase, todo, tosend, cur, posted>> /\ \A e : TaskOf(e)' = TaskOf(e)
  BY NowSame DEF taskVars
<1>5. Placed(t)'
  BY <1>1, <1>3, <1>4 DEF Placed, Working, Looping
<1>6. Target(t)' = Target(t)
  BY <1>4, NextSame
<1>7. AtTask(t)'
  BY <1>1, <1>3, <1>4, <1>6 DEF AtTask, Working, Looping
<1>8. \A p \in Procs : taskcnt'[p] <= taskcnt[p]
  BY DEF ThreadInv, SolveTypes
<1> QED
  BY <1>2, <1>4, <1>5, <1>7, <1>8, ThreadStep

Quiet == Looping \ {"add", "dec", "store"}

LEMMA QuietGoto ==
    ASSUME SolveInv, EngineInv', NEW t \in Threads, NEW l, Goto(t, l),
           UNCHANGED <<step, phase, todo, tosend, faninb, recvb, solved, got>>,
           UNCHANGED <<ctrbcnt, pos, queue, cur, incoming, posted>>, MessagesKept, TablesShrink,
           \A x \in FanIns : Pending(x)' <=> Pending(x),
           taskcnt' \in [Procs -> Int], done' \in [Threads -> Nat], \A p \in Procs : taskcnt'[p] <= taskcnt[p],
           pc[t] \in Quiet, l \in Quiet \cup {"end"},
           l \in {"pop", "popAgain", "steal"} => Dynamic, l = "wait" => ~ Dynamic,
           l = "end" => Dynamic /\ taskcnt'[ProcOf(t)] <= 0,
           Dynamic => CountInv'
    PROVE  SolveInv'
<1>1. pc'[t] = l /\ (\A u \in Threads : u # t => pc'[u] = pc[u]) /\ pc' = [u \in Threads |-> pc'[u]]
  BY GotoFacts DEF SolveInv
<1>2. SolveTypes'
  BY <1>1 DEF SolveInv, ThreadInv, SolveTypes
<1>3. StepsInv'
  BY StepsSame DEF SolveInv, ThreadInv
<1>4. ThreadInv'
  BY <1>2, <1>3, ThreadLoops DEF SolveInv, taskVars, Quiet
<1>5. LabelsKept
  BY <1>1 DEF LabelsKept, AtFanIn, Quiet, Looping, Working
<1>6. TasksKept
  BY <1>1 DEF TasksKept, Quiet, Looping, Working
<1>7. /\ \A u \in Threads : Unmoved(u)
      /\ \A u \in Threads : pc'[u] = "gemm" => pc[u] = "gemm"
      /\ \A u \in Threads : pc'[u] \in Looping => pc[u] \in Looping
      /\ ~ Dynamic => \A u \in Threads : pc'[u] = "end" => pc[u] = "end"
  BY <1>1 DEF Unmoved, Quiet, Looping, Working, SolveInv, ThreadInv, AtTask
<1> QED
  BY <1>4, <1>5, <1>6, <1>7, QuietStep

(* A step of a thread that touches nothing of the engine.                  *)
LEMMA EngineKept ==
    ASSUME SolveInv, UNCHANGED engineVars, NEW t \in Threads, NEW l, Goto(t, l),
           pc[t] \notin Communicating, l \notin Communicating, l = "elect" => held[t] = NoMsg
    PROVE  EngineInv'
<1>1. pc'[t] = l /\ (\A u \in Threads : u # t => pc'[u] = pc[u]) /\ pc' = [u \in Threads |-> pc'[u]]
  BY GotoFacts DEF SolveInv
<1> QED
  BY <1>1, OtherInv DEF SolveInv

LEMMA TablesSame ==
    ASSUME UNCHANGED <<reqtab, posted, indexes>>
    PROVE  TablesShrink /\ \A x : Pending(x)' <=> Pending(x)
BY DEF TablesShrink, Pending

LEMMA IdleInv == ASSUME SolveInv, NEW t \in Threads, Idle(t, Tasks(t)), UNCHANGED solveVars PROVE SolveInv'
<1> USE DEF SolveInv, engineVars, tableVars, threadVars, mpiVars, schedVars, solveVars, Quiet, Looping, Communicating
<1>1. /\ TablesShrink /\ \A x : Pending(x)' <=> Pending(x)
      /\ MessagesKept /\ UNCHANGED engineVars
  <2>1. UNCHANGED engineVars
    BY DEF Idle, Wait, PopNothing, Flush, StealNothing
  <2> QED
    BY <2>1, TablesSame DEF MessagesKept, BufferFull
<1>2. /\ taskcnt \in [Procs -> Int] /\ done \in [Threads -> Nat] /\ ProcOf(t) \in Procs
      /\ \A p \in Procs : taskcnt[p] <= taskcnt[p]
  BY ThreadFacts DEF ThreadInv, SolveTypes
<1>3. pc[t] \in {"pop", "popAgain", "steal"} => Dynamic
  BY DEF ThreadInv, Placed
<1>4. held[t] # NoMsg => pc[t] \in {"add", "dec", "store"} \cup Working
  BY DEF MessageInv, Holding
<1>5. ASSUME UNCHANGED <<engineVars, schedVars, solveVars>>, NEW l, Goto(t, l),
             pc[t] \in {"wait", "pop", "popAgain", "steal"}, l \in {"elect", "pop", "end"},
             l = "pop" => Dynamic, l = "end" => Dynamic /\ taskcnt[ProcOf(t)] <= 0
      PROVE  SolveInv'
  <2>1. EngineInv'
    BY <1>4, <1>5, EngineKept DEF Working
  <2>2. CountInv => CountInv'
    <3>1. NewTasks' = NewTasks /\ TasksKept
      <4>1. pc'[t] = l /\ (\A u \in Threads : u # t => pc'[u] = pc[u])
        BY <1>5, GotoFacts
      <4>2. TasksKept /\ LabelsKept
        BY <1>5, <4>1 DEF TasksKept, LabelsKept, Working, AtFanIn
      <4>3. \A x \in FanIns : Waiting(x)' <=> Waiting(x)
        BY <1>1, <1>5, <4>2, PlacesSame, UnsentSolutionSame DEF Waiting, Queued
      <4> QED
        BY <1>5, <4>2, <4>3, AheadSame
    <3> QED
      BY <1>5, <3>1, DoneSame, CountSame, StepsKeptSame DEF StepsKept
  <2> QED
    BY <1>1, <1>2, <1>5, <2>1, <2>2, QuietGoto
<1>6. CASE Wait(t, Tasks(t))
  BY <1>5, <1>6 DEF Wait
<1>7. CASE PopNothing(t)
  BY <1>3, <1>5, <1>7 DEF PopNothing
<1>8. CASE StealNothing(t)
  BY <1>3, <1>5, <1>8 DEF StealNothing
<1>9. CASE Flush(t)
  <2>1. /\ pc[t] = "popAgain" /\ Goto(t, "steal") /\ UNCHANGED <<engineVars, ctrbcnt, pos, queue, cur, solveVars>>
        /\ taskcnt' = [taskcnt EXCEPT ![ProcOf(t)] = @ - done[t]]
        /\ done'    = [done EXCEPT ![t] = 0]
    BY <1>9 DEF Flush
  <2>2. /\ taskcnt'[ProcOf(t)] = taskcnt[ProcOf(t)] - done[t] /\ done'[t] = 0
        /\ \A p \in Procs : p # ProcOf(t) => taskcnt'[p] = taskcnt[p]
        /\ \A u \in Threads : u # t => done'[u] = done[u]
        /\ taskcnt' \in [Procs -> Int] /\ done' \in [Threads -> Nat]
        /\ \A p \in Procs : taskcnt'[p] <= taskcnt[p]
    BY <1>2, <2>1
  <2>3. pc'[t] = "steal" /\ (\A u \in Threads : u # t => pc'[u] = pc[u])
    BY <2>1, GotoFacts
  <2>4. EngineInv'
    BY <2>1, EngineKept
  <2>5. CountInv => CountInv'
    <3>1. PICK F, G : CountInv => F \in [Threads -> SUBSET Local] /\ G \in SUBSET Local /\ Counts(F, G)
      BY DEF CountInv
    <3> SUFFICES ASSUME CountInv PROVE CountInv'
      OBVIOUS
    <3> DEFINE F2 == [u \in Threads |-> IF u = t THEN {} ELSE F[u]]
               G2 == G \cup F[t]
    <3>2. F \in [Threads -> SUBSET Local] /\ G \in SUBSET Local /\ Counts(F, G)
      BY <3>1
    <3>3. /\ F2 \in [Threads -> SUBSET Local] /\ G2 \in SUBSET Local
          /\ F2[t] = {} /\ \A u \in Threads : u # t => F2[u] = F[u]
      BY <3>2
    <3>4. \A x : DoneTask(x) => DoneTask(x)'
      <4>1. TasksKept /\ LabelsKept
        BY <2>1, <2>3 DEF TasksKept, LabelsKept, Working, AtFanIn
      <4>2. \A x \in FanIns : Waiting(x)' <=> Waiting(x)
        BY <1>1, <2>1, <4>1, PlacesSame, UnsentSolutionSame DEF Waiting, Queued
      <4> QED
        BY <2>1, <4>1, <4>2, AheadSame, DoneSame
    <3>5. Now' = Now /\ (\A p : TasksOf(p)' = TasksOf(p)) /\ (\A p : NotYet(p)' <=> NotYet(p))
      BY <2>1, NowSame DEF TasksOf, NotYet
    <3> HIDE DEF F2, G2
    <3>6. \A u \in Threads : /\ F2[u] \subseteq TasksOf(ProcOf(u)) /\ F2[u] \cap G2 = {}
                             /\ \A x \in F2[u] : DoneTask(x)
                             /\ \A v \in Threads : v # u => F2[u] \cap F2[v] = {}
      BY <3>2, <3>3 DEF Counts, G2
    <3>7. \A u \in Threads : done'[u] = Cardinality(F2[u])
      BY <2>2, <3>2, <3>3, FS_EmptySet DEF Counts
    <3>8. ASSUME NEW p \in Procs, ~ NotYet(p)
          PROVE  /\ \A x \in TasksOf(p) \cap G2 : DoneTask(x)
                 /\ taskcnt'[p] = Cardinality(TasksOf(p) \ G2)
      <4>1. \A x \in TasksOf(p) \cap G2 : DoneTask(x)
        BY <3>2, <3>8 DEF Counts, G2
      <4>2. taskcnt[p] = Cardinality(TasksOf(p) \ G)
        BY <3>2, <3>8 DEF Counts
      <4>3. CASE p # ProcOf(t)
        <5>1. TasksOf(p) \ G2 = TasksOf(p) \ G
          BY <3>2, <4>3 DEF Counts, G2, TasksOf
        <5> QED
          BY <2>2, <4>1, <4>2, <4>3, <5>1
      <4>4. CASE p = ProcOf(t)
        <5>1. F[t] \subseteq TasksOf(p) \ G /\ done[t] = Cardinality(F[t])
          BY <3>2, <4>4 DEF Counts
        <5>2. TasksOf(p) \ G2 = (TasksOf(p) \ G) \ F[t]
          BY DEF G2
        <5>3. IsFiniteSet(TasksOf(p) \ G)
          BY LocalFinite, FS_Subset DEF TasksOf
        <5>4. Cardinality((TasksOf(p) \ G) \ F[t]) = Cardinality(TasksOf(p) \ G) - Cardinality(F[t])
          BY <5>1, <5>3, SubsetCardinality
        <5> QED
          BY <2>2, <4>1, <4>2, <4>4, <5>1, <5>2, <5>4
      <4> QED
        BY <4>3, <4>4
    <3>9. Counts(F2, G2)'
      BY <3>4, <3>5, <3>6, <3>7, <3>8 DEF Counts
    <3> QED
      BY <3>3, <3>9 DEF CountInv
  <2> QED
    BY <1>1, <1>3, <2>1, <2>2, <2>4, <2>5, QuietGoto
<1> QED
  BY <1>6, <1>7, <1>8, <1>9 DEF Idle

LEMMA QuietCount ==
    ASSUME CountInv, UNCHANGED <<step, phase, solved, tosend, taskcnt, done, posted>>,
           MessagesKept, LabelsKept, TasksKept, \A x \in FanIns : Queued(x)' <=> Queued(x)
    PROVE  CountInv'
<1>1. \A x \in FanIns : Waiting(x)' <=> Waiting(x)
  BY PlacesSame, UnsentSolutionSame DEF Waiting
<1>2. NewTasks' = NewTasks
  BY <1>1, AheadSame
<1>3. \A x : DoneTask(x) => DoneTask(x)'
  BY <1>2, DoneSame
<1> QED
  BY <1>3, CountSame, StepsKeptSame DEF StepsKept

LEMMA ProgressInv ==
    ASSUME SolveInv, NEW t \in Threads, Progress(t, Back), UNCHANGED <<schedVars, solveVars>>
    PROVE  SolveInv'
<1> USE DEF SolveInv
<1>1. Back \in {"wait", "popAgain"} /\ (Back = "popAgain" => Dynamic) /\ (Back = "wait" => ~ Dynamic)
  BY DEF Back
<1>2. /\ pc[t] \in {"elect", "snapshot", "test", "handle", "leave"}
      /\ \E l \in {Back, "snapshot", "test", "handle", "leave"} : Goto(t, l)
  BY DEF Progress, Elect, Snapshot, Test, Pack, Leave
<1>3. PICK l \in {Back, "snapshot", "test", "handle", "leave"} : Goto(t, l)
  BY <1>2
<1>4. pc'[t] = l /\ (\A u \in Threads : u # t => pc'[u] = pc[u])
  BY <1>3, GotoFacts
<1>5. EngineInv'
  BY <1>1, ElectInv, SnapshotInv, TestInv, PackInv, LeaveInv DEF Progress, Communicating
<1>6. UNCHANGED <<incoming, posted, held, rcoeftab, net>>
  BY DEF Progress, Elect, Snapshot, Test, Pack, Leave, tableVars, mpiVars
<1>7. MessagesKept
  <2>1. CASE UNCHANGED recvreq
    BY <1>6, <2>1 DEF MessagesKept, BufferFull
  <2>2. CASE Test(t)
    <3>1. ProcOf(t) \in Procs
      BY ThreadFacts
    <3>2. /\ \A q \in Procs : q # ProcOf(t) => recvreq'[q] = recvreq[q]
          /\ \/ recvreq'[ProcOf(t)] = recvreq[ProcOf(t)]
             \/ recvreq'[ProcOf(t)] = "inactive" /\ recvreq[ProcOf(t)] = "done"
      BY <2>2, <3>1 DEF EngineInv, EngineTypes, Test, Completed
    <3> QED
      BY <1>6, <3>2 DEF MessagesKept, BufferFull
  <2> QED
    BY <2>1, <2>2 DEF Progress, Elect, Snapshot, Pack, Leave, mpiVars
<1>8. TablesShrink /\ \A x \in FanIns : Pending(x)' <=> Pending(x)
  <2>1. Elect(t, Back) \/ Snapshot(t) \/ Leave(t, Back) => UNCHANGED <<reqtab, indexes, posted>>
    BY DEF Elect, Snapshot, Leave, tableVars
  <2> QED
    BY <2>1, TablesSame, TestPending, PackPending DEF Progress
<1>9. /\ taskcnt' \in [Procs -> Int] /\ done' \in [Threads -> Nat]
      /\ \A p \in Procs : taskcnt'[p] <= taskcnt[p]
      /\ UNCHANGED <<step, phase, todo, tosend, faninb, recvb, solved, got>>
      /\ UNCHANGED <<ctrbcnt, pos, queue, cur, taskcnt, done>>
  BY DEF ThreadInv, SolveTypes, schedVars, solveVars
<1>10. pc[t] \in Quiet /\ l \in Quiet
  BY <1>1, <1>2 DEF Quiet, Looping
<1>11. CountInv => CountInv'
  <2>1. LabelsKept /\ TasksKept
    BY <1>1, <1>2, <1>4, <1>9 DEF LabelsKept, TasksKept, Working, AtFanIn
  <2> QED
    BY <1>6, <1>7, <1>9, <2>1, QuietCount DEF Queued
<1>12. /\ l \in {"pop", "popAgain", "steal"} => Dynamic
       /\ l = "wait" => ~ Dynamic
       /\ l # "end"
  BY <1>1
<1> QED
  BY <1>3, <1>5, <1>6, <1>7, <1>8, <1>9, <1>10, <1>11, <1>12, QuietGoto

LEMMA ThreadSame ==
    ASSUME ThreadInv, UNCHANGED <<pc, taskVars, pos, queue, taskcnt, done, solved, got>>,
           faninb' = [x \in FanIns |-> faninb'[x]], recvb' = [x \in FanIns |-> recvb'[x]]
    PROVE  ThreadInv'
<1>1. SolveTypes' /\ StepsInv'
  BY StepsSame DEF ThreadInv, SolveTypes, taskVars
<1>2. Now' = Now /\ (\A e : TaskOf(e)' = TaskOf(e)) /\ (\A t : Target(t)' = Target(t)) /\ (\A p : NotYet(p)' <=> NotYet(p))
  BY NowSame, NextSame DEF taskVars, NotYet
<1>3. UNCHANGED <<step, phase, todo, tosend, cur, posted>>
  BY DEF taskVars
<1> QED
  BY <1>1, <1>2, <1>3 DEF ThreadInv, OneThread, Placed, AtTask

LEMMA SendDoneStep ==
    ASSUME SolveInv, NEW x \in FanIns, SendDone(x), UNCHANGED <<schedVars, solveVars>>
    PROVE  SolveInv'
<1> USE DEF SolveInv
<1>1. /\ UNCHANGED <<pc, reqtab, incoming, posted, indexes, held, recvreq, rcoeftab, net>>
      /\ UNCHANGED <<step, phase, todo, tosend, faninb, recvb, solved, got>>
      /\ UNCHANGED <<ctrbcnt, pos, queue, cur, taskcnt, done>>
  BY DEF SendDone, tableVars, threadVars, schedVars, solveVars
<1>2. ThreadInv'
  <2>1. faninb' = [y \in FanIns |-> faninb'[y]] /\ recvb' = [y \in FanIns |-> recvb'[y]]
    BY <1>1 DEF ThreadInv, SolveTypes
  <2> QED
    BY <1>1, <2>1, ThreadSame DEF taskVars
<1>3. EngineInv'
  BY SendDoneInv
<1>4. MessagesKept /\ LabelsKept /\ TasksKept
  BY <1>1 DEF MessagesKept, BufferFull, LabelsKept, TasksKept, AtFanIn
<1>5. TablesShrink /\ \A y : Pending(y)' <=> Pending(y)
  BY <1>1, TablesSame
<1>6. CountInv => CountInv'
  BY <1>1, <1>4, QuietCount DEF Queued
<1>7. \A u \in Threads : Unmoved(u)
  BY <1>1 DEF Unmoved
<1> QED
  BY <1>1, <1>2, <1>3, <1>4, <1>5, <1>6, <1>7, QuietStep

-----------------------------------------------------------------------------
(* A thread within its task.                                               *)

(* What a thread that is at a block knows.                                 *)
LEMMA AtEdge ==
    ASSUME SolveInv, NEW t \in Threads, todo[t] # {}
    PROVE  /\ NextEdge(t) \in todo[t] /\ NextEdge(t) \in Edges /\ pc[t] \in Working
           /\ TaskOf(NextEdge(t)) = cur[t] /\ Target(t) = Home(NextEdge(t)) /\ Target(t) \in Local
           /\ Target(t)[1] = ProcOf(t) /\ step[ProcOf(t)] = Now /\ ~ NotYet(ProcOf(t))
           /\ tosend[t] = {} =>
                 /\ NextEdge(t) \in FreshEdges <=> pc[t] \in {"update", "alloc", "gemm"}
                 /\ NextEdge(t) \in LeftEdges <=> pc[t] \in {"update", "alloc", "gemm", "release"}
                 /\ NextEdge(t) \in UnsentEdges <=> pc[t] \in {"update", "alloc", "gemm", "release", "isend"}
           /\ Target(t) \in FanIns => Now = "forward" /\ NextEdge(t) \in Contribs(Target(t))
<1>1. ThreadInv /\ BegunInv
  BY DEF SolveInv
<1>2. /\ NextEdge(t) \in todo[t] /\ NextEdge(t) \in Edges
      /\ pc[t] \in Working /\ step[ProcOf(t)] = Now
      /\ TaskOf(NextEdge(t)) = cur[t]
      /\ Target(t) = Home(NextEdge(t)) /\ Target(t) \in Local
  BY <1>1, NextEdgeFacts
<1>3. cur[t][1] = ProcOf(t) /\ phase[ProcOf(t)] = "tasks"
  BY <1>1, <1>2 DEF ThreadInv, AtTask, Placed
<1>4. tosend[t] = {} =>
         /\ NextEdge(t) \in FreshEdges <=> pc[t] \in {"update", "alloc", "gemm"}
         /\ NextEdge(t) \in LeftEdges <=> pc[t] \in {"update", "alloc", "gemm", "release"}
         /\ NextEdge(t) \in UnsentEdges <=> pc[t] \in {"update", "alloc", "gemm", "release", "isend"}
  BY <1>1, EdgesBeforeFacts DEF FreshEdges, LeftEdges, UnsentEdges
<1>5. Target(t)[1] = ProcOf(t)
  BY <1>2, <1>3, EdgeFacts
<1>6. Target(t) \in FanIns => Now = "forward" /\ NextEdge(t) \in Contribs(Target(t))
  BY <1>2, EdgeFacts
<1> QED
  BY <1>2, <1>3, <1>4, <1>5, <1>6 DEF NotYet

(* A thread goes from a label of its task to another one.                  *)
LEMMA WorkLabels ==
    ASSUME SolveInv, NEW t \in Threads, NEW l, Goto(t, l), pc[t] \in Working, l \in Working, UNCHANGED cur
    PROVE  LabelsKept /\ TasksKept
<1>1. pc'[t] = l /\ (\A u \in Threads : u # t => pc'[u] = pc[u])
  BY GotoFacts DEF SolveInv
<1> QED
  BY <1>1 DEF LabelsKept, TasksKept, AtFanIn, Working

LEMMA FindNoBufferInv == ASSUME SolveInv, NEW t \in Threads, FindNoBuffer(t) PROVE SolveInv'
<1> USE DEF SolveInv
<1>1. /\ pc[t] = "update" /\ todo[t] # {} /\ tosend[t] = {} /\ Target(t) \in FanIns /\ Goto(t, "alloc")
      /\ UNCHANGED <<engineVars, reqtab, incoming, posted, indexes, held, recvreq, rcoeftab, net>>
      /\ UNCHANGED <<step, phase, todo, tosend, faninb, recvb, solved, got>>
      /\ UNCHANGED <<ctrbcnt, pos, queue, cur, taskcnt, done>>
  BY DEF FindNoBuffer, engineVars, tableVars, threadVars, mpiVars, schedVars, solveVars
<1>2. pc'[t] = "alloc" /\ (\A u \in Threads : u # t => pc'[u] = pc[u]) /\ pc' = [u \in Threads |-> pc'[u]]
  BY <1>1, GotoFacts
<1>3. ThreadInv'
  <2>1. SolveTypes' /\ StepsInv'
    BY <1>1, <1>2, StepsSame DEF ThreadInv, SolveTypes
  <2> QED
    BY <1>1, <2>1, ThreadWorks DEF taskVars, Working
<1>4. EngineInv'
  BY <1>1, EngineKept DEF Communicating
<1>5. MessagesKept /\ LabelsKept /\ TasksKept
  BY <1>1, WorkLabels DEF MessagesKept, BufferFull, Working
<1>6. TablesShrink /\ \A y : Pending(y)' <=> Pending(y)
  BY <1>1, TablesSame
<1>7. CountInv => CountInv'
  BY <1>1, <1>5, QuietCount DEF Queued
<1>8. /\ \A u \in Threads : Unmoved(u)
      /\ \A u \in Threads : pc'[u] = "gemm" => pc[u] = "gemm"
      /\ \A u \in Threads : pc'[u] \in Looping => pc[u] \in Looping
      /\ \A u \in Threads : pc'[u] = "end" => pc[u] = "end"
  BY <1>1, <1>2 DEF Looping, Unmoved
<1> QED
  BY <1>1, <1>3, <1>4, <1>5, <1>6, <1>7, <1>8, QuietStep

(* What a step of a thread within its task leaves as it was.               *)
LEMMA WorkTasks ==
    ASSUME SolveInv, NEW t \in Threads, NEW l, Goto(t, l), pc[t] \in Working, l \in Working,
           UNCHANGED <<step, phase, solved, tosend, pos, taskcnt, done, cur, posted>>, MessagesKept,
           \A x \in FanIns : Queued(x)' <=> Queued(x)
    PROVE  /\ StepsKept /\ LabelsKept /\ TasksKept /\ NewTasks' = NewTasks /\ BegunInv'
           /\ \A x : UnsentSolution(x)' <=> UnsentSolution(x)
           /\ ~ Dynamic => \A u \in Threads : InOrder(u)'
           /\ Dynamic => CountInv'
<1> USE DEF SolveInv
<1>1. pc'[t] = l /\ (\A u \in Threads : u # t => pc'[u] = pc[u])
  BY GotoFacts
<1>2. LabelsKept /\ TasksKept /\ StepsKept
  BY WorkLabels, StepsKeptSame
<1>3. \A x : UnsentSolution(x)' <=> UnsentSolution(x)
  BY UnsentSolutionSame
<1>4. \A x \in FanIns : Queued(x)' <=> Queued(x)
  OBVIOUS
<1>5. NewTasks' = NewTasks
  <2>1. \A x \in FanIns : Waiting(x)' <=> Waiting(x)
    BY <1>2, <1>3, <1>4, PlacesSame DEF Waiting
  <2> QED
    BY <2>1, AheadSame
<1>6. BegunInv'
  BY <1>2, <1>5, BegunSame
<1>7. ~ Dynamic => \A u \in Threads : InOrder(u)'
  <2> SUFFICES ASSUME ~ Dynamic, NEW u \in Threads PROVE InOrder(u)'
    OBVIOUS
  <2>1. /\ pc'[u] = "end" => pc[u] = "end"
        /\ pc'[u] \in Working \cup Looping => pc[u] \in Working \cup Looping
        /\ pc'[u] \in Working <=> pc[u] \in Working
    BY <1>1 DEF Working
  <2> QED
    BY <1>2, <2>1, InOrderSame
<1>8. Dynamic => CountInv'
  BY <1>2, <1>4, QuietCount
<1> QED
  BY <1>2, <1>3, <1>5, <1>6, <1>7, <1>8

(* What is queued stays ready.                                             *)
LEMMA QueueKept ==
    ASSUME QueueInv, UNCHANGED <<step, solved, queue, ctrbcnt>>, StepsKept, TasksKept, ComingKept,
           \A x \in FanIns : TakenAt(x, "store")' => TakenAt(x, "store"),
           \A x \in FanIns : Now = "backward" /\ Queued(x) => faninb'[x] = faninb[x]
    PROVE  QueueInv'
<1>1. \A t \in Threads : \A x \in queue'[t] :
              /\ x \notin FanIns => solved'[Now][x[2]] = 0 /\ ctrbcnt'[x] = 0
              /\ x \in FanIns => /\ ~ Coming(x)' /\ ~ TakenAt(x, "store")' /\ faninb'[x] = faninb[x]
                                 /\ \A u \in Threads : pc'[u] \in Working => cur'[u] # x
  BY DEF QueueInv, ComingKept, TasksKept, Queued
<1> QED
  BY <1>1, QueueSame DEF StepsKept

LEMMA AllocInv == ASSUME SolveInv, NEW t \in Threads, Alloc(t) PROVE SolveInv'
<1> USE DEF SolveInv
<1> DEFINE x == Target(t)
<1>1. /\ pc[t] = "alloc" /\ Goto(t, "gemm")
      /\ faninb' = [faninb EXCEPT ![x] = IF @ = <<>> THEN <<{}>> ELSE @]
      /\ UNCHANGED <<engineVars, reqtab, incoming, posted, indexes, held, recvreq, rcoeftab, net>>
      /\ UNCHANGED <<step, phase, todo, tosend, recvb, solved, got>>
      /\ UNCHANGED <<ctrbcnt, pos, queue, cur, taskcnt, done>>
  BY DEF Alloc, engineVars, tableVars, threadVars, mpiVars, schedVars
<1>2. /\ todo[t] # {} /\ tosend[t] = {} /\ x \in FanIns
  BY <1>1 DEF ThreadInv, AtTask
<1>3. pc'[t] = "gemm" /\ (\A u \in Threads : u # t => pc'[u] = pc[u]) /\ pc' = [u \in Threads |-> pc'[u]]
  BY <1>1, GotoFacts
<1>4. ThreadInv'
  <2>1. SolveTypes' /\ StepsInv'
    <3>1. faninb' = [y \in FanIns |-> faninb'[y]]
      BY <1>1 DEF ThreadInv, SolveTypes
    <3> HIDE DEF x
    <3> QED
      BY <1>1, <1>3, <3>1, StepsSame DEF ThreadInv, SolveTypes
  <2> QED
    BY <1>1, <1>2, <2>1, ThreadWorks DEF taskVars, Working
<1>5. EngineInv'
  BY <1>1, EngineKept DEF Communicating
<1>6. MessagesKept
  BY <1>1 DEF MessagesKept, BufferFull
<1>7. /\ StepsKept /\ LabelsKept /\ TasksKept /\ NewTasks' = NewTasks /\ BegunInv'
      /\ \A y : UnsentSolution(y)' <=> UnsentSolution(y)
      /\ \A y \in FanIns : Queued(y)' <=> Queued(y)
      /\ ~ Dynamic => \A u \in Threads : InOrder(u)'
      /\ Dynamic => CountInv'
  <2>1. \A y \in FanIns : Queued(y)' <=> Queued(y)
    BY <1>1 DEF Queued
  <2> QED
    BY <1>1, <1>6, <2>1, WorkTasks DEF Working
<1>8. EdgesKept
  <2>1. \A u \in Threads : Unmoved(u)
    BY <1>1, <1>3 DEF Unmoved
  <2> QED
    BY <1>1, <1>7, <2>1, EdgesStay
<1>9. UnsentKept
  BY <1>1, <1>7, <1>8, UnsentSame DEF EdgesKept
<1>10. MessageInv' /\ OnePlaceInv' /\ ComingKept
  BY <1>1, <1>6, <1>7, <1>9, MessageSame
<1>11. \A y \in FanIns : (Coming(y) \/ Taking(y))' <=> (Coming(y) \/ Taking(y))
  BY <1>10 DEF ComingKept
<1>12. IncomingInv' /\ CounterInv' /\ ReadyInv'
  BY <1>1, <1>7, <1>8, <1>10, <1>11, IncomingSame, CounterSame, ReadySame DEF EdgesKept, ComingKept
<1>13. GotInv'
  <2>1. \A y \in FanIns : (Coming(y) \/ TakenAt(y, "add"))' <=> (Coming(y) \/ TakenAt(y, "add"))
    BY <1>1, <1>6, <1>7, <1>10, PlacesSame DEF ComingKept
  <2> QED
    BY <1>1, <1>8, <2>1, GotSame DEF EdgesKept
<1>14. SendInv'
  <2>1. TablesShrink /\ \A y : Pending(y)' <=> Pending(y)
    BY <1>1, TablesSame
  <2>2. EngineTypes'
    BY <1>5 DEF EngineInv
  <2> QED
    BY <1>1, <1>7, <1>9, <2>1, <2>2, SendKept DEF StepsKept
<1>15. Now = "forward" /\ Unsent(x)
  BY <1>1, <1>2, AtEdge DEF Unsent
<1> HIDE DEF x
<1>16. \A y \in FanIns : faninb'[y] = IF y = x /\ faninb[x] = <<>> THEN <<{}>> ELSE faninb[y]
  BY <1>1 DEF ThreadInv, SolveTypes
<1>17. (\A y \in FanIns : Content(y)' = Content(y)) /\ faninb'[x] # <<>>
  BY <1>2, <1>16, FanInContent DEF Content
<1>18. QueueInv'
  <2>1. \A y \in FanIns : TakenAt(y, "store")' => TakenAt(y, "store")
    BY <1>1, <1>6, <1>7, PlacesSame
  <2> QED
    BY <1>1, <1>7, <1>10, <1>15, <2>1, QueueKept
<1>19. FanInInv'
  <2>1. Now' = Now
    BY <1>1, NowSame
  <2>2. ASSUME NEW u \in Threads, pc'[u] = "gemm" PROVE faninb'[Target(u)'] # <<>>
    <3>1. Target(u)' = Target(u)
      BY <1>1, NextSame
    <3>2. CASE u = t
      BY <1>17, <3>1, <3>2 DEF x
    <3>3. CASE u # t
      <4>1. Target(u) \in FanIns /\ faninb[Target(u)] # <<>>
        BY <1>3, <2>2, <3>3 DEF FanInInv, ThreadInv, AtTask
      <4> QED
        BY <1>16, <1>17, <3>1, <4>1
    <3> QED
      BY <3>2, <3>3
  <2>3. \A y \in FanIns : Unsent(y)' => Content(y)' = {<<"forward", e>> : e \in Contribs(y) \ FreshEdges'}
    BY <1>8, <1>9, <1>15, <1>17 DEF FanInInv, EdgesKept, UnsentKept
  <2>4. \A y \in FanIns : \A e \in Contribs(y) \cap UnsentEdges' : \A f \in Contribs(y) \cap UnsentEdges' :
              e \notin LeftEdges' => f = e
    BY <1>8, <1>15 DEF FanInInv, EdgesKept
  <2>5. \A y \in FanIns : faninb'[y] # <<>> => Unsent(y)' \/ Pending(y)'
    <3>1. \A y : Pending(y)' <=> Pending(y)
      BY <1>1, TablesSame
    <3> QED
      BY <1>9, <1>15, <1>16, <3>1 DEF FanInInv, UnsentKept
  <2>6. \A u \in Threads : \A y \in FanIns : ~ (pc'[u] \in Working /\ cur'[u] = y)
    BY <1>4, <1>15, <2>1, NowFacts DEF ThreadInv, AtTask
  <2> QED
    BY <1>15, <2>1, <2>2, <2>3, <2>4, <2>5, <2>6 DEF FanInInv, Contribs
<1> QED
  BY <1>4, <1>5, <1>7, <1>10, <1>12, <1>13, <1>14, <1>18, <1>19

(* A thread updates with the solution of its task.                         *)
LEMMA SolutionFacts ==
    ASSUME SolveInv, NEW t \in Threads, pc[t] \in Working
    PROVE  /\ cur[t] \in FanIns => Solution(t) = Data(cur[t]) /\ Now = "backward" /\ ~ UnsentSolution(cur[t])
           /\ cur[t] \notin FanIns => solved[Now][cur[t][2]] = 1
           /\ Solution(t) = {<<Now, cur[t][2]>>}
           /\ step[ProcOf(t)] = Now /\ cur[t] \in Local /\ cur[t][1] = ProcOf(t)
<1>1. /\ step[ProcOf(t)] = Now /\ cur[t] \in Local /\ cur[t][1] = ProcOf(t) /\ cur[t] \notin NewTasks
      /\ cur[t] \in FanIns => Now = "backward"
  BY DEF SolveInv, ThreadInv, Placed, AtTask, BegunInv
<1>2. Now \in Steps
  BY NowFacts
<1>3. ASSUME NEW x \in Local, x = cur[t]
      PROVE  /\ x \in FanIns => Solution(t) = Data(x) /\ Data(x) = {<<Now, x[2]>>} /\ ~ UnsentSolution(x)
             /\ x \notin FanIns => solved[Now][x[2]] = 1 /\ Solution(t) = {<<Now, x[2]>>}
  <2>1. ~ Ahead(x)
    BY <1>1, <1>3 DEF NewTasks
  <2>2. CASE x \in FanIns
    <3>1. faninb[x] = <<Data(x)>>
      BY <1>3, <2>2 DEF SolveInv, FanInInv
    <3>2. Solution(t) = Data(x)
      BY <1>3, <2>2, <3>1, FanInContent DEF Solution
    <3>3. Data(x) = {<<Now, x[2]>>}
      BY <1>1, <1>3, <2>2 DEF Data
    <3> QED
      BY <2>1, <2>2, <3>2, <3>3 DEF Ahead
  <2>3. CASE x \notin FanIns
    <3>1. x[2] \in Cblks
      BY EdgeFacts
    <3>2. solved[Now][x[2]] = 1
      BY <1>2, <2>1, <2>3, <3>1 DEF Ahead, SolveInv, ThreadInv, SolveTypes
    <3> QED
      BY <1>1, <1>3, <2>3, <3>2 DEF Solution
  <2> QED
    BY <2>2, <2>3
<1> QED
  BY <1>1, <1>3

LEMMA UpdateInv == ASSUME SolveInv, NEW t \in Threads, Update(t) PROVE SolveInv'
<1> USE DEF SolveInv
<1> DEFINE x == Target(t)
           e == NextEdge(t)
<1>1. /\ pc[t] \in {"update", "gemm"} /\ todo[t] # {} /\ tosend[t] = {} /\ Goto(t, "release")
      /\ UNCHANGED <<engineVars, reqtab, incoming, posted, indexes, held, recvreq, rcoeftab, net>>
      /\ UNCHANGED <<step, phase, todo, tosend, recvb, solved>>
      /\ UNCHANGED <<ctrbcnt, pos, queue, cur, taskcnt, done>>
  BY DEF Update, engineVars, tableVars, threadVars, mpiVars, schedVars
<1>2. /\ e \in Edges /\ x \in Local /\ x = Home(e) /\ e \in UnsentEdges /\ e \in FreshEdges
      /\ x \in FanIns => Now = "forward" /\ e \in Contribs(x)
      /\ step[ProcOf(t)] = Now /\ TaskOf(e) = cur[t]
  BY <1>1, AtEdge
<1>3. /\ \/ x \in FanIns /\ faninb[x] # <<>> /\ UNCHANGED got
            /\ faninb' = [faninb EXCEPT ![x] = <<@[1] \cup {<<Now, e>>}>>]
         \/ x \notin FanIns /\ got' = [got EXCEPT ![Now][e] = @ + 1] /\ UNCHANGED faninb
  <2>1. <<Now, cur[t][2]>> \in Solution(t)
    BY <1>1, SolutionFacts DEF Working
  <2> QED
    BY <1>2, <2>1 DEF Update
<1>4. pc'[t] = "release" /\ (\A u \in Threads : u # t => pc'[u] = pc[u]) /\ pc' = [u \in Threads |-> pc'[u]]
  BY <1>1, GotoFacts
<1> HIDE DEF x, e
<1>5. Now \in Steps /\ Now' = Now
  BY <1>1, NowFacts, NowSame
<1>6. ASSUME x \notin FanIns
      PROVE  /\ got[Now][e] = 0 /\ got' \in [Steps -> [Edges -> {0, 1}]]
             /\ got'[Now] = [f \in Edges |-> IF f = e THEN 1 ELSE got[Now][f]]
             /\ \A s \in Steps : s # Now => got'[s] = got[s]
  <2>1. got[Now][e] = 0
    BY <1>2, <1>6 DEF GotInv
  <2>2. got \in [Steps -> [Edges -> {0, 1}]]
    BY DEF ThreadInv, SolveTypes
  <2>3. got' = [got EXCEPT ![Now][e] = @ + 1]
    BY <1>3, <1>6
  <2>4. /\ got'[Now] = [got[Now] EXCEPT ![e] = @ + 1]
        /\ \A s \in Steps : s # Now => got'[s] = got[s]
    BY <1>5, <2>2, <2>3
  <2>5. got[Now] \in [Edges -> {0, 1}]
    BY <1>5, <2>2
  <2>6. got'[Now] = [f \in Edges |-> IF f = e THEN 1 ELSE got[Now][f]]
    BY <1>2, <2>1, <2>4, <2>5
  <2>7. got'[Now] \in [Edges -> {0, 1}]
    BY <2>5, <2>6
  <2>8. got' \in [Steps -> [Edges -> {0, 1}]]
    <3>1. got' = [s \in Steps |-> got'[s]]
      BY <2>2, <2>3
    <3>2. \A s \in Steps : got'[s] \in [Edges -> {0, 1}]
      BY <2>2, <2>4, <2>7
    <3> QED
      BY <3>1, <3>2
  <2> QED
    BY <2>1, <2>4, <2>6, <2>8
<1>7. ThreadInv'
  <2>1. StepsInv'
    <3>1. \A s \in Steps : s # Now => got'[s] = got[s]
      BY <1>3, <1>6
    <3> QED
      BY <1>1, <3>1, StepsSame DEF ThreadInv
  <2>2. SolveTypes'
    <3>1. faninb' = [y \in FanIns |-> faninb'[y]]
      BY <1>3 DEF ThreadInv, SolveTypes
    <3>2. got' \in [Steps -> [Edges -> {0, 1}]]
      BY <1>3, <1>6 DEF ThreadInv, SolveTypes
    <3> QED
      BY <1>1, <1>4, <3>1, <3>2 DEF ThreadInv, SolveTypes
  <2> QED
    BY <1>1, <2>1, <2>2, ThreadWorks DEF taskVars, Working
<1>8. EngineInv'
  BY <1>1, EngineKept DEF Communicating
<1>9. MessagesKept
  BY <1>1 DEF MessagesKept, BufferFull
<1>10. /\ StepsKept /\ LabelsKept /\ TasksKept /\ NewTasks' = NewTasks /\ BegunInv'
       /\ \A y : UnsentSolution(y)' <=> UnsentSolution(y)
       /\ \A y \in FanIns : Queued(y)' <=> Queued(y)
       /\ ~ Dynamic => \A u \in Threads : InOrder(u)'
       /\ Dynamic => CountInv'
  <2>1. \A y \in FanIns : Queued(y)' <=> Queued(y)
    BY <1>1 DEF Queued
  <2> QED
    BY <1>1, <1>9, <2>1, WorkTasks DEF Working
<1>11. FreshEdges' = FreshEdges \ {e} /\ LeftEdges' = LeftEdges /\ UnsentEdges' = UnsentEdges
  <2>1. FreshEdges' = FreshEdges \ {e}
    BY <1>1, <1>4, <1>10, EdgesPass DEF FreshEdges, e
  <2>2. LeftEdges' = LeftEdges /\ UnsentEdges' = UnsentEdges
    BY <1>1, <1>4, <1>10, EdgesSame DEF LeftEdges, UnsentEdges
  <2> QED
    BY <2>1, <2>2
<1>12. UnsentKept
  BY <1>1, <1>10, <1>11, UnsentSame
<1>13. MessageInv' /\ OnePlaceInv' /\ ComingKept
  BY <1>1, <1>9, <1>10, <1>12, MessageSame
<1>14. \A y \in FanIns : (Coming(y) \/ Taking(y))' <=> (Coming(y) \/ Taking(y))
  BY <1>13 DEF ComingKept
<1>15. IncomingInv' /\ CounterInv' /\ ReadyInv'
  BY <1>1, <1>10, <1>11, <1>13, <1>14, IncomingSame, CounterSame, ReadySame DEF ComingKept
<1>16. SendInv'
  <2>1. TablesShrink /\ \A y : Pending(y)' <=> Pending(y)
    BY <1>1, TablesSame
  <2>2. EngineTypes'
    BY <1>8 DEF EngineInv
  <2> QED
    BY <1>1, <1>10, <1>12, <2>1, <2>2, SendKept DEF StepsKept
<1>17. /\ (\A y \in FanIns : (TakenAt(y, "add")' <=> TakenAt(y, "add")) /\ (TakenAt(y, "store")' <=> TakenAt(y, "store")))
       /\ \A f : Home(f)' = Home(f)
  BY <1>1, <1>9, <1>10, PlacesSame, NowSame
<1>18. QueueInv'
  <2>1. \A y \in FanIns : Now = "backward" => faninb'[y] = faninb[y]
    BY <1>2, <1>3, NowFacts
  <2> QED
    BY <1>1, <1>10, <1>13, <1>17, <2>1, QueueKept
<1>19. CASE /\ x \in FanIns /\ faninb[x] # <<>> /\ UNCHANGED got
            /\ faninb' = [faninb EXCEPT ![x] = <<@[1] \cup {<<Now, e>>}>>]
  <2>1. GotInv'
    <3>1. \A y \in FanIns : (Coming(y) \/ TakenAt(y, "add"))' <=> (Coming(y) \/ TakenAt(y, "add"))
      BY <1>13, <1>17 DEF ComingKept
    <3>2. \A f \in Edges : Home(f) \notin FanIns => (f \in FreshEdges' <=> f \in FreshEdges)
      BY <1>2, <1>11, <1>19
    <3> QED
      BY <1>5, <1>17, <1>19, <3>1, <3>2 DEF GotInv
  <2>2. Unsent(x) /\ Now = "forward"
    BY <1>2, <1>19 DEF Unsent
  <2>3. \A y \in FanIns : faninb'[y] = IF y = x THEN <<faninb[y][1] \cup {<<Now, e>>}>> ELSE faninb[y]
    BY <1>19 DEF ThreadInv, SolveTypes
  <2>4. /\ \A y \in FanIns : y = x => faninb'[y] # <<>>
        /\ \A y \in FanIns : Content(y)' = IF y = x THEN Content(y) \cup {<<"forward", e>>} ELSE Content(y)
    <3>1. \A y \in FanIns : y # x => faninb'[y] = faninb[y]
      BY <2>3
    <3>2. \A y \in FanIns : y = x => faninb'[y] # <<>> /\ faninb'[y][1] = faninb[y][1] \cup {<<"forward", e>>}
      <4>1. \A y \in FanIns : y = x => faninb'[y] = <<faninb[y][1] \cup {<<"forward", e>>}>>
        BY <2>2, <2>3
      <4> QED
        BY <4>1, FanInContent
    <3>3. \A y \in FanIns : y = x => Content(y) = faninb[y][1]
      BY <1>19 DEF Content
    <3> QED
      BY <3>1, <3>2, <3>3 DEF Content
  <2>5. FanInInv'
    <3>1. ASSUME NEW u \in Threads, pc'[u] = "gemm" PROVE faninb'[Target(u)'] # <<>>
      <4>1. Target(u)' = Target(u) /\ u # t
        BY <1>1, <1>4, <3>1, NextSame
      <4>2. faninb[Target(u)] # <<>> /\ Target(u) \in FanIns
        BY <1>4, <3>1, <4>1 DEF FanInInv, ThreadInv, AtTask
      <4> QED
        BY <2>3, <2>4, <4>1, <4>2
    <3>2. ASSUME NEW y \in FanIns, Unsent(y)'
          PROVE  Content(y)' = {<<"forward", f>> : f \in Contribs(y) \ FreshEdges'}
      <4>1. Content(y) = {<<"forward", f>> : f \in Contribs(y) \ FreshEdges}
        BY <1>12, <2>2, <3>2 DEF FanInInv, UnsentKept
      <4>2. e \in Contribs(y) <=> y = x
        BY <1>2, <2>2, EdgeFacts, FanInsLocal
      <4>3. CASE y = x
        <5>1. Contribs(y) \ FreshEdges' = (Contribs(y) \ FreshEdges) \cup {e}
          BY <1>2, <1>11, <4>2, <4>3
        <5>2. Content(y)' = Content(y) \cup {<<"forward", e>>}
          BY <2>4, <4>3
        <5> QED
          BY <4>1, <5>1, <5>2
      <4>4. CASE y # x
        <5>1. Contribs(y) \ FreshEdges' = Contribs(y) \ FreshEdges
          BY <1>11, <4>2, <4>4
        <5>2. Content(y)' = Content(y)
          BY <2>4, <4>4
        <5> QED
          BY <4>1, <5>1, <5>2
      <4> QED
        BY <4>3, <4>4
    <3>3. \A y \in FanIns : \A g \in Contribs(y) \cap UnsentEdges' : \A f \in Contribs(y) \cap UnsentEdges' :
              g \notin LeftEdges' => f = g
      BY <1>11, <2>2 DEF FanInInv
    <3>4. \A y \in FanIns : faninb'[y] # <<>> => Unsent(y)' \/ Pending(y)'
      <4>1. \A y : Pending(y)' <=> Pending(y)
        BY <1>1, TablesSame
      <4> QED
        BY <1>12, <2>2, <2>3, <4>1 DEF FanInInv, UnsentKept
    <3>5. \A u \in Threads : \A y \in FanIns : ~ (pc'[u] \in Working /\ cur'[u] = y)
      BY <1>5, <1>7, <2>2, NowFacts DEF ThreadInv, AtTask
    <3> QED
      BY <1>5, <2>2, <3>1, <3>2, <3>3, <3>4, <3>5 DEF FanInInv, Contribs
  <2> QED
    BY <1>7, <1>8, <1>10, <1>13, <1>15, <1>16, <1>18, <2>1, <2>5
<1>20. CASE x \notin FanIns /\ got' = [got EXCEPT ![Now][e] = @ + 1] /\ UNCHANGED faninb
  <2>1. GotInv'
    <3>1. \A y \in FanIns : (Coming(y) \/ TakenAt(y, "add"))' <=> (Coming(y) \/ TakenAt(y, "add"))
      BY <1>13, <1>17 DEF ComingKept
    <3>2. \A f \in Edges : got'[Now][f] = IF f = e THEN 1 ELSE got[Now][f]
      BY <1>6, <1>20
    <3>3. \A f \in Edges : Home(f) \notin FanIns => got'[Now][f] = IF f \in FreshEdges' THEN 0 ELSE 1
      BY <1>11, <3>2 DEF GotInv
    <3>4. \A y \in FanIns : \A f \in Edges : Home(f) = y =>
             got'[Now][f] = IF Coming(y)' \/ TakenAt(y, "add")' THEN 0 ELSE 1
      BY <1>2, <1>20, <3>1, <3>2 DEF GotInv
    <3> QED
      BY <1>5, <1>17, <3>3, <3>4 DEF GotInv
  <2>2. FanInInv'
    <3>1. ASSUME NEW u \in Threads, pc'[u] = "gemm" PROVE faninb'[Target(u)'] # <<>>
      <4>1. Target(u)' = Target(u) /\ u # t
        BY <1>1, <1>4, <3>1, NextSame
      <4> QED
        BY <1>4, <1>20, <3>1, <4>1 DEF FanInInv
    <3>2. ASSUME NEW y \in FanIns, Unsent(y)', Now = "forward"
          PROVE  Content(y)' = {<<"forward", f>> : f \in Contribs(y) \ FreshEdges'}
      <4>1. Content(y)' = Content(y) /\ Unsent(y)
        BY <1>12, <1>20, <3>2 DEF Content, UnsentKept
      <4>2. e \notin Contribs(y)
        BY <1>2, <1>20, <3>2, EdgeFacts, FanInsLocal
      <4>3. Contribs(y) \ FreshEdges' = Contribs(y) \ FreshEdges
        BY <1>11, <4>2
      <4> QED
        BY <3>2, <4>1, <4>3 DEF FanInInv
    <3>3. \A y \in FanIns : Now = "forward" =>
            \A g \in Contribs(y) \cap UnsentEdges' : \A f \in Contribs(y) \cap UnsentEdges' :
              g \notin LeftEdges' => f = g
      BY <1>11 DEF FanInInv
    <3>4. \A y \in FanIns : faninb'[y] # <<>> =>
            IF Now = "forward" THEN Unsent(y)' \/ Pending(y)'
            ELSE Queued(y)' \/ \E u \in Threads : pc'[u] \in Working /\ cur'[u] = y
      <4>1. \A y : Pending(y)' <=> Pending(y)
        BY <1>1, TablesSame
      <4> QED
        BY <1>10, <1>12, <1>20, <4>1 DEF FanInInv, UnsentKept, TasksKept
    <3>5. \A u \in Threads : \A y \in FanIns : pc'[u] \in Working /\ cur'[u] = y => faninb'[y] = <<Data(y)'>>
      <4>1. \A y : Data(y)' = Data(y)
        BY <1>1, NowSame
      <4>2. faninb' = faninb
        BY <1>20
      <4>3. \A u \in Threads : \A y \in FanIns : pc'[u] \in Working /\ cur'[u] = y => pc[u] \in Working /\ cur[u] = y
        BY <1>10 DEF TasksKept
      <4> QED
        BY <4>1, <4>2, <4>3 DEF FanInInv
    <3>6. CASE Now = "forward"
      <4>1. \A y \in FanIns : Unsent(y)' => Content(y)' = {<<"forward", f>> : f \in Contribs(y) \ FreshEdges'}
        BY <3>2, <3>6
      <4>2. \A y \in FanIns : \A g \in Contribs(y) \cap UnsentEdges' : \A f \in Contribs(y) \cap UnsentEdges' :
                g \notin LeftEdges' => f = g
        BY <3>3, <3>6
      <4>3. \A y \in FanIns : faninb'[y] # <<>> => Unsent(y)' \/ Pending(y)'
        BY <3>4, <3>6
      <4>4. \A u \in Threads : \A y \in FanIns : ~ (pc'[u] \in Working /\ cur'[u] = y)
        BY <1>5, <1>7, <3>6, NowFacts DEF ThreadInv, AtTask
      <4> QED
        BY <1>5, <3>1, <3>6, <4>1, <4>2, <4>3, <4>4 DEF FanInInv, Contribs
    <3>7. CASE Now # "forward"
      BY <1>5, <3>1, <3>4, <3>5, <3>7 DEF FanInInv
    <3> QED
      BY <3>6, <3>7
  <2> QED
    BY <1>7, <1>8, <1>10, <1>13, <1>15, <1>16, <1>18, <2>1, <2>2
<1> QED
  BY <1>3, <1>19, <1>20


(* A thread goes to the next block, or to the next emission, of its task.  *)
LEMMA ThreadUpdates ==
    ASSUME ThreadInv, SolveTypes', StepsInv', UNCHANGED <<step, phase, cur, taskcnt>>,
           NEW t \in Threads, Goto(t, "update"), pc[t] \in Working,
           todo'[t] \subseteq todo[t], tosend'[t] \subseteq tosend[t], posted'[t] = NoIdx,
           \A u \in Threads : u # t => todo'[u] = todo[u] /\ tosend'[u] = tosend[u] /\ posted'[u] = posted[u]
    PROVE  ThreadInv'
<1>1. pc'[t] = "update" /\ \A u \in Threads : u # t => pc'[u] = pc[u]
  BY GotoFacts
<1>2. Others(t)
  BY <1>1 DEF Others
<1>3. Placed(t) /\ AtTask(t)
  BY DEF ThreadInv
<1>4. Now' = Now /\ \A e : TaskOf(e)' = TaskOf(e)
  BY NowSame
<1>5. Placed(t)'
  BY <1>1, <1>3, <1>4 DEF Placed, Working, Looping
<1>6. AtTask(t)'
  BY <1>1, <1>3, <1>4 DEF AtTask, Working
<1>7. \A p \in Procs : taskcnt'[p] <= taskcnt[p]
  BY DEF ThreadInv, SolveTypes
<1> QED
  BY <1>2, <1>5, <1>6, <1>7, ThreadStep

-----------------------------------------------------------------------------
(* A contribution is counted down.                                         *)

LEMMA CounterDrop ==
    ASSUME SolveInv, NEW t \in Threads, todo[t] # {}, pc[t] = "release",
           LeftEdges' = LeftEdges \ {NextEdge(t)}, UNCHANGED step, StepsKept,
           ctrbcnt' = [ctrbcnt EXCEPT ![Target(t)] = @ - 1],
           \A x \in FanIns : (Coming(x) \/ Taking(x))' <=> (Coming(x) \/ Taking(x))
    PROVE  CounterInv' /\ ctrbcnt[Target(t)] > 0
<1> USE DEF SolveInv
<1>1. ASSUME NEW x PROVE Awaited(x)' = Awaited(x) /\ Cardinality(Awaited(x)) \in Nat
  <2>1. Awaited(x)' = Awaited(x)
    BY AwaitedSame
  <2>2. Awaited(x) \subseteq FanIns
    BY RecvFacts DEF Awaited
  <2> QED
    BY <2>1, <2>2, FanInsFinite
<1> DEFINE Facing(x) == {e \in LeftEdges : Home(e) = x}
<1>2. /\ NextEdge(t) \in LeftEdges /\ ~ NotYet(Target(t)[1]) /\ Target(t) \in Local
      /\ Target(t) = Home(NextEdge(t)) /\ Target(t)[1] \in Procs
  <2>1. tosend[t] = {}
    BY DEF ThreadInv, AtTask
  <2> QED
    BY <2>1, AtEdge, ThreadFacts
<1>3. ASSUME NEW x
      PROVE  /\ IsFiniteSet(Facing(x)) /\ Cardinality(Facing(x)) \in Nat
             /\ Facing(x)' = IF x = Target(t) THEN Facing(x) \ {NextEdge(t)} ELSE Facing(x)
  <2>1. Facing(x) \subseteq Edges
    BY EdgesNested
  <2>2. \A e : Home(e)' = Home(e)
    BY NowSame
  <2> QED
    BY <1>2, <2>1, <2>2, EdgesFinite
<1>4. /\ ctrbcnt \in [Local -> Nat]
      /\ \A x \in Local : ctrbcnt'[x] = IF x = Target(t) THEN ctrbcnt[x] - 1 ELSE ctrbcnt[x]
      /\ \A x \in Local : ~ NotYet(x[1]) => ctrbcnt[x] = Counter(x)
  BY DEF CounterInv
<1>5. ASSUME NEW x \in Local
      PROVE  /\ Counter(x)' = IF x = Target(t) THEN Counter(x) - 1 ELSE Counter(x)
             /\ Counter(x) \in Nat /\ (x = Target(t) => Counter(x) > 0)
  <2>1. Counter(x) = Cardinality(Facing(x)) + Cardinality(Awaited(x))
    BY DEF Counter
  <2>2. Counter(x)' = Cardinality(Facing(x)') + Cardinality(Awaited(x))
    BY <1>1 DEF Counter
  <2>3. NextEdge(t) \in Facing(Target(t))
    BY <1>2
  <2> HIDE DEF Facing
  <2>4. CASE x = Target(t)
    <3>1. Facing(x)' = Facing(x) \ {NextEdge(t)} /\ NextEdge(t) \in Facing(x)
      BY <1>3, <2>3, <2>4
    <3>2. Cardinality(Facing(x)') = Cardinality(Facing(x)) - 1 /\ Cardinality(Facing(x)') \in Nat
      BY <1>3, <3>1, FS_RemoveElement, FS_CardinalityType
    <3> QED
      BY <1>1, <1>3, <2>1, <2>2, <2>4, <3>2
  <2>5. CASE x # Target(t)
    BY <1>1, <1>3, <2>1, <2>2, <2>5
  <2> QED
    BY <2>4, <2>5
<1>6. ctrbcnt[Target(t)] > 0
  BY <1>2, <1>4, <1>5
<1>7. \A x \in Local : ~ NotYet(x[1])' => ctrbcnt'[x] = Counter(x)'
  BY <1>4, <1>5, EdgeFacts DEF StepsKept
<1>8. ctrbcnt' \in [Local -> Nat]
  <2>1. ctrbcnt' = [x \in Local |-> ctrbcnt'[x]]
    BY <1>4
  <2>2. \A x \in Local : ctrbcnt'[x] \in Nat
    BY <1>4, <1>6
  <2> QED
    BY <2>1, <2>2
<1> QED
  BY <1>6, <1>7, <1>8 DEF CounterInv

(* The counter of a fan-in is one when one contribution is left.           *)
LEMMA LastContribution ==
    ASSUME SolveInv, NEW t \in Threads, todo[t] # {}, pc[t] = "release", Target(t) \in FanIns
    PROVE  /\ ctrbcnt[Target(t)] = 1 => \A f \in Contribs(Target(t)) \cap LeftEdges : f = NextEdge(t)
           /\ ctrbcnt[Target(t)] # 1 => \E f \in Contribs(Target(t)) \cap LeftEdges : f # NextEdge(t)
<1> DEFINE A == Contribs(Target(t)) \cap LeftEdges
           e == NextEdge(t)
<1>1. IsFiniteSet(A) /\ Cardinality(A) \in Nat
  BY EdgesFinite, EdgesNested
<1>2. e \in A /\ ~ NotYet(Target(t)[1]) /\ Target(t) \in Local /\ Now = "forward"
  <2>1. tosend[t] = {}
    BY DEF SolveInv, ThreadInv, AtTask
  <2> QED
    BY <2>1, AtEdge
<1>3. ctrbcnt[Target(t)] = Cardinality(A)
  <2>1. ctrbcnt[Target(t)] = Counter(Target(t))
    BY <1>2 DEF SolveInv, CounterInv
  <2>2. Awaited(Target(t)) = {}
    BY DEF Awaited
  <2>3. {f \in LeftEdges : Home(f) = Target(t)} = A
    BY <1>2, EdgeFacts, EdgesNested
  <2> HIDE DEF A
  <2>4. Counter(Target(t)) = Cardinality(A) + 0
    BY <2>2, <2>3, FS_EmptySet DEF Counter
  <2> QED
    BY <1>1, <2>1, <2>4
<1> HIDE DEF A, e
<1>4. /\ Cardinality(A \ {e}) = Cardinality(A) - 1 /\ Cardinality(A \ {e}) \in Nat
      /\ IsFiniteSet(A \ {e})
  BY <1>1, <1>2, FS_RemoveElement, FS_CardinalityType
<1>5. Cardinality(A) = 1 => A \ {e} = {}
  BY <1>4, FS_EmptySet
<1>6. A \ {e} = {} => Cardinality(A) = 1
  BY <1>1, <1>4, FS_EmptySet
<1> QED
  BY <1>3, <1>5, <1>6 DEF A, e

(* What a fan-in holds when a step writes none.                            *)
LEMMA FanInKept ==
    ASSUME FanInInv, UNCHANGED <<step, faninb>>, FreshEdges' = FreshEdges, UnsentEdges' \subseteq UnsentEdges,
           \A x \in FanIns : Unsent(x)' => Unsent(x), TasksKept,
           \A x \in FanIns : Unsent(x) \/ Pending(x) => Unsent(x)' \/ Pending(x)',
           \A x \in FanIns : Queued(x)' <=> Queued(x),
           \A t \in Threads : pc'[t] = "gemm" => pc[t] = "gemm" /\ todo'[t] = todo[t],
           \A x \in FanIns : Now = "forward" =>
              \A e \in Contribs(x) \cap UnsentEdges' : \A f \in Contribs(x) \cap UnsentEdges' :
                  e \notin LeftEdges' => f = e
    PROVE  FanInInv'
<1>1. \A t \in Threads : pc'[t] = "gemm" => Target(t)' = Target(t)
  BY NextSame
<1>2. Now' = Now /\ \A x : Data(x)' = Data(x)
  BY NowSame
<1>3. \A t \in Threads : pc'[t] = "gemm" => faninb'[Target(t)'] # <<>>
  BY <1>1 DEF FanInInv
<1>4. \A x \in FanIns : Now = "forward" /\ Unsent(x) =>
          Content(x)' = {<<"forward", e>> : e \in Contribs(x) \ FreshEdges'}
  BY DEF FanInInv, Content
<1>5. \A x \in FanIns : faninb'[x] # <<>> =>
          IF Now = "forward" THEN Unsent(x)' \/ Pending(x)'
          ELSE Queued(x)' \/ \E t \in Threads : pc'[t] \in Working /\ cur'[t] = x
  BY DEF FanInInv, TasksKept
<1>6. \A t \in Threads : \A x \in FanIns : pc'[t] \in Working /\ cur'[t] = x => faninb'[x] = <<Data(x)>>
  BY DEF FanInInv, TasksKept
<1> QED
  BY <1>2, <1>3, <1>4, <1>5, <1>6 DEF FanInInv, Contribs

(* The last contribution to a fan-in: it will be sent.                     *)
LEMMA ReleaseLastInv ==
    ASSUME SolveInv, NEW t \in Threads, Release(t), Target(t) \in FanIns, ctrbcnt[Target(t)] = 1
    PROVE  SolveInv'
<1> USE DEF SolveInv
<1> DEFINE x == Target(t)
           e == NextEdge(t)
<1>1. /\ pc[t] = "release" /\ Goto(t, "isend") /\ ctrbcnt' = [ctrbcnt EXCEPT ![x] = 0]
      /\ UNCHANGED <<engineVars, reqtab, incoming, posted, indexes, held, recvreq, rcoeftab, net>>
      /\ UNCHANGED <<step, phase, todo, tosend, faninb, recvb, solved, got>>
      /\ UNCHANGED <<pos, queue, cur, taskcnt, done>>
  BY DEF Release, engineVars, tableVars, threadVars, mpiVars
<1>2. todo[t] # {} /\ tosend[t] = {}
  BY <1>1 DEF ThreadInv, AtTask
<1>3. /\ e \in Edges /\ x \in Local /\ x = Home(e) /\ e \in LeftEdges /\ e \in UnsentEdges /\ e \notin FreshEdges
      /\ Now = "forward" /\ e \in Contribs(x) /\ ~ NotYet(x[1])
  BY <1>1, <1>2, AtEdge
<1>4. pc'[t] = "isend" /\ (\A u \in Threads : u # t => pc'[u] = pc[u]) /\ pc' = [u \in Threads |-> pc'[u]]
  BY <1>1, GotoFacts
<1>5. ThreadInv'
  <2>1. SolveTypes' /\ StepsInv'
    BY <1>1, <1>4, StepsSame DEF ThreadInv, SolveTypes
  <2> QED
    BY <1>1, <1>2, <2>1, ThreadWorks DEF taskVars, Working
<1>6. EngineInv'
  BY <1>1, EngineKept DEF Communicating
<1>7. MessagesKept
  BY <1>1 DEF MessagesKept, BufferFull
<1>8. /\ StepsKept /\ LabelsKept /\ TasksKept /\ NewTasks' = NewTasks /\ BegunInv'
      /\ \A y : UnsentSolution(y)' <=> UnsentSolution(y)
      /\ \A y \in FanIns : Queued(y)' <=> Queued(y)
      /\ ~ Dynamic => \A u \in Threads : InOrder(u)'
      /\ Dynamic => CountInv'
  <2>1. \A y \in FanIns : Queued(y)' <=> Queued(y)
    BY <1>1 DEF Queued
  <2> QED
    BY <1>1, <1>7, <2>1, WorkTasks DEF Working
<1>9. FreshEdges' = FreshEdges /\ LeftEdges' = LeftEdges \ {e} /\ UnsentEdges' = UnsentEdges
  <2>1. LeftEdges' = LeftEdges \ {e}
    BY <1>1, <1>2, <1>4, <1>8, EdgesPass DEF LeftEdges
  <2>2. FreshEdges' = FreshEdges /\ UnsentEdges' = UnsentEdges
    BY <1>1, <1>4, <1>8, EdgesSame DEF FreshEdges, UnsentEdges
  <2> QED
    BY <2>1, <2>2
<1>10. UnsentKept
  BY <1>1, <1>8, <1>9, UnsentSame
<1>11. MessageInv' /\ OnePlaceInv' /\ ComingKept
  BY <1>1, <1>7, <1>8, <1>10, MessageSame
<1>12. \A y \in FanIns : (Coming(y) \/ Taking(y))' <=> (Coming(y) \/ Taking(y))
  BY <1>11 DEF ComingKept
<1>13. IncomingInv' /\ ReadyInv'
  BY <1>1, <1>8, <1>9, <1>11, <1>12, IncomingSame, ReadySame DEF ComingKept
<1>14. CounterInv'
  <2>1. ctrbcnt' = [ctrbcnt EXCEPT ![x] = @ - 1]
    BY <1>1
  <2> QED
    BY <1>1, <1>2, <1>8, <1>9, <1>12, <2>1, CounterDrop
<1>15. GotInv'
  <2>1. \A y \in FanIns : (Coming(y) \/ TakenAt(y, "add"))' <=> (Coming(y) \/ TakenAt(y, "add"))
    BY <1>1, <1>7, <1>8, <1>11, PlacesSame DEF ComingKept
  <2> QED
    BY <1>1, <1>9, <2>1, GotSame
<1>16. TablesShrink /\ \A y : Pending(y)' <=> Pending(y)
  BY <1>1, TablesSame
<1>17. SendInv'
  <2>1. EngineTypes'
    BY <1>6 DEF EngineInv
  <2> QED
    BY <1>1, <1>8, <1>10, <1>16, <2>1, SendKept DEF StepsKept
<1> HIDE DEF x, e
<1>18. QueueInv'
  <2>1. \A y \in Local : y \notin FanIns => ctrbcnt'[y] = ctrbcnt[y]
    <3>1. x \in FanIns
      BY DEF x
    <3> QED
      BY <1>1, <3>1 DEF CounterInv
  <2>2. \A u \in Threads : \A y \in queue'[u] :
              /\ y \notin FanIns => solved'[Now][y[2]] = 0 /\ ctrbcnt'[y] = 0
              /\ y \in FanIns => /\ ~ Coming(y)' /\ ~ TakenAt(y, "store")' /\ faninb'[y] = faninb[y]
                                 /\ \A v \in Threads : pc'[v] \in Working => cur'[v] # y
    <3>1. queue \in [Threads -> SUBSET Local]
      BY DEF ThreadInv, SolveTypes
    <3>2. \A y \in FanIns : ~ \E u \in Threads : y \in queue[u]
      BY <1>3, NowFacts DEF QueueInv
    <3> QED
      BY <1>1, <2>1, <3>1, <3>2 DEF QueueInv
  <2> QED
    BY <1>1, <1>8, <2>2, QueueSame DEF StepsKept
<1>19. FanInInv'
  <2>1. \A f \in Contribs(x) \cap LeftEdges : f = e
    BY <1>1, <1>2, LastContribution DEF x, e
  <2>2. \A y \in FanIns : e \in Contribs(y) => y = x
    BY <1>3, EdgeFacts, FanInsLocal
  <2>3. ASSUME NEW y \in FanIns, NEW f \in Contribs(y) \cap UnsentEdges', NEW g \in Contribs(y) \cap UnsentEdges',
               f \notin LeftEdges'
        PROVE  g = f
    <3>1. CASE f \notin LeftEdges
      BY <1>3, <1>9, <3>1 DEF FanInInv
    <3>2. CASE f \in LeftEdges
      <4>1. f = e /\ y = x
        BY <1>9, <2>2, <2>3, <3>2
      <4>2. CASE g \in LeftEdges
        BY <2>1, <4>1, <4>2
      <4>3. CASE g \notin LeftEdges
        BY <1>3, <1>9, <4>3 DEF FanInInv
      <4> QED
        BY <4>2, <4>3
    <3> QED
      BY <3>1, <3>2
  <2>4. \A u \in Threads : pc'[u] = "gemm" => pc[u] = "gemm" /\ todo'[u] = todo[u]
    BY <1>1, <1>4
  <2>5. \A y \in FanIns : (Unsent(y)' <=> Unsent(y)) /\ (Pending(y)' <=> Pending(y))
    BY <1>10, <1>16 DEF UnsentKept
  <2> QED
    BY <1>1, <1>8, <1>9, <2>3, <2>4, <2>5, FanInKept
<1> QED
  BY <1>5, <1>6, <1>8, <1>11, <1>13, <1>14, <1>15, <1>17, <1>18, <1>19

(* Another contribution: the block is done, and the column block may be    *)
(* ready.                                                                  *)
LEMMA ReleaseNextInv ==
    ASSUME SolveInv, NEW t \in Threads, Release(t), ~ (Target(t) \in FanIns /\ ctrbcnt[Target(t)] = 1)
    PROVE  SolveInv'
<1> USE DEF SolveInv
<1> DEFINE x == Target(t)
           e == NextEdge(t)
<1>1. /\ pc[t] = "release" /\ Goto(t, "update") /\ Contributed(x, t) /\ todo' = [todo EXCEPT ![t] = @ \ {e}]
      /\ UNCHANGED <<engineVars, reqtab, incoming, posted, indexes, held, recvreq, rcoeftab, net>>
      /\ UNCHANGED <<step, phase, tosend, faninb, recvb, solved, got>>
      /\ UNCHANGED <<pos, cur, taskcnt, done>>
  BY DEF Release, engineVars, tableVars, threadVars, mpiVars
<1>2. /\ ctrbcnt' = [ctrbcnt EXCEPT ![x] = @ - 1]
      /\ queue' = IF Dynamic /\ ctrbcnt[x] = 1 THEN [queue EXCEPT ![t] = @ \cup {x}] ELSE queue
  BY <1>1 DEF Contributed
<1>3. todo[t] # {} /\ tosend[t] = {} /\ posted[t] = NoIdx
  BY <1>1 DEF ThreadInv, AtTask
<1>4. /\ e \in Edges /\ x \in Local /\ x = Home(e) /\ e \in LeftEdges /\ e \in UnsentEdges /\ e \notin FreshEdges
      /\ ~ NotYet(x[1]) /\ x[1] = ProcOf(t)
  BY <1>1, <1>3, AtEdge
<1>5. pc'[t] = "update" /\ (\A u \in Threads : u # t => pc'[u] = pc[u]) /\ pc' = [u \in Threads |-> pc'[u]]
  BY <1>1, GotoFacts
<1>6. todo'[t] = todo[t] \ {e} /\ (\A u \in Threads : u # t => todo'[u] = todo[u])
  BY <1>1 DEF ThreadInv, SolveTypes
<1>7. /\ queue \in [Threads -> SUBSET Local] /\ queue' \in [Threads -> SUBSET Local]
      /\ \A u \in Threads : u # t => queue'[u] = queue[u]
      /\ queue'[t] = IF Dynamic /\ ctrbcnt[x] = 1 THEN queue[t] \cup {x} ELSE queue[t]
      /\ Dynamic /\ ctrbcnt[x] = 1 => x \notin FanIns
  <2>1. queue \in [Threads -> SUBSET Local]
    BY DEF ThreadInv, SolveTypes
  <2> HIDE DEF x
  <2> QED
    BY <1>2, <1>4, <2>1 DEF x
<1>8. ThreadInv'
  <2>1. SolveTypes' /\ StepsInv'
    <3>1. todo' \in [Threads -> SUBSET Edges]
      BY <1>1 DEF ThreadInv, SolveTypes
    <3> QED
      BY <1>1, <1>5, <1>7, <3>1, StepsSame DEF ThreadInv, SolveTypes
  <2> QED
    BY <1>1, <1>3, <1>6, <2>1, ThreadUpdates DEF Working
<1>9. EngineInv'
  BY <1>1, EngineKept DEF Communicating
<1>10. MessagesKept
  BY <1>1 DEF MessagesKept, BufferFull
<1>11. /\ StepsKept /\ LabelsKept /\ TasksKept /\ NewTasks' = NewTasks /\ BegunInv'
       /\ \A y : UnsentSolution(y)' <=> UnsentSolution(y)
       /\ \A y \in FanIns : Queued(y)' <=> Queued(y)
       /\ ~ Dynamic => \A u \in Threads : InOrder(u)'
       /\ Dynamic => CountInv'
  <2>1. \A y \in FanIns : Queued(y)' <=> Queued(y)
    BY <1>7 DEF Queued
  <2> QED
    BY <1>1, <1>10, <2>1, WorkTasks DEF Working
<1>12. FreshEdges' = FreshEdges /\ LeftEdges' = LeftEdges \ {e} /\ UnsentEdges' = UnsentEdges \ {e}
  <2>1. LeftEdges' = LeftEdges \ {e} /\ UnsentEdges' = UnsentEdges \ {e} /\ FreshEdges' = FreshEdges \ {e}
    BY <1>1, <1>3, <1>5, <1>11, EdgesDrop DEF LeftEdges, UnsentEdges, FreshEdges
  <2> QED
    BY <1>4, <2>1
<1>13. UnsentKept
  <2> SUFFICES ASSUME NEW y \in FanIns PROVE Unsent(y)' <=> Unsent(y)
    BY DEF UnsentKept
  <2>1. Now' = Now
    BY <1>1, NowSame
  <2>2. CASE Now = "backward"
    BY <1>11, <2>1, <2>2 DEF Unsent
  <2>3. CASE Now = "forward" /\ y # x
    <3>1. e \notin Contribs(y)
      BY <1>4, <2>3, EdgeFacts, FanInsLocal
    <3> QED
      BY <1>12, <2>1, <2>3, <3>1 DEF Unsent, Contribs
  <2>4. CASE Now = "forward" /\ y = x
    <3>1. PICK f \in Contribs(x) \cap LeftEdges : f # e
      BY <1>1, <1>3, <2>4, LastContribution
    <3>2. f \in Contribs(y) \cap UnsentEdges /\ f \in Contribs(y) \cap UnsentEdges'
      BY <1>12, <2>4, <3>1, EdgesNested
    <3> QED
      BY <2>1, <2>4, <3>2 DEF Unsent, Contribs
  <2> QED
    BY <2>2, <2>3, <2>4, NowFacts
<1>14. MessageInv' /\ OnePlaceInv' /\ ComingKept
  BY <1>1, <1>10, <1>11, <1>13, MessageSame
<1>15. \A y \in FanIns : (Coming(y) \/ Taking(y))' <=> (Coming(y) \/ Taking(y))
  BY <1>14 DEF ComingKept
<1>16. IncomingInv' /\ ReadyInv'
  BY <1>1, <1>11, <1>12, <1>14, <1>15, IncomingSame, ReadySame DEF ComingKept
<1>17. CounterInv' /\ ctrbcnt[x] > 0
  BY <1>1, <1>2, <1>3, <1>11, <1>12, <1>15, CounterDrop
<1>18. /\ \A y \in FanIns : (Coming(y) \/ TakenAt(y, "add"))' <=> (Coming(y) \/ TakenAt(y, "add"))
       /\ \A y \in FanIns : TakenAt(y, "store")' <=> TakenAt(y, "store")
  BY <1>1, <1>10, <1>11, <1>14, PlacesSame DEF ComingKept
<1>19. GotInv'
  BY <1>1, <1>12, <1>18, GotSame
<1>20. TablesShrink /\ \A y : Pending(y)' <=> Pending(y)
  BY <1>1, TablesSame
<1>21. SendInv'
  <2>1. EngineTypes'
    BY <1>9 DEF EngineInv
  <2> QED
    BY <1>1, <1>11, <1>13, <1>20, <2>1, SendKept DEF StepsKept
<1>22. FanInInv'
  <2>1. \A u \in Threads : pc'[u] = "gemm" => pc[u] = "gemm" /\ todo'[u] = todo[u]
    BY <1>5, <1>6
  <2>2. \A y \in FanIns : Now = "forward" =>
          \A f \in Contribs(y) \cap UnsentEdges' : \A g \in Contribs(y) \cap UnsentEdges' :
              f \notin LeftEdges' => g = f
    BY <1>12 DEF FanInInv
  <2>3. FreshEdges' = FreshEdges /\ UnsentEdges' \subseteq UnsentEdges
    BY <1>12
  <2>4. \A y \in FanIns : (Unsent(y)' <=> Unsent(y)) /\ (Pending(y)' <=> Pending(y))
    BY <1>13, <1>20 DEF UnsentKept
  <2> QED
    BY <1>1, <1>11, <2>1, <2>2, <2>3, <2>4, FanInKept
<1> HIDE DEF x, e
<1>23. QueueInv'
  <2>1. Now' = Now /\ \A y : Data(y)' = Data(y)
    BY <1>1, NowSame
  <2>2. Dynamic /\ ctrbcnt[x] = 1 => \A u \in Threads : x \notin queue[u]
    BY <1>7 DEF QueueInv
  <2>3. \A u, v \in Threads : queue'[u] \cap queue'[v] # {} => u = v
    BY <1>7, <2>2 DEF QueueInv
  <2>4. ctrbcnt \in [Local -> Nat] /\ \A y \in Local : ctrbcnt'[y] = IF y = x THEN ctrbcnt[x] - 1 ELSE ctrbcnt[y]
    BY <1>2 DEF CounterInv
  <2>5. ASSUME NEW u \in Threads, NEW y \in queue'[u]
        PROVE  /\ Dynamic /\ y[1] = ProcOf(u) /\ ~ NotYet(y[1])'
               /\ y \notin FanIns => solved'[Now'][y[2]] = 0 /\ ctrbcnt'[y] = 0
               /\ y \in FanIns => /\ Now' = "backward" /\ ~ Coming(y)' /\ ~ TakenAt(y, "store")'
                                  /\ faninb'[y] = <<Data(y)'>>
                                  /\ \A v \in Threads : pc'[v] \in Working => cur'[v] # y
    <3>1. y \in Local /\ ProcOf(u) \in Procs
      BY <1>7, ThreadFacts
    <3>2. CASE y \in queue[u]
      <4>1. y \notin FanIns => ctrbcnt[y] = 0
        BY <3>2 DEF QueueInv
      <4>2. y \notin FanIns => y # x
        BY <1>4, <1>17, <4>1, <2>4
      <4>3. y \in FanIns => ~ Coming(y)' /\ ~ TakenAt(y, "store")'
        BY <1>14, <1>18, <3>2 DEF QueueInv, ComingKept
      <4>4. y \in FanIns => \A v \in Threads : pc'[v] \in Working => cur'[v] # y
        BY <1>11, <3>2 DEF QueueInv, TasksKept
      <4> QED
        BY <1>1, <1>11, <2>1, <2>4, <3>1, <3>2, <4>1, <4>2, <4>3, <4>4 DEF QueueInv, StepsKept
    <3>3. CASE y \notin queue[u]
      <4>1. y = x /\ u = t /\ Dynamic /\ ctrbcnt[x] = 1 /\ x \notin FanIns
        BY <1>7, <2>5, <3>3
      <4>2. x[2] \in Cblks /\ x = <<Own[x[2]], x[2]>>
        BY <1>4, <4>1, EdgeFacts
      <4>3. solved[Now][x[2]] = 0
        BY <1>4, <4>2 DEF ReadyInv
      <4>4. ctrbcnt'[x] = 0
        BY <1>4, <2>4, <4>1
      <4> QED
        BY <1>1, <1>4, <1>11, <2>1, <3>1, <4>1, <4>3, <4>4 DEF StepsKept
    <3> QED
      BY <3>2, <3>3
  <2> QED
    BY <2>3, <2>5 DEF QueueInv
<1> QED
  BY <1>8, <1>9, <1>11, <1>14, <1>16, <1>17, <1>19, <1>21, <1>22, <1>23

LEMMA ReleaseInv == ASSUME SolveInv, NEW t \in Threads, Release(t) PROVE SolveInv'
BY ReleaseLastInv, ReleaseNextInv

-----------------------------------------------------------------------------
(* A message is sent.                                                      *)

LEMMA SentMessage ==
    ASSUME SolveInv, UNCHANGED step, NEW t \in Threads, NEW x \in FanIns, Sender(x) = ProcOf(t), Unsent(x),
           Isend(t, x, Receiver(x), x[2], Data(x)), LabelsKept
    PROVE  /\ \A y \in FanIns : /\ InNet(y)' <=> InNet(y) \/ y = x
                                /\ (InBuffer(y)' <=> InBuffer(y)) /\ (Taking(y)' <=> Taking(y))
                                /\ (TakenAt(y, "add")' <=> TakenAt(y, "add"))
                                /\ (TakenAt(y, "store")' <=> TakenAt(y, "store"))
           /\ MessageInv'
           /\ (\A y \in FanIns : Unsent(y)' <=> Unsent(y) /\ y # x) => OnePlaceInv' /\ ComingKept
<1> USE DEF SolveInv
<1> DEFINE P == <<Sender(x), Receiver(x)>>
           Msgs == {Msg(y) : y \in FanIns}
<1>1. /\ \A y : Msg(y)' = Msg(y) /\ Sender(y)' = Sender(y) /\ Receiver(y)' = Receiver(y)
      /\ \A y \in FanIns : Sender(y) \in Procs /\ Receiver(y) \in Procs /\ ThreadsOf(Receiver(y)) \subseteq Threads
  BY NowSame, RemoteFacts, ThreadFacts
<1>2. /\ net' = [net EXCEPT ![P] = Append(@, Msg(x))]
      /\ UNCHANGED <<held, recvreq, rcoeftab>>
  BY DEF Isend, Msg, threadVars
<1>3. P \in Procs \X Procs
  BY <1>1
<1>4. /\ \A pq \in Procs \X Procs : pq # P => net'[pq] = net[pq]
      /\ net'[P] = Append(net[P], Msg(x))
  BY <1>2, <1>3 DEF EngineInv, EngineTypes
<1>5. net[P] \in Seq(Msgs) /\ Len(net[P]) \in Nat /\ Msg(x) \in Msgs
  <2>1. net[P] \in Seq(Msgs)
    BY <1>1 DEF MessageInv
  <2>2. Msg(x) \in Msgs
    OBVIOUS
  <2> HIDE DEF Msgs
  <2> QED
    BY <2>1, <2>2
<1> HIDE DEF P, Msgs
<1>6. /\ Len(net'[P]) = Len(net[P]) + 1 /\ net'[P][Len(net[P]) + 1] = Msg(x)
      /\ \A i \in 1 .. Len(net[P]) : net'[P][i] = net[P][i]
      /\ net'[P] \in Seq(Msgs)
  <2> DEFINE s == net[P]
             m == Msg(x)
  <2>1. s \in Seq(Msgs) /\ m \in Msgs /\ net'[P] = Append(s, m)
    BY <1>4, <1>5
  <2> HIDE DEF s, m
  <2>2. /\ Len(Append(s, m)) = Len(s) + 1 /\ Append(s, m)[Len(s) + 1] = m
        /\ \A i \in 1 .. Len(s) : Append(s, m)[i] = s[i]
        /\ Append(s, m) \in Seq(Msgs)
    BY <2>1, AppendProperties
  <2> QED
    BY <2>1, <2>2 DEF s, m
<1>7. 1 .. Len(net'[P]) = (1 .. Len(net[P])) \cup {Len(net[P]) + 1}
  BY <1>5, <1>6
<1>8. ASSUME NEW y \in FanIns
      PROVE  /\ Channel(y) = net[<<Sender(y), Receiver(y)>>] /\ Channel(y)' = net'[<<Sender(y), Receiver(y)>>]
             /\ <<Sender(y), Receiver(y)>> \in Procs \X Procs
             /\ <<Sender(y), Receiver(y)>> = P => (Msg(x) = Msg(y) <=> y = x)
             /\ y = x => <<Sender(y), Receiver(y)>> = P
  <2>1. Channel(y) = net[<<Sender(y), Receiver(y)>>] /\ Channel(y)' = net'[<<Sender(y), Receiver(y)>>]
    BY <1>1 DEF Channel
  <2>2. <<Sender(y), Receiver(y)>> = P => Receiver(y) = Receiver(x)
    BY DEF P
  <2>3. y = x => <<Sender(y), Receiver(y)>> = P
    BY DEF P
  <2> QED
    BY <1>1, <2>1, <2>2, <2>3, RemoteFacts
<1>9. MessageInv'
  <2>1. \A u \in Threads : Holding(u)' <=> Holding(u)
    BY DEF Holding, LabelsKept, AtFanIn
  <2>2. \A u \in Threads : held'[u] # NoMsg <=> Holding(u)'
    BY <1>2, <2>1 DEF MessageInv
  <2>3. Msgs = {Msg(y) : y \in FanIns}'
    BY <1>1 DEF Msgs
  <2>4. ASSUME NEW q \in Procs, NEW p \in Procs
        PROVE  /\ net'[<<q, p>>] \in Seq(Msgs)
               /\ \A i \in 1 .. Len(net'[<<q, p>>]) :
                     \E y \in FanIns : Sender(y) = q /\ Receiver(y) = p /\ net'[<<q, p>>][i] = Msg(y)
    <3>1. CASE <<q, p>> = P
      <4>1. q = Sender(x) /\ p = Receiver(x)
        BY <3>1 DEF P
      <4>2. \A i \in 1 .. Len(net[P]) : \E y \in FanIns : Sender(y) = q /\ Receiver(y) = p /\ net[P][i] = Msg(y)
        BY <3>1 DEF MessageInv
      <4>3. \A i \in 1 .. Len(net'[P]) : \E y \in FanIns : Sender(y) = q /\ Receiver(y) = p /\ net'[P][i] = Msg(y)
        BY <1>6, <1>7, <4>1, <4>2
      <4> QED
        BY <1>6, <3>1, <4>3
    <3>2. CASE <<q, p>> # P
      <4>1. net'[<<q, p>>] = net[<<q, p>>]
        BY <1>4, <3>2
      <4>2. net[<<q, p>>] \in Seq(Msgs)
        BY DEF MessageInv, Msgs
      <4>3. \A i \in 1 .. Len(net[<<q, p>>]) :
                     \E y \in FanIns : Sender(y) = q /\ Receiver(y) = p /\ net[<<q, p>>][i] = Msg(y)
        BY DEF MessageInv
      <4> QED
        BY <4>1, <4>2, <4>3
    <3> QED
      BY <3>1, <3>2
  <2>5. \A q, p \in Procs :
          /\ net'[<<q, p>>] \in Seq({Msg(y) : y \in FanIns}')
          /\ \A i \in 1 .. Len(net'[<<q, p>>]) :
                \E y \in FanIns : Sender(y)' = q /\ Receiver(y)' = p /\ net'[<<q, p>>][i] = Msg(y)'
    BY <1>1, <2>3, <2>4
  <2>6. \A p \in Procs : BufferFull(p)' => \E y \in FanIns : Receiver(y)' = p /\ rcoeftab'[p] = Msg(y)'
    BY <1>1, <1>2 DEF MessageInv, BufferFull
  <2>7. \A u \in Threads : held'[u] # NoMsg => \E y \in FanIns : Receiver(y)' = ProcOf(u) /\ held'[u] = Msg(y)'
    BY <1>1, <1>2 DEF MessageInv
  <2>8. \A u \in Threads : \A y \in FanIns : pc'[u] \in Working /\ cur'[u] = y /\ ~ Dynamic => held'[u] = Msg(y)'
    BY <1>1, <1>2 DEF MessageInv, LabelsKept, AtFanIn
  <2> QED
    BY <2>2, <2>5, <2>6, <2>7, <2>8 DEF MessageInv
<1>10. ASSUME NEW y \in FanIns
       PROVE  /\ InNet(y)' <=> InNet(y) \/ y = x
              /\ (InBuffer(y)' <=> InBuffer(y)) /\ (Taking(y)' <=> Taking(y))
              /\ (TakenAt(y, "add")' <=> TakenAt(y, "add"))
              /\ (TakenAt(y, "store")' <=> TakenAt(y, "store"))
  <2>1. InNet(y)' <=> InNet(y) \/ y = x
    <3>1. CASE <<Sender(y), Receiver(y)>> = P
      <4>1. InNet(y)' <=> \E i \in 1 .. Len(net'[P]) : net'[P][i] = Msg(y)
        BY <1>1, <1>8, <3>1 DEF InNet
      <4>2. InNet(y) <=> \E i \in 1 .. Len(net[P]) : net[P][i] = Msg(y)
        BY <1>8, <3>1 DEF InNet
      <4>3. Msg(x) = Msg(y) <=> y = x
        BY <1>8, <3>1
      <4> QED
        BY <1>6, <1>7, <4>1, <4>2, <4>3
    <3>2. CASE <<Sender(y), Receiver(y)>> # P
      <4>1. y # x
        BY <1>8, <3>2
      <4>2. Channel(y)' = Channel(y)
        BY <1>4, <1>8, <3>2
      <4> QED
        BY <1>1, <4>1, <4>2 DEF InNet
    <3> QED
      BY <3>1, <3>2
  <2>2. InBuffer(y)' <=> InBuffer(y)
    BY <1>1, <1>2 DEF InBuffer, BufferFull
  <2>3. Taking(y)' <=> Taking(y)
    BY <1>1, <1>2 DEF Taking
  <2>4. (TakenAt(y, "add")' <=> TakenAt(y, "add")) /\ (TakenAt(y, "store")' <=> TakenAt(y, "store"))
    BY <1>1, <1>2 DEF TakenAt, LabelsKept
  <2> QED
    BY <2>1, <2>2, <2>3, <2>4
<1>11. ASSUME \A y \in FanIns : Unsent(y)' <=> Unsent(y) /\ y # x
       PROVE  OnePlaceInv' /\ ComingKept
  <2>1. ComingKept
    BY <1>10, <1>11 DEF ComingKept, Coming
  <2>2. ASSUME NEW y \in FanIns
        PROVE  \A i, j \in 1 .. Len(Channel(y)') : Channel(y)'[i] = Msg(y) /\ Channel(y)'[j] = Msg(y) => i = j
    <3>1. CASE <<Sender(y), Receiver(y)>> = P
      <4>1. Channel(y) = net[P] /\ Channel(y)' = net'[P]
        BY <1>8, <3>1
      <4>2. \A i, j \in 1 .. Len(net[P]) : net[P][i] = Msg(y) /\ net[P][j] = Msg(y) => i = j
        BY <4>1 DEF OnePlaceInv
      <4>3. y = x => \A i \in 1 .. Len(net[P]) : net[P][i] # Msg(y)
        BY <4>1 DEF OnePlaceInv, InNet
      <4>4. Msg(x) = Msg(y) <=> y = x
        BY <1>8, <3>1
      <4>5. ASSUME NEW i \in 1 .. Len(net'[P]), NEW j \in 1 .. Len(net'[P]),
                   net'[P][i] = Msg(y), net'[P][j] = Msg(y)
            PROVE  i = j
        <5>1. CASE y = x
          <6>1. \A k \in 1 .. Len(net'[P]) : net'[P][k] = Msg(y) => k = Len(net[P]) + 1
            BY <1>6, <1>7, <4>3, <5>1
          <6> QED
            BY <4>5, <6>1
        <5>2. CASE y # x
          <6>1. i \in 1 .. Len(net[P]) /\ j \in 1 .. Len(net[P])
            BY <1>6, <1>7, <4>4, <4>5, <5>2
          <6> QED
            BY <1>6, <4>2, <4>5, <6>1
        <5> QED
          BY <5>1, <5>2
      <4> QED
        BY <4>1, <4>5
    <3>2. CASE <<Sender(y), Receiver(y)>> # P
      <4>1. Channel(y)' = Channel(y)
        BY <1>4, <1>8, <3>2
      <4> QED
        BY <4>1 DEF OnePlaceInv
    <3> QED
      BY <3>1, <3>2
  <2>3. OnePlaceInv'
    BY <1>1, <1>10, <1>11, <2>2 DEF OnePlaceInv
  <2> QED
    BY <2>1, <2>3
<1> QED
  BY <1>9, <1>10, <1>11

(* The solution of a column block is sent by the thread that solved it.    *)
LEMMA SendingTask ==
    ASSUME SolveInv, NEW t \in Threads, NEW x \in tosend[t]
    PROVE  /\ x \in FanIns /\ Now = "backward" /\ pc[t] \in Working /\ solved["backward"][x[2]] = 1
           /\ cur[t][2] = x[2] /\ cur[t] \notin FanIns /\ ProcOf(t) = Own[x[2]] /\ step[ProcOf(t)] = Now
           /\ \A u \in Threads : x \in tosend[u] => u = t
<1> USE DEF SolveInv
<1>1. ASSUME NEW u \in Threads, x \in tosend[u]
      PROVE  /\ pc[u] \in Working /\ Now = "backward" /\ cur[u] \notin FanIns /\ cur[u] = <<Own[x[2]], x[2]>>
             /\ cur[u][1] = ProcOf(u) /\ cur[u][2] = x[2] /\ x \in FanIns
  <2>1. pc[u] \in Working
    BY <1>1 DEF ThreadInv, AtTask
  <2>2. /\ cur[u] \in Local /\ cur[u][1] = ProcOf(u) /\ cur[u] \notin FanIns /\ x \in RecvsTo(cur[u][2])
        /\ Now = "backward"
    BY <1>1, <2>1 DEF ThreadInv, AtTask
  <2>3. x \in FanIns /\ x[2] = cur[u][2]
    BY <2>2 DEF RecvsTo
  <2>4. cur[u] = <<cur[u][1], cur[u][2]>> /\ cur[u][1] = Own[cur[u][2]]
    BY <2>2, EdgeFacts
  <2> QED
    BY <2>1, <2>2, <2>3, <2>4
<1>2. solved[Now][x[2]] = 1 /\ step[ProcOf(t)] = Now
  BY <1>1, SolutionFacts
<1>3. \A u \in Threads : x \in tosend[u] => u = t
  BY <1>1 DEF ThreadInv, OneThread
<1> QED
  BY <1>1, <1>2, <1>3

LEMMA SendStep ==
    ASSUME SolveInv, NEW t \in Threads, NEW x \in FanIns, Sender(x) = ProcOf(t), Unsent(x),
           Isend(t, x, Receiver(x), x[2], Data(x)), Goto(t, "register"), pc[t] \in {"update", "isend"},
           UNCHANGED <<ctrbcnt, pos, queue, taskcnt, done, cur>>,
           UNCHANGED <<step, phase, todo, tosend, faninb, solved, got>>,
           recvb' = [y \in FanIns |-> recvb'[y]],
           \A y \in FanIns : recvb'[y] # <<>> => recvb[y] # <<>> \/ (y = x /\ Now = "backward"),
           IF Now = "forward" THEN pc[t] = "isend" /\ x = Target(t) ELSE x \in tosend[t]
    PROVE  SolveInv'
<1> USE DEF SolveInv
<1>1. UNCHANGED <<reqtab, incoming, outgoing, threadVars, recvreq, rcoeftab>>
  BY DEF Isend
<1>2. pc'[t] = "register" /\ (\A u \in Threads : u # t => pc'[u] = pc[u]) /\ pc' = [u \in Threads |-> pc'[u]]
  BY GotoFacts
<1>3. LabelsKept /\ TasksKept /\ StepsKept
  BY WorkLabels, StepsKeptSame DEF Working
<1>4. posted[t] = NoIdx /\ (Now = "forward" => todo[t] # {} /\ tosend[t] = {})
  BY DEF ThreadInv, AtTask
<1>5. \A u \in Threads : posted'[u] = IF u = t THEN x ELSE posted[u]
  BY DEF EngineInv, EngineTypes, Isend
<1>6. /\ \A p \in Procs : \A i \in 1 .. Len(reqtab[p]) : reqtab[p][i].idx # x
      /\ \A u \in Threads : posted[u] # x
  BY DEF SendInv
<1>7. EngineInv'
  BY <1>4, <1>6, IsendInv DEF Communicating
<1>8. Now' = Now /\ (\A y : Sender(y)' = Sender(y)) /\ (\A u \in Threads : Target(u)' = Target(u)) /\ (\A e : TaskOf(e)' = TaskOf(e))
  BY NowSame, NextSame
<1>9. ThreadInv'
  <2>1. SolveTypes'
    BY <1>2 DEF ThreadInv, SolveTypes
  <2>2. StepsInv'
    BY StepsSame DEF ThreadInv
  <2>3. Placed(t) /\ AtTask(t)
    BY DEF ThreadInv
  <2>4. Placed(t)'
    BY <1>2, <1>8, <2>3 DEF Placed, Working, Looping
  <2>5. AtTask(t)'
    BY <1>2, <1>4, <1>5, <1>8, <2>3 DEF AtTask, Working
  <2>6. Others(t)
    BY <1>2, <1>5 DEF Others
  <2>7. \A p \in Procs : taskcnt'[p] <= taskcnt[p]
    BY DEF ThreadInv, SolveTypes
  <2>8. pc[t] \in Working /\ cur'[t] = cur[t]
    BY DEF Working
  <2> QED
    BY <2>1, <2>2, <2>4, <2>5, <2>6, <2>7, <2>8, ThreadStep
<1>10. /\ \A y \in FanIns : /\ InNet(y)' <=> InNet(y) \/ y = x
                            /\ (InBuffer(y)' <=> InBuffer(y)) /\ (Taking(y)' <=> Taking(y))
                            /\ (TakenAt(y, "add")' <=> TakenAt(y, "add"))
                            /\ (TakenAt(y, "store")' <=> TakenAt(y, "store"))
       /\ MessageInv'
       /\ (\A y \in FanIns : Unsent(y)' <=> Unsent(y) /\ y # x) => OnePlaceInv' /\ ComingKept
  BY <1>3, SentMessage
<1>11. \A y \in FanIns : Queued(y)' <=> Queued(y)
  BY DEF Queued
<1>12. Now = "backward" => /\ x \in tosend[t]
                           /\ \A y \in FanIns : UnsentSolution(y)' <=> UnsentSolution(y) /\ y # x
  <2> SUFFICES ASSUME Now = "backward", NEW y \in FanIns
               PROVE  x \in tosend[t] /\ (UnsentSolution(y)' <=> UnsentSolution(y) /\ y # x)
    OBVIOUS
  <2>1. x \in tosend[t]
    OBVIOUS
  <2>2. solved["backward"][x[2]] = 1 /\ \A u \in Threads : x \in tosend[u] => u = t
    BY <2>1, SendingTask
  <2>3. CASE y = x
    BY <1>5, <2>2, <2>3 DEF UnsentSolution
  <2>4. CASE y # x
    <3>1. \A u \in Threads : y \in tosend'[u] /\ posted'[u] # y <=> y \in tosend[u] /\ posted[u] # y
      BY <1>4, <1>5, <2>4, FanInFacts
    <3> QED
      BY <2>4, <3>1 DEF UnsentSolution
  <2> QED
    BY <2>1, <2>3, <2>4
<1>13. NewTasks' = NewTasks
  <2>1. Now = "backward" => \A y \in FanIns : Waiting(y)' <=> Waiting(y)
    BY <1>10, <1>11, <1>12 DEF Waiting, Unsent
  <2> QED
    BY <2>1, AheadSame
<1>14. /\ FreshEdges' = FreshEdges /\ LeftEdges' = LeftEdges
       /\ UnsentEdges' = IF Now = "forward" THEN UnsentEdges \ {NextEdge(t)} ELSE UnsentEdges
  <2>1. CASE Now = "forward"
    <3>1. UnsentEdges' = UnsentEdges \ {NextEdge(t)}
      BY <1>2, <1>4, <1>13, <2>1, EdgesPass DEF UnsentEdges
    <3>2. FreshEdges' = FreshEdges /\ LeftEdges' = LeftEdges
      BY <1>2, <1>13, <2>1, EdgesSame DEF FreshEdges, LeftEdges
    <3> QED
      BY <2>1, <3>1, <3>2
  <2>2. CASE Now # "forward"
    <3>1. \A u \in Threads : Unmoved(u)
      BY <1>2, <2>2 DEF Unmoved
    <3> QED
      BY <1>13, <2>2, <3>1, EdgesStay DEF EdgesKept
  <2> QED
    BY <2>1, <2>2
<1>15. \A y \in FanIns : Unsent(y)' <=> Unsent(y) /\ y # x
  <2> SUFFICES ASSUME NEW y \in FanIns PROVE Unsent(y)' <=> Unsent(y) /\ y # x
    OBVIOUS
  <2>1. CASE Now = "backward"
    BY <1>8, <1>12, <2>1 DEF Unsent
  <2>2. CASE Now = "forward"
    <3>1. /\ NextEdge(t) \in Contribs(x) /\ NextEdge(t) \in UnsentEdges /\ NextEdge(t) \notin LeftEdges
          /\ NextEdge(t) \in Edges /\ x = Home(NextEdge(t))
      BY <1>4, <2>2, AtEdge
    <3>2. \A f \in Contribs(x) \cap UnsentEdges : f = NextEdge(t)
      BY <2>2, <3>1 DEF FanInInv
    <3>3. NextEdge(t) \in Contribs(y) => y = x
      BY <2>2, <3>1, EdgeFacts, FanInsLocal
    <3> QED
      BY <1>8, <1>14, <2>2, <3>2, <3>3 DEF Unsent, Contribs
  <2> QED
    BY <2>1, <2>2, NowFacts
<1>16. MessageInv' /\ OnePlaceInv' /\ ComingKept
  BY <1>10, <1>15
<1>17. BegunInv'
  BY <1>3, <1>13, BegunSame
<1>18. \A y \in FanIns : (Coming(y) \/ Taking(y))' <=> (Coming(y) \/ Taking(y))
  BY <1>16 DEF ComingKept
<1>19. IncomingInv' /\ CounterInv' /\ ReadyInv'
  BY <1>1, <1>3, <1>14, <1>16, <1>18, IncomingSame, CounterSame, ReadySame DEF ComingKept
<1>20. GotInv'
  <2>1. \A y \in FanIns : (Coming(y) \/ TakenAt(y, "add"))' <=> (Coming(y) \/ TakenAt(y, "add"))
    BY <1>10, <1>16 DEF ComingKept
  <2> QED
    BY <1>14, <2>1, GotSame
<1>21. QueueInv'
  BY <1>3, <1>10, <1>16, QueueKept
<1>22. \A y \in FanIns : Pending(y)' <=> Pending(y) \/ y = x
  BY <1>4, IsendPending
<1>23. FanInInv'
  <2>1. \A u \in Threads : pc'[u] = "gemm" => pc[u] = "gemm" /\ todo'[u] = todo[u]
    BY <1>2
  <2>2. \A y \in FanIns : Now = "forward" =>
          \A f \in Contribs(y) \cap UnsentEdges' : \A g \in Contribs(y) \cap UnsentEdges' :
              f \notin LeftEdges' => g = f
    BY <1>14 DEF FanInInv
  <2>3. FreshEdges' = FreshEdges /\ UnsentEdges' \subseteq UnsentEdges
    BY <1>14
  <2>4. \A y \in FanIns : Unsent(y)' => Unsent(y)
    BY <1>15
  <2>5. \A y \in FanIns : Unsent(y) \/ Pending(y) => Unsent(y)' \/ Pending(y)'
    BY <1>15, <1>22
  <2> QED
    BY <1>3, <1>11, <2>1, <2>2, <2>3, <2>4, <2>5, FanInKept
<1>24. SendInv'
  <2>1. \A p \in Procs : \A i \in 1 .. Len(reqtab'[p]) :
          \A y \in FanIns : reqtab'[p][i].idx = y => Sender(y)' = p
    BY <1>1, <1>8 DEF SendInv
  <2>2. \A y \in FanIns : Unsent(y)' =>
          /\ \A p \in Procs : \A i \in 1 .. Len(reqtab'[p]) : reqtab'[p][i].idx # y
          /\ \A u \in Threads : posted'[u] # y
    BY <1>1, <1>5, <1>15 DEF SendInv
  <2>3. \A y \in FanIns : recvb'[y] # <<>> => Now' = "backward" /\ Pending(y)'
    BY <1>8, <1>22 DEF SendInv
  <2>4. \A p \in Procs : NotYet(p)' \/ phase'[p] = "barrier" => reqtab'[p] = <<>>
    BY <1>1, <1>3 DEF SendInv, StepsKept
  <2> QED
    BY <2>1, <2>2, <2>3, <2>4 DEF SendInv
<1>25. ~ Dynamic => \A u \in Threads : InOrder(u)'
  <2> SUFFICES ASSUME ~ Dynamic, NEW u \in Threads PROVE InOrder(u)'
    OBVIOUS
  <2>1. /\ pc'[u] = "end" => pc[u] = "end"
        /\ pc'[u] \in Working \cup Looping => pc[u] \in Working \cup Looping
        /\ pc'[u] \in Working <=> pc[u] \in Working
    BY <1>2 DEF Working
  <2> QED
    BY <1>3, <2>1, InOrderSame
<1>26. Dynamic => CountInv'
  <2>1. \A y : DoneTask(y) => DoneTask(y)'
    BY <1>3, <1>13, DoneSame
  <2> QED
    BY <1>3, <2>1, CountSame DEF StepsKept
<1> QED
  BY <1>7, <1>9, <1>16, <1>17, <1>19, <1>20, <1>21, <1>23, <1>24, <1>25, <1>26

LEMMA SendFaninInv == ASSUME SolveInv, NEW t \in Threads, SendFanin(t) PROVE SolveInv'
<1> USE DEF SolveInv
<1> DEFINE x == Target(t)
           e == NextEdge(t)
<1>1. /\ pc[t] = "isend" /\ Goto(t, "register") /\ Isend(t, x, Own[Dst[e]], Dst[e], faninb[x][1])
      /\ UNCHANGED <<ctrbcnt, pos, queue, taskcnt, done, cur>>
      /\ UNCHANGED <<step, phase, todo, tosend, faninb, recvb, solved, got>>
  BY DEF SendFanin, schedVars, solveVars
<1>2. todo[t] # {} /\ tosend[t] = {} /\ x \in FanIns
  BY <1>1 DEF ThreadInv, AtTask
<1>3. /\ e \in Edges /\ x = Home(e) /\ x[1] = ProcOf(t) /\ Now = "forward" /\ e \in Contribs(x)
      /\ e \in UnsentEdges /\ e \notin LeftEdges
  BY <1>1, <1>2, AtEdge
<1>4. Unsent(x)
  BY <1>3 DEF Unsent
<1>5. Sender(x) = ProcOf(t) /\ Receiver(x) = Own[Dst[e]] /\ x[2] = Dst[e]
  BY <1>2, <1>3, RemoteFacts DEF Home
<1>6. faninb[x][1] = Data(x)
  <2>1. \A f \in Contribs(x) \cap UnsentEdges : f = e
    BY <1>2, <1>3 DEF FanInInv
  <2>2. Contribs(x) \ FreshEdges = Contribs(x)
    BY <1>3, <2>1, EdgesNested
  <2>3. Content(x) = Data(x)
    BY <1>2, <1>3, <1>4, <2>2 DEF FanInInv, Data
  <2>4. Data(x) # {}
    BY <1>3 DEF Data
  <2> HIDE DEF x
  <2> QED
    BY <2>3, <2>4 DEF Content
<1>7. recvb' = [y \in FanIns |-> recvb'[y]] /\ \A y \in FanIns : recvb'[y] # <<>> => recvb[y] # <<>>
  BY <1>1 DEF ThreadInv, SolveTypes
<1>8. Isend(t, x, Receiver(x), x[2], Data(x))
  BY <1>1, <1>5, <1>6
<1> QED
  BY <1>1, <1>2, <1>3, <1>4, <1>5, <1>7, <1>8, SendStep

LEMMA SendSolutionInv == ASSUME SolveInv, NEW t \in Threads, SendSolution(t) PROVE SolveInv'
<1> USE DEF SolveInv
<1>1. PICK x \in tosend[t] :
          /\ Isend(t, x, x[1], x[2], Solution(t))
          /\ recvb' = IF CopySent THEN [recvb EXCEPT ![x] = <<Solution(t)>>] ELSE recvb
  BY DEF SendSolution
<1>2. /\ pc[t] = "update" /\ Goto(t, "register")
      /\ UNCHANGED <<ctrbcnt, pos, queue, taskcnt, done, cur>>
      /\ UNCHANGED <<step, phase, todo, tosend, faninb, solved, got>>
  BY DEF SendSolution, schedVars
<1>3. /\ x \in FanIns /\ Now = "backward" /\ cur[t][2] = x[2] /\ ProcOf(t) = Own[x[2]]
  BY SendingTask
<1>4. Sender(x) = ProcOf(t) /\ Receiver(x) = x[1]
  BY <1>3, RemoteFacts
<1>5. Unsent(x)
  <2>1. posted[t] # x
    BY <1>2, <1>3, FanInFacts DEF ThreadInv, AtTask
  <2> QED
    BY <1>3, <2>1 DEF Unsent, UnsentSolution
<1>6. Solution(t) = Data(x)
  <2>1. Solution(t) = {<<Now, cur[t][2]>>}
    BY <1>2, SolutionFacts DEF Working
  <2> QED
    BY <1>3, <2>1 DEF Data
<1>7. /\ recvb' = [y \in FanIns |-> recvb'[y]]
      /\ \A y \in FanIns : recvb'[y] # <<>> => recvb[y] # <<>> \/ (y = x /\ Now = "backward")
  BY <1>1, <1>3 DEF ThreadInv, SolveTypes
<1>8. Isend(t, x, Receiver(x), x[2], Data(x))
  BY <1>1, <1>4, <1>6
<1> QED
  BY <1>2, <1>3, <1>4, <1>5, <1>7, <1>8, SendStep

LEMMA RegisterSentInv == ASSUME SolveInv, NEW t \in Threads, RegisterSent(t) PROVE SolveInv'
<1> USE DEF SolveInv
<1> DEFINE e == NextEdge(t)
           x == posted[t]
<1>1. /\ pc[t] = "register" /\ Register(t) /\ Goto(t, "update")
      /\ UNCHANGED <<ctrbcnt, pos, queue, taskcnt, done, cur>>
      /\ UNCHANGED <<step, phase, faninb, recvb, solved, got>>
  BY DEF RegisterSent, schedVars
<1>2. /\ UNCHANGED <<incoming, outgoing, held, recvreq, rcoeftab, net>>
      /\ posted' = [posted EXCEPT ![t] = NoIdx]
      /\ reqtab' = [reqtab EXCEPT ![ProcOf(t)] = Append(@, Request(x))]
  BY <1>1 DEF Register, threadVars, mpiVars
<1>3. /\ pc[t] \in Working /\ step[ProcOf(t)] = Now /\ phase[ProcOf(t)] = "tasks" /\ ProcOf(t) \in Procs
      /\ Forward(ProcOf(t)) <=> Now = "forward"
  BY <1>1, ThreadFacts, NowFacts DEF ThreadInv, Placed, Working
<1>4. /\ Now = "forward" => /\ todo[t] # {} /\ tosend[t] = {} /\ x = Target(t) /\ x \in FanIns
                            /\ todo' = [todo EXCEPT ![t] = @ \ {e}] /\ UNCHANGED tosend
      /\ Now # "forward" => /\ x \in tosend[t] /\ UNCHANGED todo
                            /\ tosend' = [tosend EXCEPT ![t] = @ \ {x}]
  BY <1>1, <1>3 DEF ThreadInv, AtTask, RegisterSent
<1>5. x \in FanIns /\ x # NoIdx /\ Sender(x) = ProcOf(t)
  <2>1. CASE Now = "forward"
    BY <1>4, <2>1, AtEdge, RemoteFacts, FanInFacts
  <2>2. CASE Now # "forward"
    <3>1. x \in FanIns /\ Now = "backward" /\ ProcOf(t) = Own[x[2]]
      BY <1>4, <2>2, SendingTask
    <3> QED
      BY <3>1, RemoteFacts, FanInFacts
  <2> QED
    BY <2>1, <2>2
<1>6. pc'[t] = "update" /\ (\A u \in Threads : u # t => pc'[u] = pc[u]) /\ pc' = [u \in Threads |-> pc'[u]]
  BY <1>1, GotoFacts
<1>7. posted'[t] = NoIdx /\ \A u \in Threads : u # t => posted'[u] = posted[u]
  BY <1>2 DEF EngineInv, EngineTypes
<1>8. /\ todo' \in [Threads -> SUBSET Edges] /\ tosend' \in [Threads -> SUBSET FanIns]
      /\ todo'[t] \subseteq todo[t] /\ tosend'[t] \subseteq tosend[t]
      /\ \A u \in Threads : u # t => todo'[u] = todo[u] /\ tosend'[u] = tosend[u]
      /\ Now # "forward" => tosend'[t] = tosend[t] \ {x}
  <2>1. todo \in [Threads -> SUBSET Edges] /\ tosend \in [Threads -> SUBSET FanIns]
    BY DEF ThreadInv, SolveTypes
  <2> HIDE DEF e, x
  <2> QED
    BY <1>4, <2>1
<1>9. ThreadInv'
  <2>1. SolveTypes' /\ StepsInv'
    BY <1>1, <1>6, <1>8, StepsSame DEF ThreadInv, SolveTypes
  <2> QED
    BY <1>1, <1>3, <1>7, <1>8, <2>1, ThreadUpdates
<1>10. EngineInv'
  BY <1>1, <1>5, RegisterInv DEF Communicating
<1>11. LabelsKept /\ TasksKept /\ StepsKept
  BY <1>1, WorkLabels, StepsKeptSame DEF Working
<1>12. MessagesKept
  BY <1>2 DEF MessagesKept, BufferFull
<1>13. \A y \in FanIns : UnsentSolution(y)' <=> UnsentSolution(y)
  <2> SUFFICES ASSUME NEW y \in FanIns PROVE UnsentSolution(y)' <=> UnsentSolution(y)
    OBVIOUS
  <2>1. y # NoIdx
    BY FanInFacts
  <2>2. \A u \in Threads : y \in tosend'[u] /\ posted'[u] # y <=> y \in tosend[u] /\ posted[u] # y
    <3>1. CASE Now = "forward"
      BY <1>4, <1>7, <2>1, <3>1
    <3>2. CASE Now # "forward"
      BY <1>7, <1>8, <2>1, <3>2
    <3> QED
      BY <3>1, <3>2
  <2> QED
    BY <1>1, <2>2 DEF UnsentSolution
<1>14. \A y \in FanIns : Queued(y)' <=> Queued(y)
  BY <1>1 DEF Queued
<1>15. NewTasks' = NewTasks
  <2>1. \A y \in FanIns : Waiting(y)' <=> Waiting(y)
    BY <1>1, <1>11, <1>12, <1>13, <1>14, PlacesSame DEF Waiting
  <2> QED
    BY <1>1, <2>1, AheadSame
<1>16. EdgesKept
  <2>1. CASE Now = "forward"
    <3>1. e \notin UnsentEdges /\ LeftEdges \subseteq UnsentEdges /\ FreshEdges \subseteq LeftEdges
      BY <1>1, <1>4, <2>1, AtEdge, EdgesNested
    <3>2. /\ FreshEdges' = FreshEdges \ {e} /\ LeftEdges' = LeftEdges \ {e}
          /\ UnsentEdges' = UnsentEdges \ {e}
      BY <1>1, <1>4, <1>6, <1>15, <2>1, EdgesDrop DEF LeftEdges, UnsentEdges, FreshEdges
    <3> HIDE DEF e
    <3> QED
      BY <3>1, <3>2 DEF EdgesKept
  <2>2. CASE Now # "forward"
    <3>1. ASSUME NEW L, "update" \in L PROVE EdgesBefore(L)' = EdgesBefore(L)
      <4>1. \A u \in Threads : (pc'[u] \in L \/ tosend'[u] # {} <=> pc[u] \in L \/ tosend[u] # {})
        BY <1>4, <1>6, <1>8, <2>2, <3>1
      <4> QED
        BY <1>1, <1>4, <1>15, <2>2, <4>1, EdgesSame
    <3> QED
      BY <3>1 DEF EdgesKept, FreshEdges, LeftEdges, UnsentEdges
  <2> QED
    BY <2>1, <2>2
<1>17. UnsentKept
  BY <1>1, <1>13, <1>16, UnsentSame DEF EdgesKept
<1>18. MessageInv' /\ OnePlaceInv' /\ ComingKept
  BY <1>1, <1>11, <1>12, <1>17, MessageSame
<1>19. BegunInv'
  BY <1>11, <1>15, BegunSame
<1>20. \A y \in FanIns : (Coming(y) \/ Taking(y))' <=> (Coming(y) \/ Taking(y))
  BY <1>18 DEF ComingKept
<1>21. IncomingInv' /\ CounterInv' /\ ReadyInv'
  BY <1>1, <1>2, <1>11, <1>16, <1>18, <1>20, IncomingSame, CounterSame, ReadySame DEF ComingKept, EdgesKept
<1>22. \A y \in FanIns : /\ TakenAt(y, "add")' <=> TakenAt(y, "add")
                         /\ TakenAt(y, "store")' <=> TakenAt(y, "store")
  BY <1>1, <1>11, <1>12, PlacesSame
<1>23. GotInv'
  <2>1. \A y \in FanIns : (Coming(y) \/ TakenAt(y, "add"))' <=> (Coming(y) \/ TakenAt(y, "add"))
    BY <1>18, <1>22 DEF ComingKept
  <2> QED
    BY <1>1, <1>16, <2>1, GotSame DEF EdgesKept
<1>24. QueueInv'
  BY <1>1, <1>11, <1>18, <1>22, QueueKept
<1>25. /\ \A q \in Procs : \A i \in 1 .. Len(reqtab'[q]) :
              \/ q = ProcOf(t) /\ reqtab'[q][i].idx = x
              \/ \E j \in 1 .. Len(reqtab[q]) : reqtab'[q][i].idx = reqtab[q][j].idx
       /\ \A y \in FanIns : Pending(y)' <=> Pending(y)
  BY <1>1, <1>5, RegisterPending
<1>26. FanInInv'
  <2>1. \A u \in Threads : pc'[u] = "gemm" => pc[u] = "gemm" /\ todo'[u] = todo[u]
    BY <1>6, <1>8
  <2> QED
    BY <1>1, <1>11, <1>14, <1>16, <1>17, <1>25, <2>1, FanInSame
<1>27. SendInv'
  <2>1. Now' = Now /\ \A y : Sender(y)' = Sender(y)
    BY <1>1, NowSame
  <2>2. \A p \in Procs : \A i \in 1 .. Len(reqtab'[p]) :
          \A y \in FanIns : reqtab'[p][i].idx = y => Sender(y)' = p
    BY <1>5, <1>25, <2>1 DEF SendInv
  <2>3. ASSUME NEW y \in FanIns, Unsent(y)'
        PROVE  /\ \A p \in Procs : \A i \in 1 .. Len(reqtab'[p]) : reqtab'[p][i].idx # y
               /\ \A u \in Threads : posted'[u] # y
    <3>1. Unsent(y)
      BY <1>17, <2>3 DEF UnsentKept
    <3>2. y # x /\ y # NoIdx
      BY <3>1, FanInFacts DEF SendInv
    <3>3. \A u \in Threads : posted'[u] # y
      BY <1>7, <3>1, <3>2 DEF SendInv
    <3> HIDE DEF x
    <3>4. \A p \in Procs : \A i \in 1 .. Len(reqtab'[p]) : reqtab'[p][i].idx # y
      BY <1>25, <3>1, <3>2 DEF SendInv
    <3> QED
      BY <3>3, <3>4
  <2>4. \A y \in FanIns : recvb'[y] # <<>> => Now' = "backward" /\ Pending(y)'
    BY <1>1, <1>25, <2>1 DEF SendInv
  <2>5. \A p \in Procs : NotYet(p)' \/ phase'[p] = "barrier" => reqtab'[p] = <<>>
    <3>1. \A p \in Procs : p # ProcOf(t) => reqtab'[p] = reqtab[p]
      BY <1>2 DEF EngineInv, EngineTypes
    <3>2. ~ NotYet(ProcOf(t))
      BY <1>3 DEF NotYet
    <3> QED
      BY <1>1, <1>3, <1>11, <3>1, <3>2 DEF SendInv, StepsKept
  <2> QED
    BY <2>2, <2>3, <2>4, <2>5 DEF SendInv
<1>28. ~ Dynamic => \A u \in Threads : InOrder(u)'
  <2> SUFFICES ASSUME ~ Dynamic, NEW u \in Threads PROVE InOrder(u)'
    OBVIOUS
  <2>1. /\ pc'[u] = "end" => pc[u] = "end"
        /\ pc'[u] \in Working \cup Looping => pc[u] \in Working \cup Looping
        /\ pc'[u] \in Working <=> pc[u] \in Working
    BY <1>3, <1>6 DEF Working
  <2> QED
    BY <1>1, <1>11, <2>1, InOrderSame DEF TasksKept
<1>29. Dynamic => CountInv'
  <2>1. \A y : DoneTask(y) => DoneTask(y)'
    BY <1>11, <1>15, DoneSame
  <2> QED
    BY <1>1, <1>11, <2>1, CountSame DEF StepsKept
<1> QED
  BY <1>9, <1>10, <1>18, <1>19, <1>21, <1>23, <1>24, <1>26, <1>27, <1>28, <1>29

-----------------------------------------------------------------------------
(* A message was used, and a task ends.                                    *)

Holds(t, x) == Receiver(x) = ProcOf(t) /\ held[t] = Msg(x)

(* A thread that holds a message is the only one of its process.           *)
LEMMA HoldsAlone ==
    ASSUME SolveInv, NEW t \in Threads, held[t] # NoMsg
    PROVE  /\ \A y \in FanIns : Taking(y) /\ Receiver(y) = ProcOf(t) => Holds(t, y)
           /\ \A y \in FanIns : \A l : TakenAt(y, l) /\ Receiver(y) = ProcOf(t) => Holds(t, y) /\ pc[t] = l
           /\ \A u \in ThreadsOf(ProcOf(t)) : u # t => held[u] = NoMsg
<1>1. Elected(t)
  BY DEF Elected
<1>2. \A u \in ThreadsOf(ProcOf(t)) : u # t => held[u] = NoMsg
  BY <1>1, Alone DEF SolveInv
<1>3. \A y \in FanIns : Msg(y) # NoMsg
  BY RemoteFacts
<1> QED
  BY <1>2, <1>3 DEF Taking, TakenAt, Holds

LEMMA DroppedMessage ==
    ASSUME SolveInv, UNCHANGED <<step, cur>>, NEW t \in Threads, DropMessage(t), held[t] # NoMsg
    PROVE  /\ \A y \in FanIns :
                 /\ (InNet(y)' <=> InNet(y)) /\ (InBuffer(y)' <=> InBuffer(y))
                 /\ Taking(y)' <=> Taking(y) /\ ~ Holds(t, y)
                 /\ TakenAt(y, "add")' <=> TakenAt(y, "add") /\ ~ (pc[t] = "add" /\ Holds(t, y))
                 /\ TakenAt(y, "store")' <=> TakenAt(y, "store") /\ ~ (pc[t] = "store" /\ Holds(t, y))
           /\ MessageInv'
           /\ UnsentKept => OnePlaceInv' /\ \A y \in FanIns : Coming(y)' <=> Coming(y)
<1> USE DEF SolveInv
<1>1. /\ UNCHANGED <<recvreq, rcoeftab, net>>
      /\ pc'[t] = "handle" /\ \A u \in Threads : u # t => pc'[u] = pc[u]
      /\ held'[t] = NoMsg /\ \A u \in Threads : u # t => held'[u] = held[u]
  BY GotoFacts DEF DropMessage, mpiVars, EngineInv, EngineTypes
<1>2. /\ \A y : Msg(y)' = Msg(y) /\ Sender(y)' = Sender(y) /\ Receiver(y)' = Receiver(y)
      /\ \A y \in FanIns : Receiver(y) \in Procs /\ ThreadsOf(Receiver(y)) \subseteq Threads /\ Msg(y) # NoMsg
  BY NowSame, RemoteFacts, ThreadFacts
<1>3. \A y \in FanIns : \A u \in Threads : u \in ThreadsOf(Receiver(y)) <=> ProcOf(u) = Receiver(y)
  BY <1>2, ThreadFacts
<1>4. ASSUME NEW y \in FanIns
      PROVE  /\ (InNet(y)' <=> InNet(y)) /\ (InBuffer(y)' <=> InBuffer(y)) /\ Channel(y)' = Channel(y)
             /\ Taking(y)' <=> Taking(y) /\ ~ Holds(t, y)
             /\ TakenAt(y, "add")' <=> TakenAt(y, "add") /\ ~ (pc[t] = "add" /\ Holds(t, y))
             /\ TakenAt(y, "store")' <=> TakenAt(y, "store") /\ ~ (pc[t] = "store" /\ Holds(t, y))
  <2>1. Channel(y)' = Channel(y)
    BY <1>1, <1>2 DEF Channel
  <2>2. (InNet(y)' <=> InNet(y)) /\ (InBuffer(y)' <=> InBuffer(y))
    BY <1>1, <1>2, <2>1 DEF InNet, InBuffer, BufferFull
  <2>3. \A u \in ThreadsOf(Receiver(y)) : held'[u] = Msg(y) <=> held[u] = Msg(y) /\ u # t
    BY <1>1, <1>2
  <2>4. Taking(y)' <=> \E u \in ThreadsOf(Receiver(y)) : held[u] = Msg(y) /\ u # t
    BY <1>2, <2>3 DEF Taking
  <2>5. \A l : TakenAt(y, l) <=> \E u \in ThreadsOf(Receiver(y)) : held[u] = Msg(y) /\ pc[u] = l
    BY DEF TakenAt
  <2>6. /\ TakenAt(y, "add")' <=> \E u \in ThreadsOf(Receiver(y)) : held[u] = Msg(y) /\ u # t /\ pc[u] = "add"
        /\ TakenAt(y, "store")' <=> \E u \in ThreadsOf(Receiver(y)) : held[u] = Msg(y) /\ u # t /\ pc[u] = "store"
    BY <1>1, <1>2, <2>3 DEF TakenAt
  <2>7. CASE Receiver(y) = ProcOf(t)
    <3>1. \A u \in ThreadsOf(Receiver(y)) : u # t => held[u] # Msg(y)
      BY <1>2, <2>7, HoldsAlone
    <3>2. t \in ThreadsOf(Receiver(y))
      BY <2>7, ThreadFacts
    <3> QED
      BY <2>1, <2>2, <2>4, <2>5, <2>6, <2>7, <3>1, <3>2 DEF Taking, Holds
  <2>8. CASE Receiver(y) # ProcOf(t)
    <3>1. t \notin ThreadsOf(Receiver(y))
      BY <1>3, <2>8
    <3> QED
      BY <2>1, <2>2, <2>4, <2>5, <2>6, <2>8, <3>1 DEF Taking, Holds
  <2> QED
    BY <2>7, <2>8
<1>5. MessageInv'
  <2>1. \A u \in Threads : u # t => (Holding(u)' <=> Holding(u)) /\ held'[u] = held[u]
    BY <1>1 DEF Holding
  <2>2. ~ Holding(t)'
    BY <1>1 DEF Holding, Working
  <2>3. \A u \in Threads : held'[u] # NoMsg <=> Holding(u)'
    BY <1>1, <2>1, <2>2 DEF MessageInv
  <2>4. {Msg(y) : y \in FanIns}' = {Msg(y) : y \in FanIns}
    BY <1>2
  <2>5. \A q, p \in Procs :
          /\ net'[<<q, p>>] \in Seq({Msg(y) : y \in FanIns}')
          /\ \A i \in 1 .. Len(net'[<<q, p>>]) :
                \E y \in FanIns : Sender(y)' = q /\ Receiver(y)' = p /\ net'[<<q, p>>][i] = Msg(y)'
    BY <1>1, <1>2, <2>4 DEF MessageInv
  <2>6. \A p \in Procs : BufferFull(p)' => \E y \in FanIns : Receiver(y)' = p /\ rcoeftab'[p] = Msg(y)'
    BY <1>1, <1>2 DEF MessageInv, BufferFull
  <2>7. \A u \in Threads : held'[u] # NoMsg => \E y \in FanIns : Receiver(y)' = ProcOf(u) /\ held'[u] = Msg(y)'
    BY <1>1, <1>2 DEF MessageInv
  <2>8. \A u \in Threads : \A y \in FanIns : pc'[u] \in Working /\ cur'[u] = y /\ ~ Dynamic => held'[u] = Msg(y)'
    BY <1>1, <1>2 DEF MessageInv, Working
  <2> QED
    BY <2>3, <2>5, <2>6, <2>7, <2>8 DEF MessageInv
<1>6. ASSUME UnsentKept PROVE OnePlaceInv' /\ \A y \in FanIns : Coming(y)' <=> Coming(y)
  <2>1. OnePlaceInv'
    BY <1>2, <1>4, <1>6 DEF OnePlaceInv, UnsentKept
  <2> QED
    BY <1>4, <1>6, <2>1 DEF Coming, UnsentKept
<1> QED
  BY <1>4, <1>5, <1>6

(* What is left to show of the fan-ins, in each step.                      *)
LEMMA FanInForward ==
    ASSUME Now' = Now, Now = "forward",
           \A t \in Threads : pc'[t] = "gemm" => faninb'[Target(t)'] # <<>>,
           \A x \in FanIns : Unsent(x)' =>
              Content(x)' = {<<"forward", e>> : e \in Contribs(x) \ FreshEdges'},
           \A x \in FanIns : \A e \in Contribs(x) \cap UnsentEdges' : \A f \in Contribs(x) \cap UnsentEdges' :
              e \notin LeftEdges' => f = e,
           \A x \in FanIns : faninb'[x] # <<>> => Unsent(x)' \/ Pending(x)',
           \A t \in Threads : \A x \in FanIns : ~ (pc'[t] \in Working /\ cur'[t] = x)
    PROVE  FanInInv'
BY DEF FanInInv, Contribs

LEMMA FanInBackward ==
    ASSUME Now' = Now, Now # "forward", \A x : Data(x)' = Data(x),
           \A t \in Threads : pc'[t] = "gemm" => faninb'[Target(t)'] # <<>>,
           \A x \in FanIns : faninb'[x] # <<>> =>
              Queued(x)' \/ \E t \in Threads : pc'[t] \in Working /\ cur'[t] = x,
           \A t \in Threads : \A x \in FanIns : pc'[t] \in Working /\ cur'[t] = x => faninb'[x] = <<Data(x)>>
    PROVE  FanInInv'
<1>1. \A t \in Threads : \A x \in FanIns : pc'[t] \in Working /\ cur'[t] = x => faninb'[x] = <<Data(x)'>>
  OBVIOUS
<1> QED
  BY <1>1 DEF FanInInv

LEMMA EndStep ==
    ASSUME SolveInv, EngineInv', NEW t \in Threads, NEW l, Goto(t, l),
           pc[t] = "update", todo[t] = {}, tosend[t] = {},
           l \in {"pop", "wait", "end", "handle"}, l = "pop" => Dynamic, l \in {"wait", "end"} => ~ Dynamic,
           UNCHANGED <<step, phase, todo, tosend, recvb, solved, got>>,
           UNCHANGED <<ctrbcnt, queue, taskcnt, cur, incoming, posted>>,
           pos' \in [Threads -> Nat], done' \in [Threads -> Nat],
           faninb' = IF cur[t] \in FanIns THEN [faninb EXCEPT ![cur[t]] = <<>>] ELSE faninb,
           TablesShrink, \A y \in FanIns : Pending(y)' <=> Pending(y),
           \A y \in FanIns : /\ (InNet(y)' <=> InNet(y)) /\ (InBuffer(y)' <=> InBuffer(y))
                             /\ (Now = "forward" => (Taking(y)' <=> Taking(y)))
                             /\ (TakenAt(y, "add")' <=> TakenAt(y, "add"))
                             /\ (TakenAt(y, "store")' <=> TakenAt(y, "store")),
           UnsentKept => MessageInv' /\ OnePlaceInv' /\ \A y \in FanIns : Coming(y)' <=> Coming(y)
    PROVE  /\ NewTasks' = NewTasks
           /\ (~ Dynamic => \A u \in Threads : InOrder(u)') /\ (Dynamic => CountInv') => SolveInv'
<1> USE DEF SolveInv
<1>1. pc'[t] = l /\ (\A u \in Threads : u # t => pc'[u] = pc[u]) /\ pc' = [u \in Threads |-> pc'[u]]
  BY GotoFacts
<1>2. cur[t] \in FanIns => Now = "backward"
  BY DEF ThreadInv, AtTask, Working
<1>3. \A y \in FanIns : faninb'[y] = IF y = cur[t] THEN <<>> ELSE faninb[y]
  BY DEF ThreadInv, SolveTypes
<1>4. ThreadInv'
  <2>1. SolveTypes' /\ StepsInv'
    <3>1. faninb' = [y \in FanIns |-> faninb'[y]]
      BY DEF ThreadInv, SolveTypes
    <3> QED
      BY <1>1, <3>1, StepsSame DEF ThreadInv, SolveTypes
  <2>2. \A p \in Procs : taskcnt'[p] <= taskcnt[p]
    BY DEF ThreadInv, SolveTypes
  <2>3. l \in Looping \cup {"end"}
    BY DEF Looping
  <2> QED
    BY <2>1, <2>2, <2>3, ThreadLoops DEF taskVars
<1>5. StepsKept
  BY StepsKeptSame
<1>6. \A y \in FanIns : UnsentSolution(y)' <=> UnsentSolution(y)
  BY UnsentSolutionSame
<1>7. \A y \in FanIns : Queued(y)' <=> Queued(y)
  BY DEF Queued
<1>8. NewTasks' = NewTasks
  <2>1. \A y \in FanIns : Waiting(y)' <=> Waiting(y)
    BY <1>6, <1>7 DEF Waiting
  <2> QED
    BY <2>1, AheadSame
<1>9. EdgesKept
  <2>1. \A u \in Threads : Unmoved(u)
    BY <1>1 DEF Unmoved
  <2> QED
    BY <1>8, <2>1, EdgesStay
<1>10. UnsentKept
  BY <1>6, <1>9, UnsentSame DEF EdgesKept
<1>11. MessageInv' /\ OnePlaceInv' /\ \A y \in FanIns : Coming(y)' <=> Coming(y)
  BY <1>10
<1>12. /\ \A u \in Threads : pc'[u] \in Working <=> pc[u] \in Working /\ u # t
       /\ pc[t] \in Working
  BY <1>1 DEF Working
<1>13. BegunInv'
  BY <1>8, <1>12 DEF BegunInv
<1>14. IncomingInv'
  BY <1>5, <1>11, IncomingSame
<1>15. CounterInv' /\ ReadyInv'
  <2>1. Now = "forward" => \A y \in FanIns : (Coming(y) \/ Taking(y))' <=> (Coming(y) \/ Taking(y))
    BY <1>11
  <2>2. Now = "forward" => \A y \in FanIns : (Coming(y) \/ Taking(y))' => (Coming(y) \/ Taking(y))
    BY <1>11
  <2> QED
    BY <1>5, <1>9, <2>1, <2>2, CounterSame, ReadySame DEF EdgesKept
<1>16. GotInv'
  <2>1. \A y \in FanIns : (Coming(y) \/ TakenAt(y, "add"))' <=> (Coming(y) \/ TakenAt(y, "add"))
    BY <1>11
  <2> QED
    BY <1>9, <2>1, GotSame DEF EdgesKept
<1>17. SendInv'
  <2>1. EngineTypes'
    BY DEF EngineInv
  <2> QED
    BY <1>5, <1>10, <2>1, SendKept DEF StepsKept
<1>18. QueueInv'
  <2>1. \A u \in Threads : \A y \in queue'[u] :
              /\ y \notin FanIns => solved'[Now][y[2]] = 0 /\ ctrbcnt'[y] = 0
              /\ y \in FanIns => /\ ~ Coming(y)' /\ ~ TakenAt(y, "store")' /\ faninb'[y] = faninb[y]
                                 /\ \A v \in Threads : pc'[v] \in Working => cur'[v] # y
    BY <1>3, <1>11, <1>12 DEF QueueInv
  <2> QED
    BY <1>5, <2>1, QueueSame DEF StepsKept
<1>19. FanInInv'
  <2>1. Now' = Now /\ \A y : Data(y)' = Data(y)
    BY NowSame
  <2>2. ASSUME NEW u \in Threads, pc'[u] = "gemm" PROVE faninb'[Target(u)'] # <<>>
    <3>1. u # t /\ pc[u] = "gemm" /\ Target(u)' = Target(u)
      BY <1>1, <2>2, NextSame
    <3>2. todo[u] # {} /\ Target(u) \in FanIns /\ faninb[Target(u)] # <<>>
      BY <3>1 DEF ThreadInv, AtTask, FanInInv
    <3>3. Now = "forward"
      BY <3>2, AtEdge
    <3> QED
      BY <1>2, <1>3, <3>1, <3>2, <3>3
  <2>3. \A y \in FanIns : Now = "forward" => faninb'[y] = faninb[y] /\ Content(y)' = Content(y)
    BY <1>2, <1>3 DEF Content
  <2>4. \A y \in FanIns : Now = "forward" /\ Unsent(y)' =>
          Content(y)' = {<<"forward", e>> : e \in Contribs(y) \ FreshEdges'}
    BY <1>9, <1>10, <2>3 DEF FanInInv, EdgesKept, UnsentKept
  <2>5. \A y \in FanIns : Now = "forward" =>
          \A e \in Contribs(y) \cap UnsentEdges' : \A f \in Contribs(y) \cap UnsentEdges' :
              e \notin LeftEdges' => f = e
    BY <1>9 DEF FanInInv, EdgesKept
  <2>6. \A y \in FanIns : faninb'[y] # <<>> =>
          IF Now = "forward" THEN Unsent(y)' \/ Pending(y)'
          ELSE Queued(y)' \/ \E u \in Threads : pc'[u] \in Working /\ cur'[u] = y
    <3> SUFFICES ASSUME NEW y \in FanIns, faninb'[y] # <<>>
                 PROVE  IF Now = "forward" THEN Unsent(y)' \/ Pending(y)'
                        ELSE Queued(y)' \/ \E u \in Threads : pc'[u] \in Working /\ cur'[u] = y
      OBVIOUS
    <3>1. y # cur[t] /\ faninb[y] # <<>>
      BY <1>3
    <3>2. CASE Now = "forward"
      BY <1>10, <3>1, <3>2 DEF FanInInv, UnsentKept
    <3>3. CASE Now # "forward"
      <4>1. Queued(y) \/ \E u \in Threads : pc[u] \in Working /\ cur[u] = y
        BY <3>1, <3>3 DEF FanInInv
      <4> QED
        BY <1>7, <1>12, <3>1, <3>3, <4>1
    <3> QED
      BY <3>2, <3>3
  <2>7. \A u \in Threads : \A y \in FanIns : pc'[u] \in Working /\ cur'[u] = y => faninb'[y] = <<Data(y)>>
    <3> SUFFICES ASSUME NEW u \in Threads, NEW y \in FanIns, pc'[u] \in Working, cur'[u] = y
                 PROVE  faninb'[y] = <<Data(y)>>
      OBVIOUS
    <3>1. pc[u] \in Working /\ u # t /\ cur[u] = y
      BY <1>12
    <3>2. y # cur[t]
      BY <1>12, <3>1 DEF ThreadInv, OneThread
    <3>3. faninb[y] = <<Data(y)>>
      BY <3>1 DEF FanInInv
    <3> QED
      BY <1>3, <3>2, <3>3
  <2>8. CASE Now = "forward"
    <3>1. \A y \in FanIns : Unsent(y)' =>
            Content(y)' = {<<"forward", e>> : e \in Contribs(y) \ FreshEdges'}
      BY <2>4, <2>8
    <3>2. \A y \in FanIns :
            \A e \in Contribs(y) \cap UnsentEdges' : \A f \in Contribs(y) \cap UnsentEdges' :
              e \notin LeftEdges' => f = e
      BY <2>5, <2>8
    <3>3. \A y \in FanIns : faninb'[y] # <<>> => Unsent(y)' \/ Pending(y)'
      BY <2>6, <2>8
    <3>4. \A u \in Threads : \A y \in FanIns : ~ (pc'[u] \in Working /\ cur'[u] = y)
      BY <1>4, <2>1, <2>8, NowFacts DEF ThreadInv, AtTask
    <3> QED
      BY <2>1, <2>2, <2>8, <3>1, <3>2, <3>3, <3>4, FanInForward
  <2>9. CASE Now # "forward"
    <3>1. \A y \in FanIns : faninb'[y] # <<>> =>
             Queued(y)' \/ \E u \in Threads : pc'[u] \in Working /\ cur'[u] = y
      BY <2>6, <2>9
    <3> QED
      BY <2>1, <2>2, <2>7, <2>9, <3>1, FanInBackward
  <2> QED
    BY <2>8, <2>9
<1> QED
  BY <1>4, <1>8, <1>11, <1>13, <1>14, <1>15, <1>16, <1>17, <1>18, <1>19

(* dynamic: the task is counted in local_taskcnt.                          *)
LEMMA EndCount ==
    ASSUME SolveInv, CountInv, NEW t \in Threads, NewTasks' = NewTasks, UNCHANGED <<step, phase, taskcnt, cur>>,
           pc[t] \in Working, pc'[t] \notin Working, \A u \in Threads : u # t => pc'[u] = pc[u],
           done' = [done EXCEPT ![t] = @ + 1]
    PROVE  CountInv'
<1> USE DEF SolveInv
<1>1. PICK F \in [Threads -> SUBSET Local], G \in SUBSET Local : Counts(F, G)
  BY DEF CountInv
<1>2. PICK x \in Local : x = cur[t]
  BY DEF ThreadInv, AtTask
<1>3. /\ x[1] = ProcOf(t) /\ (x \in FanIns => Now = "backward") /\ x \notin NewTasks
      /\ step[ProcOf(t)] = Now /\ phase[ProcOf(t)] = "tasks"
  BY <1>2 DEF ThreadInv, AtTask, Placed, BegunInv
<1>4. x \in TasksOf(ProcOf(t)) /\ ~ NotYet(ProcOf(t)) /\ ProcOf(t) \in Procs /\ ~ DoneTask(x)
  BY <1>2, <1>3, ThreadFacts DEF TasksOf, NotYet, DoneTask
<1>5. \A u \in Threads : x \notin F[u]
  BY <1>1, <1>4 DEF Counts
<1>6. x \notin G
  BY <1>1, <1>4 DEF Counts
<1> DEFINE H == [F EXCEPT ![t] = @ \cup {x}]
<1>7. H \in [Threads -> SUBSET Local] /\ H[t] = F[t] \cup {x} /\ \A u \in Threads : u # t => H[u] = F[u]
  OBVIOUS
<1>8. Now' = Now /\ (\A p \in Procs : NotYet(p)' <=> NotYet(p)) /\ \A p : TasksOf(p)' = TasksOf(p)
  <2>1. Now' = Now
    BY NowSame
  <2> QED
    BY <2>1 DEF NotYet, TasksOf
<1>9. \A y : DoneTask(y) => DoneTask(y)'
  BY DEF DoneTask
<1>10. DoneTask(x)'
  <2>1. \A u \in Threads : pc'[u] \in Working => cur'[u] # x
    BY <1>2 DEF ThreadInv, OneThread
  <2> QED
    BY <1>3, <2>1 DEF DoneTask
<1>11. Cardinality(F[t] \cup {x}) = Cardinality(F[t]) + 1
  <2>1. IsFiniteSet(F[t])
    BY LocalFinite
  <2> QED
    BY <1>5, <2>1, FS_AddElement
<1>12. done'[t] = done[t] + 1 /\ \A u \in Threads : u # t => done'[u] = done[u]
  BY DEF ThreadInv, SolveTypes
<1> HIDE DEF H
<1>13. ASSUME NEW u \in Threads
       PROVE  /\ H[u] \subseteq TasksOf(ProcOf(u))' /\ H[u] \cap G = {}
              /\ done'[u] = Cardinality(H[u]) /\ \A y \in H[u] : DoneTask(y)'
              /\ \A v \in Threads : v # u => H[u] \cap H[v] = {}
  <2>0. /\ F[u] \subseteq TasksOf(ProcOf(u)) /\ F[u] \cap G = {} /\ done[u] = Cardinality(F[u])
        /\ \A y \in F[u] : DoneTask(y)
        /\ \A v \in Threads : v # u => F[u] \cap F[v] = {}
    BY <1>1 DEF Counts
  <2>1. H[u] \subseteq TasksOf(ProcOf(u))' /\ H[u] \cap G = {}
    BY <1>4, <1>6, <1>7, <1>8, <2>0
  <2>2. done'[u] = Cardinality(H[u])
    BY <1>7, <1>11, <1>12, <2>0
  <2>3. \A y \in H[u] : DoneTask(y)'
    BY <1>7, <1>9, <1>10, <2>0
  <2>4. \A v \in Threads : v # u => H[u] \cap H[v] = {}
    BY <1>5, <1>7, <2>0
  <2> QED
    BY <2>1, <2>2, <2>3, <2>4
<1>14. ASSUME NEW p \in Procs, ~ NotYet(p)'
       PROVE  /\ \A y \in TasksOf(p)' \cap G : DoneTask(y)'
              /\ taskcnt'[p] = Cardinality(TasksOf(p)' \ G)
  BY <1>1, <1>8, <1>9, <1>14 DEF Counts
<1>15. Counts(H, G)'
  BY <1>13, <1>14 DEF Counts
<1> QED
  BY <1>7, <1>15 DEF CountInv

LEMMA EndSolveInv == ASSUME SolveInv, NEW t \in Threads, EndSolve(t) PROVE SolveInv'
<1> USE DEF SolveInv
<1>1. /\ pc[t] = "update" /\ todo[t] = {} /\ tosend[t] = {}
      /\ faninb' = IF cur[t] \in FanIns THEN [faninb EXCEPT ![cur[t]] = <<>>] ELSE faninb
      /\ UNCHANGED <<step, phase, todo, tosend, recvb, solved, got>>
  BY DEF EndSolve
<1>2. pc[t] \in Working /\ pc[t] \notin Communicating
  BY <1>1 DEF Working, Communicating
<1>3. CASE held[t] = NoMsg /\ EndTask(t) /\ UNCHANGED engineVars
  <2> DEFINE l == IF Dynamic THEN "pop" ELSE Fetch(t, pos[t] + 1)
  <2>1. /\ UNCHANGED <<reqtab, incoming, outgoing, posted, indexes, held, recvreq, rcoeftab, net>>
        /\ UNCHANGED <<ctrbcnt, queue, taskcnt, cur>>
    BY <1>3 DEF engineVars, tableVars, threadVars, mpiVars, EndTask
  <2>2. /\ Goto(t, l) /\ l \in {"pop", "wait", "end"}
        /\ l = "pop" => Dynamic
        /\ l \in {"wait", "end"} => ~ Dynamic
        /\ Dynamic => done' = [done EXCEPT ![t] = @ + 1] /\ UNCHANGED pos
        /\ ~ Dynamic => pos' = [pos EXCEPT ![t] = @ + 1] /\ UNCHANGED done
    BY <1>3 DEF EndTask, Fetch
  <2>3. ~ Dynamic => cur[t] \notin FanIns
    BY <1>2, <1>3 DEF MessageInv, Holding
  <2>4. pos' \in [Threads -> Nat] /\ done' \in [Threads -> Nat]
    <3> HIDE DEF l
    <3>1. pos \in [Threads -> Nat] /\ done \in [Threads -> Nat]
      BY DEF ThreadInv, SolveTypes
    <3>2. [pos EXCEPT ![t] = @ + 1] \in [Threads -> Nat] /\ [done EXCEPT ![t] = @ + 1] \in [Threads -> Nat]
      BY <3>1
    <3> QED
      BY <2>2, <3>1, <3>2
  <2>5. pc'[t] = l /\ (\A u \in Threads : u # t => pc'[u] = pc[u])
    BY <2>2, GotoFacts
  <2> HIDE DEF l
  <2>6. EngineInv'
    BY <1>2, <1>3, <2>2, EngineKept DEF Communicating
  <2>7. TablesShrink /\ \A y \in FanIns : Pending(y)' <=> Pending(y)
    BY <2>1, TablesSame
  <2>8. MessagesKept
    BY <2>1 DEF MessagesKept, BufferFull
  <2>9. LabelsKept
    <3>1. l \notin Working /\ l \notin {"add", "dec", "store"}
      BY <2>2 DEF Working
    <3>2. ~ AtFanIn(t) /\ ~ AtFanIn(t)'
      BY <2>3, <2>5, <3>1 DEF AtFanIn
    <3> QED
      BY <1>1, <2>1, <2>5, <3>1, <3>2 DEF LabelsKept, AtFanIn
  <2>10. \A y \in FanIns : /\ (InNet(y)' <=> InNet(y)) /\ (InBuffer(y)' <=> InBuffer(y))
                           /\ (Taking(y)' <=> Taking(y))
                           /\ (TakenAt(y, "add")' <=> TakenAt(y, "add"))
                           /\ (TakenAt(y, "store")' <=> TakenAt(y, "store"))
    BY <1>1, <2>8, <2>9, PlacesSame
  <2>11. UnsentKept => MessageInv' /\ OnePlaceInv' /\ \A y \in FanIns : Coming(y)' <=> Coming(y)
    BY <1>1, <2>8, <2>9, MessageSame DEF ComingKept
  <2>12. /\ NewTasks' = NewTasks
         /\ (~ Dynamic => \A u \in Threads : InOrder(u)') /\ (Dynamic => CountInv') => SolveInv'
    <3>1. l \in {"pop", "wait", "end", "handle"}
      BY <2>2
    <3> QED
      BY <1>1, <2>1, <2>2, <2>4, <2>6, <2>7, <2>10, <2>11, <3>1, EndStep
  <2>13. ASSUME ~ Dynamic, NEW u \in Threads PROVE InOrder(u)'
    <3>1. CASE u # t
      <4>1. StepsKept
        BY <1>1, StepsKeptSame
      <4>2. pos'[u] = pos[u]
        BY <2>2, <2>13, <3>1 DEF ThreadInv, SolveTypes
      <4> QED
        BY <1>1, <2>1, <2>5, <2>13, <3>1, <4>1, <4>2, InOrderSame
    <3>2. CASE u = t
      <4>1. pos'[t] = pos[t] + 1 /\ pos[t] \in Nat
        BY <2>2, <2>13 DEF ThreadInv, SolveTypes
      <4>2. /\ pos[t] \in 1 .. Len(Order[t]) + 1 /\ pos[t] <= Len(Order[t]) /\ Len(Order[t]) \in Nat
        BY <1>2, <2>13, OrderFacts DEF InOrder
      <4>3. pc'[t] = Fetch(t, pos[t] + 1) /\ pc'[t] \notin Working
        BY <2>2, <2>5, <2>13 DEF l, Fetch, Working
      <4>4. /\ Now' = Now /\ Tasks(t)' = Tasks(t) /\ (NotYet(ProcOf(t))' <=> NotYet(ProcOf(t)))
        <5>1. Now' = Now
          BY <1>1, NowSame
        <5> QED
          BY <1>1, <5>1 DEF Tasks, Forward, NotYet
      <4>5. ~ NotYet(ProcOf(t)) => \A i \in 1 .. Len(Order[t]) :
               solved[Now][Tasks(t)[i]] =
                   IF i < pos[t] \/ (i = pos[t] /\ pc[t] \in Working /\ cur[t] \notin FanIns) THEN 1 ELSE 0
        BY <2>13 DEF InOrder
      <4>6. ~ NotYet(ProcOf(t)) => \A i \in 1 .. Len(Order[t]) :
               solved[Now][Tasks(t)[i]] = IF i < pos[t] + 1 THEN 1 ELSE 0
        BY <1>2, <2>3, <2>13, <4>1, <4>2, <4>5
      <4>7. pos'[t] \in 1 .. Len(Order[t]) + 1
        BY <4>1, <4>2
      <4>8. pc'[t] = "end" => pos'[t] = Len(Order[t]) + 1
        BY <4>1, <4>2, <4>3 DEF Fetch
      <4>9. pc'[t] \in Working \cup Looping => pos'[t] <= Len(Order[t])
        BY <4>1, <4>2, <4>3 DEF Fetch, Looping
      <4>10. ~ NotYet(ProcOf(t))' => \A i \in 1 .. Len(Order[t]) :
               solved'[Now'][Tasks(t)'[i]] =
                   IF i < pos'[t] \/ (i = pos'[t] /\ pc'[t] \in Working /\ cur'[t] \notin FanIns) THEN 1 ELSE 0
        BY <1>1, <4>1, <4>3, <4>4, <4>6
      <4> QED
        BY <3>2, <4>3, <4>7, <4>8, <4>9, <4>10 DEF InOrder
    <3> QED
      BY <3>1, <3>2
  <2>14. Dynamic => CountInv'
    <3>1. pc'[t] \notin Working
      BY <2>2, <2>5 DEF Working
    <3> QED
      BY <1>1, <1>2, <2>1, <2>2, <2>5, <2>12, <3>1, EndCount
  <2> QED
    BY <2>12, <2>13, <2>14
<1>4. CASE held[t] # NoMsg /\ DropMessage(t) /\ UNCHANGED schedVars
  <2>1. /\ UNCHANGED <<reqtab, incoming, outgoing, posted>>
        /\ UNCHANGED <<ctrbcnt, pos, queue, taskcnt, done, cur>> /\ Goto(t, "handle")
    BY <1>4 DEF DropMessage, tableVars, schedVars
  <2>2. cur[t] \in FanIns /\ ~ Dynamic /\ Now = "backward"
    BY <1>1, <1>4 DEF MessageInv, Holding, ThreadInv, AtTask, Working
  <2>3. EngineInv'
    BY <1>4, DropMessageInv
  <2>4. TablesShrink /\ \A y \in FanIns : Pending(y)' <=> Pending(y)
    BY <1>4, <2>1, DropMessagePending DEF TablesShrink
  <2>5. \A y \in FanIns :
                 /\ (InNet(y)' <=> InNet(y)) /\ (InBuffer(y)' <=> InBuffer(y))
                 /\ TakenAt(y, "add")' <=> TakenAt(y, "add") /\ ~ (pc[t] = "add" /\ Holds(t, y))
                 /\ TakenAt(y, "store")' <=> TakenAt(y, "store") /\ ~ (pc[t] = "store" /\ Holds(t, y))
    BY <1>1, <1>4, <2>1, DroppedMessage
  <2>6. MessageInv' /\ (UnsentKept => OnePlaceInv' /\ \A y \in FanIns : Coming(y)' <=> Coming(y))
    BY <1>1, <1>4, <2>1, DroppedMessage
  <2>7. \A y \in FanIns : /\ (InNet(y)' <=> InNet(y)) /\ (InBuffer(y)' <=> InBuffer(y))
                          /\ (Now = "forward" => (Taking(y)' <=> Taking(y)))
                          /\ (TakenAt(y, "add")' <=> TakenAt(y, "add"))
                          /\ (TakenAt(y, "store")' <=> TakenAt(y, "store"))
    BY <1>1, <2>2, <2>5
  <2>8. (~ Dynamic => \A u \in Threads : InOrder(u)') /\ (Dynamic => CountInv') => SolveInv'
    <3>1. pos' \in [Threads -> Nat] /\ done' \in [Threads -> Nat]
      BY <2>1 DEF ThreadInv, SolveTypes
    <3> QED
      BY <1>1, <2>1, <2>2, <2>3, <2>4, <2>6, <2>7, <3>1, EndStep
  <2>9. ASSUME NEW u \in Threads PROVE InOrder(u)'
    <3>1. StepsKept
      BY <1>1, StepsKeptSame
    <3>2. pc'[t] = "handle" /\ (\A v \in Threads : v # t => pc'[v] = pc[v])
      BY <2>1, GotoFacts
    <3>3. /\ pc'[u] = "end" => pc[u] = "end"
          /\ pc'[u] \in Working \cup Looping => pc[u] \in Working \cup Looping
          /\ pc'[u] \in Working /\ cur[u] \notin FanIns <=> pc[u] \in Working /\ cur[u] \notin FanIns
      BY <1>2, <2>2, <3>2 DEF Working
    <3> QED
      BY <1>1, <2>1, <2>2, <3>1, <3>3, InOrderSame
  <2> QED
    BY <2>2, <2>8, <2>9
<1> QED
  BY <1>3, <1>4 DEF EndSolve

-----------------------------------------------------------------------------
(* A thread begins a task.                                                 *)

(* The list of a thread holds column blocks of its process, and each once. *)
LEMMA TasksFacts ==
    /\ \A t \in Threads : Len(Order[t]) \in Nat
    /\ \A t \in Threads : \A i \in 1 .. Len(Order[t]) :
          Tasks(t)[i] \in Cblks /\ Own[Tasks(t)[i]] = ProcOf(t)
    /\ \A t, u \in Threads : \A i \in 1 .. Len(Order[t]) : \A j \in 1 .. Len(Order[u]) :
          Tasks(t)[i] = Tasks(u)[j] => t = u /\ i = j
    /\ \A c \in Cblks : \E t \in Threads : \E i \in 1 .. Len(Order[t]) :
          ProcOf(t) = Own[c] /\ Tasks(t)[i] = c
<1> DEFINE at(t, i) == IF Forward(ProcOf(t)) THEN i ELSE Len(Order[t]) - i + 1
<1>1. \A t \in Threads : Len(Order[t]) \in Nat /\ Order[t] \in Seq(Cblks)
  BY OrderFacts, OrderAssumption
<1>2. \A t \in Threads : \A i \in 1 .. Len(Order[t]) :
         /\ at(t, i) \in 1 .. Len(Order[t]) /\ at(t, at(t, i)) = i /\ Tasks(t)[i] = Order[t][at(t, i)]
  <2> SUFFICES ASSUME NEW t \in Threads, NEW i \in 1 .. Len(Order[t])
               PROVE  /\ at(t, i) \in 1 .. Len(Order[t]) /\ at(t, at(t, i)) = i
                      /\ Tasks(t)[i] = Order[t][at(t, i)]
    OBVIOUS
  <2>1. at(t, i) \in 1 .. Len(Order[t]) /\ at(t, at(t, i)) = i
    BY <1>1
  <2>2. Reverse(Order[t])[i] = Order[t][Len(Order[t]) - i + 1]
    BY <1>1 DEF Reverse
  <2> QED
    BY <2>1, <2>2 DEF Tasks
<1> HIDE DEF at
<1>3. \A t \in Threads : \A i \in 1 .. Len(Order[t]) :
          Tasks(t)[i] \in Cblks /\ Own[Tasks(t)[i]] = ProcOf(t)
  BY <1>2, OrderFacts
<1>4. ASSUME NEW t \in Threads, NEW u \in Threads, NEW i \in 1 .. Len(Order[t]), NEW j \in 1 .. Len(Order[u]),
             Tasks(t)[i] = Tasks(u)[j]
      PROVE  t = u /\ i = j
  <2>1. Order[t][at(t, i)] = Order[u][at(u, j)]
    BY <1>2, <1>4
  <2>2. t = u /\ at(t, i) = at(u, j)
    BY <1>2, <2>1, OrderFacts
  <2>3. at(t, at(t, i)) = i /\ at(u, at(u, j)) = j
    BY <1>2
  <2> QED
    BY <2>2, <2>3
<1>5. ASSUME NEW c \in Cblks
      PROVE  \E t \in Threads : \E i \in 1 .. Len(Order[t]) : ProcOf(t) = Own[c] /\ Tasks(t)[i] = c
  <2>1. PICK t \in Threads : \E i \in 1 .. Len(Order[t]) : ProcOf(t) = Own[c] /\ Order[t][i] = c
    BY OrderFacts
  <2>3. PICK i \in 1 .. Len(Order[t]) : ProcOf(t) = Own[c] /\ Order[t][i] = c
    BY <2>1
  <2>2. at(t, i) \in 1 .. Len(Order[t]) /\ Tasks(t)[at(t, i)] = c
    BY <1>2, <2>3
  <2> QED
    BY <2>2, <2>3
<1> QED
  BY <1>1, <1>3, <1>4, <1>5

LEMMA ThreadBegins ==
    ASSUME ThreadInv, SolveTypes', StepsInv', UNCHANGED <<step, phase, posted, taskcnt>>,
           NEW t \in Threads, NEW x \in Local, Goto(t, "update"), pc[t] \in Looping,
           cur' = [cur EXCEPT ![t] = x], x[1] = ProcOf(t), x \in FanIns => Now = "backward",
           \A u \in Threads : u # t => todo'[u] = todo[u] /\ tosend'[u] = tosend[u],
           todo'[t] = {e \in Edges : TaskOf(e) = x},
           tosend'[t] = IF Now = "forward" \/ x \in FanIns THEN {} ELSE RecvsTo(x[2]),
           \A u \in Threads : pc[u] \in Working => cur[u] # x
    PROVE  ThreadInv'
<1>1. pc'[t] = "update" /\ \A u \in Threads : u # t => pc'[u] = pc[u]
  BY GotoFacts
<1>2. cur'[t] = x /\ \A u \in Threads : u # t => cur'[u] = cur[u]
  BY DEF ThreadInv, SolveTypes
<1>3. Others(t)
  BY <1>1, <1>2 DEF Others
<1>4. /\ step[ProcOf(t)] = Now /\ phase[ProcOf(t)] = "tasks" /\ ProcOf(t) \in Procs
      /\ posted[t] = NoIdx
  BY ThreadFacts DEF ThreadInv, Placed, AtTask, Looping
<1>5. Now' = Now /\ \A e : TaskOf(e)' = TaskOf(e)
  BY NowSame
<1>6. Placed(t)'
  BY <1>1, <1>4, <1>5 DEF Placed, Working, Looping
<1>7. AtTask(t)'
  <2>1. \A e \in todo'[t] : TaskOf(e)' = cur'[t]
    BY <1>2, <1>5
  <2>2. Now = "forward" \/ Now = "backward"
    BY NowFacts
  <2> QED
    BY <1>1, <1>2, <1>4, <1>5, <2>1, <2>2 DEF AtTask, Working
<1>8. \A p \in Procs : taskcnt'[p] <= taskcnt[p]
  BY DEF ThreadInv, SolveTypes
<1> QED
  BY <1>2, <1>3, <1>6, <1>7, <1>8, ThreadStep

LEMMA FanInBegins ==
    ASSUME SolveInv, UNCHANGED step, NEW t \in Threads, NEW x \in Local, Goto(t, "update"), pc[t] \in Looping,
           cur' = [cur EXCEPT ![t] = x], x \in FanIns => Now = "backward" /\ faninb'[x] = <<Data(x)>>,
           \A y \in FanIns : y # x => faninb'[y] = faninb[y] /\ (Queued(y)' <=> Queued(y)),
           \A u \in Threads : u # t => todo'[u] = todo[u], EdgesKept, UnsentKept,
           \A y \in FanIns : Pending(y)' <=> Pending(y)
    PROVE  FanInInv'
<1> USE DEF SolveInv
<1>1. pc'[t] = "update" /\ \A u \in Threads : u # t => pc'[u] = pc[u]
  BY GotoFacts
<1>2. cur'[t] = x /\ \A u \in Threads : u # t => cur'[u] = cur[u]
  BY DEF ThreadInv, SolveTypes
<1>3. Now' = Now /\ \A y : Data(y)' = Data(y)
  BY NowSame
<1>4. pc[t] \notin Working /\ pc'[t] \in Working /\ pc'[t] # "gemm"
  BY <1>1 DEF Working, Looping
<1>5. ASSUME NEW u \in Threads, pc'[u] = "gemm" PROVE faninb'[Target(u)'] # <<>>
  <2>1. u # t /\ pc[u] = "gemm" /\ Target(u)' = Target(u)
    BY <1>1, <1>5, NextSame
  <2>2. todo[u] # {} /\ Target(u) \in FanIns /\ faninb[Target(u)] # <<>>
    BY <2>1 DEF ThreadInv, AtTask, FanInInv
  <2>3. Now = "forward"
    BY <2>2, AtEdge
  <2>4. Target(u) # x
    BY <2>2, <2>3
  <2>5. faninb'[Target(u)] = faninb[Target(u)]
    BY <2>2, <2>4
  <2> QED
    BY <2>1, <2>2, <2>5
<1>6. CASE Now = "forward"
  <2>1. \A y \in FanIns : faninb'[y] = faninb[y] /\ Content(y)' = Content(y)
    BY <1>6 DEF Content
  <2>2. \A y \in FanIns : Unsent(y)' => Content(y)' = {<<"forward", e>> : e \in Contribs(y) \ FreshEdges'}
    BY <1>6, <2>1 DEF FanInInv, EdgesKept, UnsentKept
  <2>3. \A y \in FanIns :
          \A e \in Contribs(y) \cap UnsentEdges' : \A f \in Contribs(y) \cap UnsentEdges' :
              e \notin LeftEdges' => f = e
    BY <1>6 DEF FanInInv, EdgesKept
  <2>4. \A y \in FanIns : faninb'[y] # <<>> => Unsent(y)' \/ Pending(y)'
    BY <1>6, <2>1 DEF FanInInv, UnsentKept
  <2>5. \A u \in Threads : \A y \in FanIns : ~ (pc'[u] \in Working /\ cur'[u] = y)
    <3>1. \A u \in Threads : pc[u] \in Working => cur[u] \notin FanIns
      BY <1>6 DEF ThreadInv, AtTask
    <3> QED
      BY <1>1, <1>2, <1>6, <3>1
  <2> QED
    BY <1>3, <1>5, <1>6, <2>2, <2>3, <2>4, <2>5, FanInForward
<1>7. CASE Now # "forward"
  <2>1. \A y \in FanIns : faninb'[y] # <<>> =>
             Queued(y)' \/ \E u \in Threads : pc'[u] \in Working /\ cur'[u] = y
    <3> SUFFICES ASSUME NEW y \in FanIns, faninb'[y] # <<>>
                 PROVE  Queued(y)' \/ \E u \in Threads : pc'[u] \in Working /\ cur'[u] = y
      OBVIOUS
    <3>1. CASE y = x
      BY <1>2, <1>4, <3>1
    <3>2. CASE y # x
      <4>1. Queued(y) \/ \E u \in Threads : pc[u] \in Working /\ cur[u] = y
        BY <1>7, <3>2 DEF FanInInv
      <4>2. \A u \in Threads : pc[u] \in Working => u # t /\ pc'[u] = pc[u] /\ cur'[u] = cur[u]
        BY <1>1, <1>2, <1>4
      <4> QED
        BY <3>2, <4>1, <4>2
    <3> QED
      BY <3>1, <3>2
  <2>2. \A u \in Threads : \A y \in FanIns : pc'[u] \in Working /\ cur'[u] = y => faninb'[y] = <<Data(y)>>
    <3> SUFFICES ASSUME NEW u \in Threads, NEW y \in FanIns, pc'[u] \in Working, cur'[u] = y
                 PROVE  faninb'[y] = <<Data(y)>>
      OBVIOUS
    <3>1. CASE y = x
      BY <3>1
    <3>2. CASE y # x
      <4>1. u # t /\ pc[u] \in Working /\ cur[u] = y
        BY <1>1, <1>2, <3>2
      <4>2. faninb[y] = <<Data(y)>>
        BY <4>1 DEF FanInInv
      <4> QED
        BY <3>2, <4>2
    <3> QED
      BY <3>1, <3>2
  <2> QED
    BY <1>3, <1>5, <1>7, <2>1, <2>2, FanInBackward
<1> QED
  BY <1>6, <1>7

(* What a thread takes, from its list or from a queue.                     *)
LEMMA TakenTask ==
    ASSUME SolveInv, NEW t \in Threads, NEW x \in Local, TakeTask(t, x, Tasks(t))
    PROVE  /\ pc[t] \in Looping \ {"add", "dec", "store"} /\ pc[t] \notin Communicating \cup {"elect"}
           /\ x[1] = ProcOf(t) /\ step[ProcOf(t)] = Now /\ ~ NotYet(ProcOf(t))
           /\ x \in NewTasks /\ \A u \in Threads : pc[u] \in Working => cur[u] # x
           /\ x \notin FanIns => x = <<Own[x[2]], x[2]>> /\ solved[Now][x[2]] = 0 /\ ctrbcnt[x] = 0
           /\ x \in FanIns => /\ Dynamic /\ Now = "backward" /\ ~ Coming(x) /\ ~ TakenAt(x, "store")
                              /\ faninb[x] = <<Data(x)>>
           /\ ~ Dynamic => x[2] = Tasks(t)[pos[t]] /\ queue' = queue
           /\ queue' \in [Threads -> SUBSET Local]
           /\ \A u \in Threads : queue'[u] = queue[u] \ {x}
<1> USE DEF SolveInv
<1>1. /\ queue \in [Threads -> SUBSET Local]
      /\ \A u \in Threads : u \in ThreadsOf(ProcOf(u)) /\ ProcOf(u) \in Procs
      /\ \A u \in ThreadsOf(ProcOf(t)) : u \in Threads /\ ProcOf(u) = ProcOf(t)
  BY ThreadFacts DEF ThreadInv, SolveTypes
<1>2. ASSUME pc[t] \in {"wait", "pop", "popAgain", "steal"}
      PROVE  /\ pc[t] \in Looping \ {"add", "dec", "store"} /\ pc[t] \notin Communicating \cup {"elect"}
             /\ step[ProcOf(t)] = Now /\ ~ NotYet(ProcOf(t))
  BY <1>2 DEF Looping, Communicating, ThreadInv, Placed, NotYet
<1>3. x \notin FanIns => x = <<Own[x[2]], x[2]>>
  BY EdgeFacts
<1>4. x \in NewTasks => \A u \in Threads : pc[u] \in Working => cur[u] # x
  BY DEF BegunInv
<1>5. ASSUME TakeNext(t, x, Tasks(t))
      PROVE  /\ pc[t] = "wait" /\ x[1] = ProcOf(t) /\ x \in NewTasks
             /\ x \notin FanIns /\ solved[Now][x[2]] = 0 /\ ctrbcnt[x] = 0
             /\ ~ Dynamic /\ x[2] = Tasks(t)[pos[t]] /\ queue' = queue
             /\ \A u \in Threads : queue'[u] = queue[u] \ {x}
  <2>1. pc[t] = "wait" /\ x[1] = ProcOf(t) /\ x[2] = Tasks(t)[pos[t]] /\ queue' = queue /\ ctrbcnt[x] <= 0
    BY <1>5 DEF TakeNext
  <2>2. ~ Dynamic
    BY <2>1 DEF ThreadInv, Placed
  <2>3. pos[t] \in 1 .. Len(Order[t]) /\ Len(Order[t]) \in Nat
    BY <2>1, <2>2, TasksFacts DEF InOrder, Looping
  <2>4. Own[x[2]] = x[1]
    BY <2>1, <2>3, TasksFacts
  <2>5. x \notin FanIns
    BY <2>4, FanInFacts
  <2>6. solved[Now][x[2]] = 0
    BY <1>2, <2>1, <2>2, <2>3 DEF InOrder, Working
  <2>7. ctrbcnt[x] = 0
    BY <2>1 DEF CounterInv
  <2>8. x \in NewTasks
    BY <2>5, <2>6 DEF NewTasks, Ahead
  <2>9. \A u \in Threads : queue[u] = {}
    BY <1>1, <2>2 DEF QueueInv
  <2> QED
    BY <2>1, <2>2, <2>5, <2>6, <2>7, <2>8, <2>9
<1>6. ASSUME PopOwn(t, x) \/ Steal(t, x)
      PROVE  /\ pc[t] \in {"pop", "popAgain", "steal"} /\ x[1] = ProcOf(t) /\ x \in NewTasks
             /\ x \notin FanIns => solved[Now][x[2]] = 0 /\ ctrbcnt[x] = 0
             /\ x \in FanIns => /\ Dynamic /\ Now = "backward" /\ ~ Coming(x) /\ ~ TakenAt(x, "store")
                                /\ faninb[x] = <<Data(x)>>
             /\ Dynamic /\ queue' \in [Threads -> SUBSET Local]
             /\ \A u \in Threads : queue'[u] = queue[u] \ {x}
  <2>1. PICK v \in Threads : /\ ProcOf(v) = ProcOf(t) /\ x \in queue[v]
                             /\ queue' = [queue EXCEPT ![v] = @ \ {x}]
    BY <1>1, <1>6 DEF PopOwn, Steal
  <2>2. pc[t] \in {"pop", "popAgain", "steal"}
    BY <1>6 DEF PopOwn, Steal
  <2>3. /\ Dynamic /\ x[1] = ProcOf(t)
        /\ x \notin FanIns => solved[Now][x[2]] = 0 /\ ctrbcnt[x] = 0
        /\ x \in FanIns => /\ Now = "backward" /\ ~ Coming(x) /\ ~ TakenAt(x, "store")
                           /\ faninb[x] = <<Data(x)>>
    BY <2>1 DEF QueueInv
  <2>4. x \in NewTasks
    BY <2>1, <2>3 DEF NewTasks, Ahead, Queued
  <2>5. \A u \in Threads : queue'[u] = queue[u] \ {x}
    <3>1. \A u \in Threads : u # v => x \notin queue[u]
      BY <2>1 DEF QueueInv
    <3> QED
      BY <1>1, <2>1, <3>1
  <2>6. queue' \in [Threads -> SUBSET Local]
    BY <1>1, <2>1
  <2> QED
    BY <2>2, <2>3, <2>4, <2>5, <2>6
<1>7. CASE TakeNext(t, x, Tasks(t))
  <2>1. pc[t] \in {"wait", "pop", "popAgain", "steal"}
    BY <1>5, <1>7
  <2> QED
    BY <1>1, <1>2, <1>3, <1>4, <1>5, <1>7, <2>1
<1>8. CASE PopOwn(t, x) \/ Steal(t, x)
  <2>1. pc[t] \in {"wait", "pop", "popAgain", "steal"}
    BY <1>6, <1>8
  <2> QED
    BY <1>1, <1>2, <1>3, <1>4, <1>6, <1>8, <2>1
<1> QED
  BY <1>7, <1>8 DEF TakeTask

LEMMA SolveStepInv == ASSUME SolveInv, NEW t \in Threads, Solve(t) PROVE SolveInv'
<1> USE DEF SolveInv
<1>1. PICK x \in Local :
          /\ TakeTask(t, x, Tasks(t))
          /\ solved' = IF x \in FanIns THEN solved
                       ELSE [solved EXCEPT ![step[x[1]]][x[2]] = @ + 1]
          /\ todo'   = [todo EXCEPT ![t] =
                           IF Forward(x[1]) THEN OutOf(x[2]) ELSE ProcEdges(x[1], x[2])]
          /\ tosend' = [tosend EXCEPT ![t] =
                           IF Forward(x[1]) \/ x \in FanIns THEN {} ELSE RecvsTo(x[2])]
  BY DEF Solve
<1>2. /\ UNCHANGED <<engineVars, reqtab, incoming, posted, indexes, held, recvreq, rcoeftab, net>>
      /\ UNCHANGED <<ctrbcnt, pos, taskcnt, done>> /\ cur' = [cur EXCEPT ![t] = x]
      /\ UNCHANGED <<step, phase, faninb, recvb, got>> /\ Goto(t, "update")
  BY <1>1 DEF Solve, TakeTask, engineVars, tableVars, threadVars, mpiVars
<1>3. /\ pc[t] \in Looping \ {"add", "dec", "store"} /\ pc[t] \notin Communicating \cup {"elect"}
      /\ x[1] = ProcOf(t) /\ step[ProcOf(t)] = Now /\ ~ NotYet(ProcOf(t))
      /\ x \in NewTasks /\ \A u \in Threads : pc[u] \in Working => cur[u] # x
  BY <1>1, TakenTask
<1>4. /\ x \notin FanIns => x = <<Own[x[2]], x[2]>> /\ solved[Now][x[2]] = 0 /\ ctrbcnt[x] = 0
      /\ x \in FanIns => /\ Dynamic /\ Now = "backward" /\ ~ Coming(x) /\ ~ TakenAt(x, "store")
                         /\ faninb[x] = <<Data(x)>>
  BY <1>1, TakenTask
<1>5. /\ ~ Dynamic => x[2] = Tasks(t)[pos[t]] /\ queue' = queue
      /\ queue' \in [Threads -> SUBSET Local]
      /\ \A u \in Threads : queue'[u] = queue[u] \ {x}
  BY <1>1, TakenTask
<1>6. /\ Now' = Now /\ (Now = "forward" \/ Now = "backward") /\ Now \in Steps
      /\ Forward(x[1]) <=> Now = "forward"
      /\ \A e : TaskOf(e)' = TaskOf(e) /\ Home(e)' = Home(e)
      /\ \A y : Receiver(y)' = Receiver(y)
  BY <1>2, <1>3, NowFacts, NowSame, ThreadFacts
<1>7. /\ pc'[t] = "update" /\ (\A u \in Threads : u # t => pc'[u] = pc[u])
      /\ pc' = [u \in Threads |-> pc'[u]]
  BY <1>2, GotoFacts
<1>8. /\ cur'[t] = x /\ (\A u \in Threads : u # t => cur'[u] = cur[u])
      /\ cur' \in [Threads -> Local \cup {NoIdx}]
  BY <1>2 DEF ThreadInv, SolveTypes
<1>9. x[1] \in Procs /\ x[2] \in Cblks
  BY EdgeFacts
<1>10. /\ solved' \in [Steps -> [Cblks -> {0, 1}]]
       /\ \A s \in Steps : \A c \in Cblks :
             solved'[s][c] = IF s = Now /\ c = x[2] /\ x \notin FanIns THEN 1 ELSE solved[s][c]
  <2>1. solved \in [Steps -> [Cblks -> {0, 1}]]
    BY DEF ThreadInv, SolveTypes
  <2>2. CASE x \in FanIns
    BY <1>1, <2>1, <2>2
  <2>3. CASE x \notin FanIns
    <3>1. solved' = [solved EXCEPT ![Now] = [solved[Now] EXCEPT ![x[2]] = 1]]
      <4>1. step[x[1]] = Now /\ solved[Now][x[2]] = 0
        BY <1>3, <1>4, <2>3
      <4>2. solved' = [solved EXCEPT ![Now][x[2]] = @ + 1]
        BY <1>1, <2>3, <4>1
      <4>3. \A s \in {Now} : [solved EXCEPT ![s][x[2]] = @ + 1] = [solved EXCEPT ![s] = [solved[s] EXCEPT ![x[2]] = solved[s][x[2]] + 1]]
        OBVIOUS
      <4>4. solved' = [solved EXCEPT ![Now] = [solved[Now] EXCEPT ![x[2]] = solved[Now][x[2]] + 1]]
        BY <4>2, <4>3
      <4>5. solved[Now][x[2]] + 1 = 1
        BY <4>1
      <4> QED
        BY <4>4, <4>5
    <3>2. solved[Now] \in [Cblks -> {0, 1}]
      BY <1>6, <2>1
    <3>3. [solved[Now] EXCEPT ![x[2]] = 1] \in [Cblks -> {0, 1}]
      BY <3>2
    <3>4. \A c \in Cblks : [solved[Now] EXCEPT ![x[2]] = 1][c] = IF c = x[2] THEN 1 ELSE solved[Now][c]
      BY <3>2
    <3> QED
      BY <1>6, <2>1, <2>3, <3>1, <3>3, <3>4
  <2> QED
    BY <2>2, <2>3
<1>11. /\ todo'[t] = {e \in Edges : TaskOf(e) = x}
       /\ \A u \in Threads : u # t => todo'[u] = todo[u]
       /\ todo' \in [Threads -> SUBSET Edges]
  <2>1. todo \in [Threads -> SUBSET Edges]
    BY DEF ThreadInv, SolveTypes
  <2>2. (IF Forward(x[1]) THEN OutOf(x[2]) ELSE ProcEdges(x[1], x[2])) = {e \in Edges : TaskOf(e) = x}
    <3>1. CASE Now = "forward"
      <4>1. x \notin FanIns
        BY <1>4, <3>1
      <4>2. \A e \in Edges : TaskOf(e) = x <=> e \in OutOf(x[2])
        BY <3>1, <4>1, EdgeFacts
      <4>3. OutOf(x[2]) \subseteq Edges
        BY DEF OutOf
      <4> QED
        BY <1>6, <3>1, <4>2, <4>3
    <3>2. CASE Now = "backward"
      <4>1. \A e \in Edges : TaskOf(e) = x <=> e \in Contribs(x)
        BY <3>2, EdgeFacts
      <4>2. Contribs(x) \subseteq Edges
        BY EdgeFacts
      <4>3. ~ Forward(x[1])
        BY <1>6, <3>2
      <4> QED
        BY <4>1, <4>2, <4>3 DEF Contribs
    <3> QED
      BY <1>6, <3>1, <3>2
  <2>3. todo' = [todo EXCEPT ![t] = {e \in Edges : TaskOf(e) = x}]
    BY <1>1, <2>2
  <2> QED
    BY <2>1, <2>3
<1>12. /\ tosend'[t] = IF Now = "forward" \/ x \in FanIns THEN {} ELSE RecvsTo(x[2])
       /\ \A u \in Threads : u # t => tosend'[u] = tosend[u]
       /\ tosend' \in [Threads -> SUBSET FanIns]
  <2>1. tosend \in [Threads -> SUBSET FanIns]
    BY DEF ThreadInv, SolveTypes
  <2>2. RecvsTo(x[2]) \subseteq FanIns
    BY DEF RecvsTo
  <2> QED
    BY <1>1, <1>6, <2>1, <2>2
<1>13. StepsInv'
  <2>1. \A p \in Procs : NotYet(p)' => NotYet(p)
    BY <1>2, <1>6 DEF NotYet
  <2>2. \A p \in Procs : NotYet(p) => \A c \in Cblks : Own[c] = p => solved'[Now][c] = 0
    <3> SUFFICES ASSUME NEW p \in Procs, NotYet(p), NEW c \in Cblks, Own[c] = p PROVE solved'[Now][c] = 0
      OBVIOUS
    <3>1. x \notin FanIns => c # x[2]
      BY <1>3, <1>4
    <3> QED
      BY <1>6, <1>10, <3>1 DEF ThreadInv, StepsInv
  <2>3. \A s \in Steps : s # Now => \A c \in Cblks : solved'[s][c] = solved[s][c]
    BY <1>10
  <2>4. Now = "forward" => /\ \A c \in Cblks : solved'["backward"][c] = 0
                           /\ \A e \in Edges : got'["backward"][e] = 0
    BY <1>2, <2>3 DEF ThreadInv, StepsInv, Steps
  <2>5. Now = "backward" => /\ \A c \in Cblks : solved'["forward"][c] = 1
                            /\ \A e \in Edges : got'["forward"][e] = 1
    BY <1>2, <2>3 DEF ThreadInv, StepsInv, Steps
  <2>6. \A p \in Procs : step'[p] # Now => phase'[p] = "barrier"
    BY <1>2 DEF ThreadInv, StepsInv
  <2> QED
    BY <1>6, <2>1, <2>2, <2>4, <2>5, <2>6 DEF StepsInv
<1>14. ThreadInv'
  <2>1. SolveTypes'
    BY <1>2, <1>5, <1>7, <1>8, <1>10, <1>11, <1>12 DEF ThreadInv, SolveTypes
  <2> QED
    BY <1>2, <1>3, <1>4, <1>11, <1>12, <1>13, <2>1, ThreadBegins
<1>15. EngineInv'
  BY <1>2, <1>3, EngineKept DEF Communicating
<1>16. MessagesKept /\ StepsKept
  BY <1>2, StepsKeptSame DEF MessagesKept, BufferFull
<1>17. LabelsKept
  <2>1. ~ AtFanIn(t) /\ ~ AtFanIn(t)'
    BY <1>3, <1>4, <1>8 DEF AtFanIn, Looping, Working
  <2> QED
    BY <1>3, <1>7, <1>8, <2>1 DEF LabelsKept, AtFanIn
<1>18. \A y \in FanIns : /\ (InNet(y)' <=> InNet(y)) /\ (InBuffer(y)' <=> InBuffer(y))
                         /\ (Taking(y)' <=> Taking(y))
                         /\ (TakenAt(y, "add")' <=> TakenAt(y, "add"))
                         /\ (TakenAt(y, "store")' <=> TakenAt(y, "store"))
  BY <1>2, <1>16, <1>17, PlacesSame
<1>19. pc[t] \notin Working /\ todo[t] = {} /\ tosend[t] = {} /\ posted[t] = NoIdx
  <2>1. pc[t] \notin Working
    BY <1>3 DEF Working, Looping
  <2> QED
    BY <2>1 DEF ThreadInv, AtTask, Working
<1>20. ASSUME Now = "backward", NEW y \in FanIns PROVE UnsentSolution(y)' <=> UnsentSolution(y)
  <2>1. y # NoIdx /\ y[2] \in Cblks
    BY FanInFacts
  <2>2. \A u \in Threads : u # t => (y \in tosend'[u] /\ posted'[u] # y <=> y \in tosend[u] /\ posted[u] # y)
    BY <1>2, <1>12
  <2>3. ~ (y \in tosend[t] /\ posted[t] # y)
    BY <1>19
  <2>4. y \in tosend'[t] /\ posted'[t] # y <=> x \notin FanIns /\ y[2] = x[2]
    <3>1. y \in RecvsTo(x[2]) <=> y[2] = x[2]
      BY DEF RecvsTo
    <3> QED
      BY <1>2, <1>12, <1>19, <1>20, <2>1, <3>1
  <2>5. CASE x \notin FanIns /\ y[2] = x[2]
    <3>1. UnsentSolution(y)
      BY <1>4, <1>20, <2>5 DEF UnsentSolution
    <3>2. UnsentSolution(y)'
      BY <2>4, <2>5 DEF UnsentSolution
    <3> QED
      BY <3>1, <3>2
  <2>6. CASE ~ (x \notin FanIns /\ y[2] = x[2])
    <3>1. solved'["backward"][y[2]] = solved["backward"][y[2]]
      BY <1>6, <1>10, <1>20, <2>1, <2>6
    <3>2. \A u \in Threads : y \in tosend'[u] /\ posted'[u] # y <=> y \in tosend[u] /\ posted[u] # y
      BY <2>2, <2>3, <2>4, <2>6
    <3> QED
      BY <3>1, <3>2 DEF UnsentSolution
  <2> QED
    BY <2>5, <2>6
<1>21. /\ \A y \in FanIns : y # x => (Queued(y)' <=> Queued(y))
       /\ \A y : Queued(y)' => y # x
  BY <1>5 DEF Queued
<1>22. NewTasks' = NewTasks \ {x}
  <2>1. ASSUME NEW y \in Local PROVE Ahead(y)' <=> Ahead(y) /\ y # x
    <3>1. CASE y \notin FanIns
      <4>1. y = <<Own[y[2]], y[2]>> /\ y[2] \in Cblks
        BY <3>1, EdgeFacts
      <4>2. y[2] = x[2] /\ x \notin FanIns <=> y = x
        BY <1>4, <3>1, <4>1
      <4>3. solved'[Now][y[2]] = IF y = x THEN 1 ELSE solved[Now][y[2]]
        BY <1>6, <1>10, <4>1, <4>2
      <4>4. (Ahead(y)' <=> solved'[Now][y[2]] = 0) /\ (Ahead(y) <=> solved[Now][y[2]] = 0)
        BY <1>6, <3>1 DEF Ahead
      <4> QED
        BY <4>3, <4>4
    <3>2. CASE y \in FanIns /\ Now = "forward"
      BY <1>4, <1>6, <3>2 DEF Ahead
    <3>3. CASE y \in FanIns /\ Now = "backward"
      <4>1. /\ Ahead(y) <=> Waiting(y)
            /\ Ahead(y)' <=> Waiting(y)'
        BY <1>6, <3>3 DEF Ahead, Waiting
      <4>2. CASE y = x
        <5>1. ~ Unsent(y) /\ ~ InNet(y) /\ ~ InBuffer(y) /\ ~ TakenAt(y, "store")
          BY <1>4, <3>3, <4>2 DEF Coming
        <5>2. ~ UnsentSolution(y)
          BY <3>3, <5>1 DEF Unsent
        <5>3. ~ Waiting(y)'
          BY <1>18, <1>20, <1>21, <3>3, <4>2, <5>1, <5>2 DEF Waiting
        <5> QED
          BY <4>1, <4>2, <5>3
      <4>3. CASE y # x
        BY <1>18, <1>20, <1>21, <3>3, <4>1, <4>3 DEF Waiting
      <4> QED
        BY <4>2, <4>3
    <3> QED
      BY <1>6, <3>1, <3>2, <3>3
  <2> QED
    BY <2>1 DEF NewTasks
<1>23. EdgesKept
  <2>1. \A u \in Threads : u # t => pc'[u] = pc[u] /\ todo'[u] = todo[u] /\ tosend'[u] = tosend[u]
    BY <1>7, <1>11, <1>12
  <2>2. \A L : "update" \in L => EdgesBefore(L)' = EdgesBefore(L)
    BY <1>2, <1>3, <1>7, <1>11, <1>19, <1>22, <2>1, EdgesBegin
  <2> QED
    BY <2>2 DEF EdgesKept, FreshEdges, LeftEdges, UnsentEdges
<1>24. UnsentKept
  <2>1. CASE Now = "forward"
    BY <1>6, <1>23, <2>1 DEF UnsentKept, Unsent, EdgesKept, Contribs
  <2>2. CASE Now = "backward"
    BY <1>6, <1>20, <2>2 DEF UnsentKept, Unsent
  <2> QED
    BY <1>6, <2>1, <2>2
<1>25. MessageInv' /\ OnePlaceInv' /\ ComingKept
  BY <1>2, <1>16, <1>17, <1>24, MessageSame
<1>26. BegunInv'
  BY <1>7, <1>8, <1>22 DEF BegunInv
<1>27. \A y \in FanIns : (Coming(y) \/ Taking(y))' <=> (Coming(y) \/ Taking(y))
  BY <1>25 DEF ComingKept
<1>28. IncomingInv' /\ CounterInv'
  BY <1>2, <1>16, <1>23, <1>25, <1>27, IncomingSame, CounterSame DEF ComingKept, EdgesKept
<1>29. GotInv'
  <2>1. \A y \in FanIns : (Coming(y) \/ TakenAt(y, "add"))' <=> (Coming(y) \/ TakenAt(y, "add"))
    BY <1>18, <1>25 DEF ComingKept
  <2> QED
    BY <1>2, <1>23, <2>1, GotSame DEF EdgesKept
<1>30. ReadyInv'
  <2> SUFFICES ASSUME NEW c \in Cblks, solved'[Now][c] # 0
               PROVE  /\ \A e \in LeftEdges : Home(e) # <<Own[c], c>>
                      /\ Awaited(<<Own[c], c>>)' = {}
    BY <1>6, <1>23 DEF ReadyInv, EdgesKept
  <2>1. \A y : Awaited(y)' = Awaited(y)
    BY <1>2, <1>27, AwaitedSame
  <2>2. CASE solved[Now][c] # 0
    BY <2>1, <2>2 DEF ReadyInv
  <2>3. CASE solved[Now][c] = 0
    <3>1. x \notin FanIns /\ c = x[2] /\ x = <<Own[c], c>>
      BY <1>4, <1>6, <1>10, <2>3
    <3>2. Counter(x) = 0
      BY <1>3, <1>4, <3>1 DEF CounterInv
    <3>3. /\ {e \in LeftEdges : Home(e) = x} \subseteq Edges /\ Awaited(x) \subseteq FanIns
      BY EdgesNested DEF Awaited, RecvsTo
    <3>4. /\ IsFiniteSet({e \in LeftEdges : Home(e) = x})
          /\ Cardinality({e \in LeftEdges : Home(e) = x}) \in Nat
          /\ IsFiniteSet(Awaited(x)) /\ Cardinality(Awaited(x)) \in Nat
      BY <3>3, EdgesFinite, FanInsFinite
    <3>5. Cardinality({e \in LeftEdges : Home(e) = x}) = 0 /\ Cardinality(Awaited(x)) = 0
      BY <3>2, <3>4 DEF Counter
    <3>6. {e \in LeftEdges : Home(e) = x} = {} /\ Awaited(x) = {}
      BY <3>4, <3>5, FS_EmptySet
    <3>7. Awaited(<<Own[c], c>>)' = {}
      BY <2>1, <3>1, <3>6
    <3> QED
      BY <3>1, <3>6, <3>7
  <2> QED
    BY <2>2, <2>3
<1>31. TablesShrink /\ \A y \in FanIns : Pending(y)' <=> Pending(y)
  BY <1>2, TablesSame
<1>32. SendInv'
  <2>1. EngineTypes'
    BY <1>15 DEF EngineInv
  <2> QED
    BY <1>2, <1>16, <1>24, <1>31, <2>1, SendKept DEF StepsKept
<1>33. FanInInv'
  BY <1>2, <1>3, <1>4, <1>11, <1>21, <1>23, <1>24, <1>31, FanInBegins
<1>34. QueueInv'
  <2>1. \A u \in Threads : \A y \in queue'[u] :
              /\ y \notin FanIns => solved'[Now][y[2]] = 0 /\ ctrbcnt'[y] = 0
              /\ y \in FanIns => /\ ~ Coming(y)' /\ ~ TakenAt(y, "store")' /\ faninb'[y] = faninb[y]
                                 /\ \A v \in Threads : pc'[v] \in Working => cur'[v] # y
    <3> SUFFICES ASSUME NEW u \in Threads, NEW y \in queue'[u]
                 PROVE  /\ y \notin FanIns => solved'[Now][y[2]] = 0 /\ ctrbcnt'[y] = 0
                        /\ y \in FanIns => /\ ~ Coming(y)' /\ ~ TakenAt(y, "store")' /\ faninb'[y] = faninb[y]
                                           /\ \A v \in Threads : pc'[v] \in Working => cur'[v] # y
      OBVIOUS
    <3>1. y \in queue[u] /\ y # x /\ y \in Local
      BY <1>5 DEF ThreadInv, SolveTypes
    <3>2. CASE y \notin FanIns
      <4>1. solved[Now][y[2]] = 0 /\ ctrbcnt[y] = 0
        BY <3>1, <3>2 DEF QueueInv
      <4>2. y = <<Own[y[2]], y[2]>> /\ y[2] \in Cblks
        BY <3>1, <3>2, EdgeFacts
      <4>3. ~ (y[2] = x[2] /\ x \notin FanIns)
        BY <1>4, <3>1, <4>2
      <4> QED
        BY <1>2, <1>6, <1>10, <3>2, <4>1, <4>2, <4>3
    <3>3. CASE y \in FanIns
      <4>1. ~ Coming(y) /\ ~ TakenAt(y, "store") /\ \A v \in Threads : pc[v] \in Working => cur[v] # y
        BY <3>1, <3>3 DEF QueueInv
      <4>2. ~ Coming(y)' /\ ~ TakenAt(y, "store")'
        BY <1>18, <1>25, <3>3, <4>1 DEF ComingKept
      <4>3. \A v \in Threads : pc'[v] \in Working => cur'[v] # y
        BY <1>7, <1>8, <3>1, <4>1
      <4> QED
        BY <1>2, <3>3, <4>2, <4>3
    <3> QED
      BY <3>2, <3>3
  <2>2. \A u \in Threads : queue'[u] \subseteq queue[u]
    BY <1>5
  <2> QED
    BY <1>2, <1>16, <2>1, <2>2, QueueSame DEF StepsKept
<1>35. ASSUME ~ Dynamic, NEW u \in Threads PROVE InOrder(u)'
  <2>1. /\ pos[u] \in 1 .. Len(Order[u]) + 1
        /\ pc[u] = "end" /\ ~ NotYet(ProcOf(u)) => pos[u] = Len(Order[u]) + 1
        /\ pc[u] \in Working \cup Looping => pos[u] <= Len(Order[u])
        /\ pc[u] \in Working /\ cur[u] \notin FanIns => cur[u][2] = Tasks(u)[pos[u]]
        /\ ~ NotYet(ProcOf(u)) => \A i \in 1 .. Len(Order[u]) :
              solved[Now][Tasks(u)[i]] =
                  IF i < pos[u] \/ (i = pos[u] /\ pc[u] \in Working /\ cur[u] \notin FanIns) THEN 1 ELSE 0
    BY <1>35 DEF InOrder
  <2>2. x \notin FanIns /\ x[2] = Tasks(t)[pos[t]] /\ pos[t] \in 1 .. Len(Order[t])
    <3>1. pos[t] \in 1 .. Len(Order[t]) + 1 /\ pos[t] <= Len(Order[t]) /\ Len(Order[t]) \in Nat
      BY <1>3, <1>35, TasksFacts DEF InOrder
    <3> QED
      BY <1>4, <1>5, <1>35, <3>1
  <2>3. Tasks(u)' = Tasks(u) /\ pos'[u] = pos[u] /\ (NotYet(ProcOf(u))' <=> NotYet(ProcOf(u)))
    BY <1>2, <1>6 DEF Tasks, Forward, NotYet
  <2>4. \A i \in 1 .. Len(Order[u]) : solved'[Now][Tasks(u)[i]] =
            IF u = t /\ i = pos[t] THEN 1 ELSE solved[Now][Tasks(u)[i]]
    <3> SUFFICES ASSUME NEW i \in 1 .. Len(Order[u])
                 PROVE  solved'[Now][Tasks(u)[i]] =
                            IF u = t /\ i = pos[t] THEN 1 ELSE solved[Now][Tasks(u)[i]]
      OBVIOUS
    <3>1. Tasks(u)[i] \in Cblks
      BY TasksFacts
    <3>2. Tasks(u)[i] = x[2] <=> u = t /\ i = pos[t]
      BY <2>2, TasksFacts
    <3> QED
      BY <1>6, <1>10, <2>2, <3>1, <3>2
  <2>5. CASE u = t
    <3>1. pc'[t] \in Working /\ pc[t] \notin Working /\ pc[t] \in Looping
      BY <1>3, <1>7, <1>19 DEF Working
    <3>2. \A i \in 1 .. Len(Order[u]) : i \in Int /\ pos[u] \in Int
      BY <2>1
    <3>3. ~ NotYet(ProcOf(u)) => \A i \in 1 .. Len(Order[u]) :
              solved'[Now][Tasks(u)[i]] = IF i < pos[u] \/ i = pos[u] THEN 1 ELSE 0
      BY <2>1, <2>4, <2>5, <3>1, <3>2
    <3> QED
      BY <1>6, <1>7, <1>8, <2>1, <2>2, <2>3, <2>5, <3>1, <3>3 DEF InOrder, Working
  <2>6. CASE u # t
    <3>1. pc'[u] = pc[u] /\ cur'[u] = cur[u]
      BY <1>7, <1>8, <2>6
    <3>2. \A i \in 1 .. Len(Order[u]) : solved'[Now][Tasks(u)[i]] = solved[Now][Tasks(u)[i]]
      BY <2>4, <2>6
    <3> QED
      BY <1>6, <2>1, <2>3, <3>1, <3>2 DEF InOrder
  <2> QED
    BY <2>5, <2>6
<1>36. ASSUME Dynamic PROVE CountInv'
  <2>1. \A y : DoneTask(y) => DoneTask(y)'
    BY <1>3, <1>7, <1>8, <1>22 DEF DoneTask
  <2> QED
    BY <1>2, <1>16, <1>36, <2>1, CountSame DEF StepsKept
<1> QED
  BY <1>14, <1>15, <1>25, <1>26, <1>28, <1>29, <1>30, <1>32, <1>33, <1>34, <1>35, <1>36

-----------------------------------------------------------------------------
(* A message is taken out of the reception buffer.                         *)

LEMMA TakenMessage ==
    ASSUME SolveInv, UNCHANGED <<step, cur>>, NEW t \in Threads, TakeMessage(t),
           Goto(t, IF Now = "forward" THEN "add" ELSE "store")
    PROVE  \E x \in FanIns :
              /\ Receiver(x) = ProcOf(t) /\ rcoeftab[ProcOf(t)] = Msg(x) /\ Coming(x) /\ ~ Taking(x)
              /\ \A y \in FanIns :
                    /\ (InNet(y)' <=> InNet(y)) /\ (InBuffer(y)' <=> InBuffer(y) /\ y # x)
                    /\ Taking(y)' <=> Taking(y) \/ y = x
                    /\ TakenAt(y, "add")' <=> TakenAt(y, "add") \/ (y = x /\ Now = "forward")
                    /\ TakenAt(y, "store")' <=> TakenAt(y, "store") \/ (y = x /\ Now # "forward")
              /\ MessageInv'
              /\ UnsentKept => OnePlaceInv' /\ \A y \in FanIns : Coming(y)' <=> Coming(y) /\ y # x
<1> USE DEF SolveInv
<1> DEFINE p == ProcOf(t)
           l == IF Now = "forward" THEN "add" ELSE "store"
<1>1. /\ p \in Procs /\ t \in ThreadsOf(p) /\ \A u \in Threads : u \in ThreadsOf(ProcOf(u))
      /\ \A q \in Procs : \A u \in ThreadsOf(q) : u \in Threads /\ ProcOf(u) = q
  BY ThreadFacts
<1>2. /\ \A y : Msg(y)' = Msg(y) /\ Sender(y)' = Sender(y) /\ Receiver(y)' = Receiver(y)
      /\ \A y \in FanIns : Receiver(y) \in Procs /\ ThreadsOf(Receiver(y)) \subseteq Threads /\ Msg(y) # NoMsg
      /\ \A y, z \in FanIns : Msg(y) = Msg(z) /\ Receiver(y) = Receiver(z) => y = z
      /\ Now' = Now
  BY <1>1, NowSame, RemoteFacts
<1>3. pc[t] = "handle" /\ pc'[t] = l /\ \A u \in Threads : u # t => pc'[u] = pc[u]
  BY GotoFacts DEF TakeMessage, Handles
<1>4. /\ held'[t] = rcoeftab[p] /\ \A u \in Threads : u # t => held'[u] = held[u]
      /\ UNCHANGED <<rcoeftab, net>>
      /\ recvreq'[p] \in {"active", "freed"} /\ \A q \in Procs : q # p => recvreq'[q] = recvreq[q]
  BY <1>1 DEF TakeMessage, EngineInv, EngineTypes
<1>5. held[t] = NoMsg
  BY <1>3 DEF EngineInv, Counted, Communicating
<1>6. recvreq[p] = "inactive"
  <2>1. Index(t) \in indexes[t] /\ reqtab[p][Index(t)].idx = NoIdx
    BY HandledFacts DEF TakeMessage, Handles, Handled
  <2> QED
    BY <1>1, <1>5, <2>1 DEF EngineInv, Reception
<1>7. PICK x \in FanIns : Receiver(x) = p /\ rcoeftab[p] = Msg(x)
  BY <1>1, <1>6 DEF MessageInv, BufferFull
<1>8. InBuffer(x) /\ Coming(x) /\ ~ Taking(x)
  BY <1>6, <1>7 DEF InBuffer, BufferFull, Coming, OnePlaceInv
<1>9. ASSUME NEW y \in FanIns
      PROVE  /\ Channel(y)' = Channel(y)
             /\ (InNet(y)' <=> InNet(y)) /\ (InBuffer(y)' <=> InBuffer(y) /\ y # x)
             /\ Taking(y)' <=> Taking(y) \/ y = x
             /\ TakenAt(y, "add")' <=> TakenAt(y, "add") \/ (y = x /\ Now = "forward")
             /\ TakenAt(y, "store")' <=> TakenAt(y, "store") \/ (y = x /\ Now # "forward")
  <2>1. Channel(y)' = Channel(y)
    BY <1>2, <1>4 DEF Channel
  <2>2. InNet(y)' <=> InNet(y)
    BY <1>2, <2>1 DEF InNet
  <2>3. InBuffer(y)' <=> InBuffer(y) /\ y # x
    <3>1. CASE Receiver(y) = p
      <4>1. ~ InBuffer(y)'
        BY <1>2, <1>4, <3>1 DEF InBuffer, BufferFull
      <4>2. InBuffer(y) => y = x
        BY <1>2, <1>7, <3>1 DEF InBuffer
      <4> QED
        BY <4>1, <4>2
    <3>2. CASE Receiver(y) # p
      BY <1>2, <1>4, <1>7, <3>2 DEF InBuffer, BufferFull
    <3> QED
      BY <3>1, <3>2
  <2>4. \A u \in ThreadsOf(Receiver(y)) :
          /\ u \in Threads
          /\ held'[u] = Msg(y) <=> held[u] = Msg(y) \/ (u = t /\ y = x)
          /\ pc'[u] = IF u = t THEN l ELSE pc[u]
          /\ u = t => held[u] # Msg(y)
    <3> SUFFICES ASSUME NEW u \in ThreadsOf(Receiver(y))
                 PROVE  /\ u \in Threads
                        /\ held'[u] = Msg(y) <=> held[u] = Msg(y) \/ (u = t /\ y = x)
                        /\ pc'[u] = IF u = t THEN l ELSE pc[u]
                        /\ u = t => held[u] # Msg(y)
      OBVIOUS
    <3>1. u \in Threads /\ Receiver(y) \in Procs
      BY <1>2
    <3>2. u = t => Receiver(y) = p
      BY <1>1, <3>1
    <3>3. u = t => (held'[u] = Msg(y) <=> y = x)
      BY <1>2, <1>4, <1>7, <3>2
    <3> QED
      BY <1>2, <1>3, <1>4, <1>5, <3>1, <3>3
  <2>5. y = x => t \in ThreadsOf(Receiver(y))
    BY <1>1, <1>7
  <2>6. Taking(y)' <=> Taking(y) \/ y = x
    <3>1. Taking(y)' <=> \E u \in ThreadsOf(Receiver(y)) : held'[u] = Msg(y)
      BY <1>2 DEF Taking
    <3>2. Taking(y) <=> \E u \in ThreadsOf(Receiver(y)) : held[u] = Msg(y)
      BY DEF Taking
    <3> QED
      BY <2>4, <2>5, <3>1, <3>2
  <2>7. TakenAt(y, "add")' <=> TakenAt(y, "add") \/ (y = x /\ Now = "forward")
    <3>1. TakenAt(y, "add")' <=> \E u \in ThreadsOf(Receiver(y)) : pc'[u] = "add" /\ held'[u] = Msg(y)
      BY <1>2 DEF TakenAt
    <3>2. TakenAt(y, "add") <=> \E u \in ThreadsOf(Receiver(y)) : pc[u] = "add" /\ held[u] = Msg(y)
      BY DEF TakenAt
    <3> QED
      BY <2>4, <2>5, <3>1, <3>2
  <2>8. TakenAt(y, "store")' <=> TakenAt(y, "store") \/ (y = x /\ Now # "forward")
    <3>1. TakenAt(y, "store")' <=> \E u \in ThreadsOf(Receiver(y)) : pc'[u] = "store" /\ held'[u] = Msg(y)
      BY <1>2 DEF TakenAt
    <3>2. TakenAt(y, "store") <=> \E u \in ThreadsOf(Receiver(y)) : pc[u] = "store" /\ held[u] = Msg(y)
      BY DEF TakenAt
    <3> QED
      BY <2>4, <2>5, <3>1, <3>2
  <2> QED
    BY <2>1, <2>2, <2>3, <2>6, <2>7, <2>8
<1>10. MessageInv'
  <2>1. \A u \in Threads : u # t => (Holding(u)' <=> Holding(u))
    BY <1>3 DEF Holding
  <2>2. Holding(t)' /\ held'[t] # NoMsg
    BY <1>2, <1>3, <1>4, <1>7 DEF Holding
  <2>3. \A u \in Threads : held'[u] # NoMsg <=> Holding(u)'
    BY <1>4, <2>1, <2>2 DEF MessageInv
  <2>4. {Msg(y) : y \in FanIns}' = {Msg(y) : y \in FanIns}
    BY <1>2
  <2>5. \A q, r \in Procs :
          /\ net'[<<q, r>>] \in Seq({Msg(y) : y \in FanIns}')
          /\ \A i \in 1 .. Len(net'[<<q, r>>]) :
                \E y \in FanIns : Sender(y)' = q /\ Receiver(y)' = r /\ net'[<<q, r>>][i] = Msg(y)'
    <3>1. \A y : Msg(y)' = Msg(y) /\ Sender(y)' = Sender(y) /\ Receiver(y)' = Receiver(y)
      BY <1>2
    <3>2. net' = net
      BY <1>4
    <3>3. /\ \A q, r \in Procs : net[<<q, r>>] \in Seq({Msg(y) : y \in FanIns})
          /\ \A q, r \in Procs : \A i \in 1 .. Len(net[<<q, r>>]) :
                \E y \in FanIns : Sender(y) = q /\ Receiver(y) = r /\ net[<<q, r>>][i] = Msg(y)
      BY DEF MessageInv
    <3>4. \A q, r \in Procs : net'[<<q, r>>] \in Seq({Msg(y) : y \in FanIns}')
      BY <2>4, <3>1, <3>2, <3>3
    <3>5. \A q, r \in Procs : \A i \in 1 .. Len(net'[<<q, r>>]) :
                \E y \in FanIns : Sender(y)' = q /\ Receiver(y)' = r /\ net'[<<q, r>>][i] = Msg(y)'
      BY <3>1, <3>2, <3>3
    <3> QED
      BY <3>4, <3>5
  <2>6. \A q \in Procs : BufferFull(q)' => \E y \in FanIns : Receiver(y)' = q /\ rcoeftab'[q] = Msg(y)'
    <3>1. \A q \in Procs : BufferFull(q)' => BufferFull(q)
      BY <1>4 DEF BufferFull
    <3> QED
      BY <1>2, <1>4, <3>1 DEF MessageInv
  <2>7. \A u \in Threads : held'[u] # NoMsg => \E y \in FanIns : Receiver(y)' = ProcOf(u) /\ held'[u] = Msg(y)'
    BY <1>2, <1>4, <1>7 DEF MessageInv
  <2>8. \A u \in Threads : \A y \in FanIns : pc'[u] \in Working /\ cur'[u] = y /\ ~ Dynamic => held'[u] = Msg(y)'
    BY <1>2, <1>3, <1>4 DEF MessageInv, Working
  <2> QED
    BY <2>3, <2>5, <2>6, <2>7, <2>8 DEF MessageInv
<1>11. ASSUME UnsentKept PROVE OnePlaceInv' /\ \A y \in FanIns : Coming(y)' <=> Coming(y) /\ y # x
  <2>1. ~ Unsent(x) /\ ~ InNet(x)
    BY <1>8 DEF OnePlaceInv
  <2>2. ASSUME NEW y \in FanIns
        PROVE  /\ Unsent(y)' => ~ InNet(y)' /\ ~ InBuffer(y)' /\ ~ Taking(y)'
               /\ InNet(y)' => ~ InBuffer(y)' /\ ~ Taking(y)'
               /\ InBuffer(y)' => ~ Taking(y)'
               /\ \A i, j \in 1 .. Len(Channel(y)') :
                     Channel(y)'[i] = Msg(y)' /\ Channel(y)'[j] = Msg(y)' => i = j
    <3>1. /\ Unsent(y) => ~ InNet(y) /\ ~ InBuffer(y) /\ ~ Taking(y)
          /\ InNet(y) => ~ InBuffer(y) /\ ~ Taking(y)
          /\ InBuffer(y) => ~ Taking(y)
      BY DEF OnePlaceInv
    <3>2. Unsent(y)' <=> Unsent(y)
      BY <1>11 DEF UnsentKept
    <3>3. \A i, j \in 1 .. Len(Channel(y)') :
                     Channel(y)'[i] = Msg(y)' /\ Channel(y)'[j] = Msg(y)' => i = j
      BY <1>2, <1>9 DEF OnePlaceInv
    <3> QED
      BY <1>9, <2>1, <3>1, <3>2, <3>3
  <2>3. OnePlaceInv'
    BY <2>2 DEF OnePlaceInv
  <2> QED
    BY <1>9, <1>11, <2>1, <2>3 DEF Coming, UnsentKept
<1> QED
  BY <1>7, <1>8, <1>9, <1>10, <1>11

LEMMA HandleRecvInv == ASSUME SolveInv, NEW t \in Threads, HandleRecv(t) PROVE SolveInv'
<1> USE DEF SolveInv
<1> DEFINE p == ProcOf(t)
           l == IF Now = "forward" THEN "add" ELSE "store"
<1>1. /\ TakeMessage(t) /\ Goto(t, IF Forward(p) THEN "add" ELSE "store")
      /\ UNCHANGED <<ctrbcnt, pos, queue, taskcnt, done, cur>>
      /\ UNCHANGED <<step, phase, todo, tosend, faninb, recvb, solved, got>>
  BY DEF HandleRecv, schedVars, solveVars
<1>2. pc[t] = "handle" /\ UNCHANGED posted /\ incoming' = [incoming EXCEPT ![p] = @ - 1]
  BY <1>1 DEF TakeMessage, Handles
<1>3. /\ p \in Procs /\ step[p] = Now /\ ~ NotYet(p) /\ (Forward(p) <=> Now = "forward")
      /\ Now' = Now /\ \A y : Receiver(y)' = Receiver(y)
  BY <1>1, <1>2, ThreadFacts, NowFacts, NowSame DEF ThreadInv, Placed, Looping, NotYet
<1>4. Goto(t, l)
  BY <1>1, <1>3
<1>5. pc'[t] = l /\ (\A u \in Threads : u # t => pc'[u] = pc[u]) /\ pc' = [u \in Threads |-> pc'[u]]
  BY <1>4, GotoFacts
<1>6. PICK x \in FanIns :
              /\ Receiver(x) = p /\ rcoeftab[p] = Msg(x) /\ Coming(x) /\ ~ Taking(x)
              /\ \A y \in FanIns :
                    /\ (InNet(y)' <=> InNet(y)) /\ (InBuffer(y)' <=> InBuffer(y) /\ y # x)
                    /\ Taking(y)' <=> Taking(y) \/ y = x
                    /\ TakenAt(y, "add")' <=> TakenAt(y, "add") \/ (y = x /\ Now = "forward")
                    /\ TakenAt(y, "store")' <=> TakenAt(y, "store") \/ (y = x /\ Now # "forward")
              /\ MessageInv'
              /\ UnsentKept => OnePlaceInv' /\ \A y \in FanIns : Coming(y)' <=> Coming(y) /\ y # x
  BY <1>1, <1>4, TakenMessage
<1> HIDE DEF l
<1>7. EngineInv'
  <2>1. l \notin Communicating \cup {"elect"} /\ rcoeftab[p] # NoMsg
    BY <1>6, RemoteFacts DEF l, Communicating
  <2> QED
    BY <1>1, <1>4, <2>1, TakeMessageInv
<1>8. ThreadInv'
  <2>1. SolveTypes' /\ StepsInv'
    BY <1>1, <1>5, StepsSame DEF ThreadInv, SolveTypes
  <2>2. \A q \in Procs : taskcnt'[q] <= taskcnt[q]
    BY <1>1 DEF ThreadInv, SolveTypes
  <2>3. /\ pc[t] \in Looping /\ l \in Looping \cup {"end"}
        /\ l \in {"add", "dec"} => Now = "forward"
        /\ l = "store" => Now = "backward"
        /\ l \notin {"pop", "popAgain", "steal", "wait", "end"}
    BY <1>2, NowFacts DEF l, Looping
  <2> QED
    BY <1>1, <1>2, <1>4, <2>1, <2>2, <2>3, ThreadLoops DEF taskVars
<1>9. StepsKept /\ TasksKept
  <2>1. pc[t] \notin Working /\ pc'[t] \notin Working
    BY <1>2, <1>5 DEF l, Working
  <2> QED
    BY <1>1, <1>5, <2>1, StepsKeptSame DEF TasksKept
<1>10. \A y \in FanIns : (UnsentSolution(y)' <=> UnsentSolution(y)) /\ (Queued(y)' <=> Queued(y))
  BY <1>1, <1>2, UnsentSolutionSame DEF Queued
<1>11. NewTasks' = NewTasks
  <2>1. ASSUME Now = "backward" PROVE \A y \in FanIns : Waiting(y)' <=> Waiting(y)
    <3>1. InBuffer(x)
      <4>1. recvreq[p] = "inactive"
        <5>1. Index(t) \in indexes[t] /\ reqtab[p][Index(t)].idx = NoIdx
          BY <1>1, HandledFacts DEF TakeMessage, Handles, Handled
        <5>2. held[t] = NoMsg
          BY <1>2 DEF EngineInv, Counted, Communicating
        <5> QED
          BY <1>3, <5>1, <5>2, ThreadFacts DEF EngineInv, Reception
      <4> QED
        BY <1>6, <4>1 DEF InBuffer, BufferFull
    <3> QED
      BY <1>6, <1>10, <2>1, <3>1 DEF Waiting
  <2> QED
    BY <1>1, <2>1, AheadSame
<1>12. EdgesKept
  <2>1. \A u \in Threads : Unmoved(u)
    BY <1>2, <1>5 DEF Unmoved, ThreadInv, AtTask, Working
  <2> QED
    BY <1>1, <1>11, <2>1, EdgesStay
<1>13. UnsentKept
  BY <1>1, <1>10, <1>12, UnsentSame DEF EdgesKept
<1>14. MessageInv' /\ OnePlaceInv' /\ \A y \in FanIns : Coming(y)' <=> Coming(y) /\ y # x
  BY <1>6, <1>13
<1>15. BegunInv'
  BY <1>9, <1>11, BegunSame
<1>16. \A y \in FanIns : (Coming(y) \/ Taking(y))' <=> (Coming(y) \/ Taking(y))
  BY <1>6, <1>14
<1>17. CounterInv' /\ ReadyInv'
  BY <1>1, <1>9, <1>12, <1>16, CounterSame, ReadySame DEF EdgesKept
<1>18. IncomingInv'
  <2>1. \A q \in Procs : incoming'[q] = IF q = p THEN incoming[p] - 1 ELSE incoming[q]
    BY <1>2, <1>3 DEF EngineInv, EngineTypes
  <2>2. ASSUME NEW q \in Procs
        PROVE  {y \in FanIns : Receiver(y)' = q /\ Coming(y)'} =
                  {y \in FanIns : Receiver(y) = q /\ Coming(y)} \ (IF q = p THEN {x} ELSE {})
    BY <1>3, <1>6, <1>14
  <2>3. x \in {y \in FanIns : Receiver(y) = p /\ Coming(y)}
    BY <1>6
  <2>4. IsFiniteSet({y \in FanIns : Receiver(y) = p /\ Coming(y)})
    BY FanInsFinite
  <2>5. Cardinality({y \in FanIns : Receiver(y) = p /\ Coming(y)} \ {x}) =
            Cardinality({y \in FanIns : Receiver(y) = p /\ Coming(y)}) - 1
    BY <2>3, <2>4, FS_RemoveElement
  <2>6. ASSUME NEW q \in Procs, ~ NotYet(q)
        PROVE  incoming'[q] = Cardinality({y \in FanIns : Receiver(y)' = q /\ Coming(y)'})
    <3>1. incoming[q] = Cardinality({y \in FanIns : Receiver(y) = q /\ Coming(y)})
      BY <2>6 DEF IncomingInv
    <3> QED
      BY <2>1, <2>2, <2>5, <3>1
  <2>7. ASSUME NEW q \in Procs, NotYet(q)
        PROVE  incoming'[q] = 0 /\ \A y \in FanIns : Receiver(y)' = q => Coming(y)'
    <3>1. q # p
      BY <1>3, <2>7
    <3>2. incoming[q] = 0 /\ \A y \in FanIns : Receiver(y) = q => Coming(y)
      BY <2>7 DEF IncomingInv
    <3> QED
      BY <1>3, <1>6, <1>14, <2>1, <3>1, <3>2
  <2> QED
    BY <1>9, <2>6, <2>7 DEF IncomingInv, StepsKept
<1>19. GotInv'
  <2>1. Now = "forward" =>
           \A y \in FanIns : (Coming(y) \/ TakenAt(y, "add"))' <=> (Coming(y) \/ TakenAt(y, "add"))
    BY <1>6, <1>14
  <2> QED
    BY <1>1, <1>12, <2>1, GotSame DEF EdgesKept
<1>20. TablesShrink /\ \A y \in FanIns : Pending(y)' <=> Pending(y)
  BY <1>1, TakeMessagePending
<1>21. SendInv'
  <2>1. EngineTypes'
    BY <1>7 DEF EngineInv
  <2> QED
    BY <1>1, <1>2, <1>9, <1>13, <1>20, <2>1, SendKept DEF StepsKept
<1>22. FanInInv'
  <2>1. \A u \in Threads : pc'[u] = "gemm" => pc[u] = "gemm" /\ todo'[u] = todo[u]
    BY <1>1, <1>5 DEF l
  <2> QED
    BY <1>1, <1>9, <1>10, <1>12, <1>13, <1>20, <2>1, FanInSame
<1>23. QueueInv'
  <2>1. \A u \in Threads : \A y \in queue'[u] :
              /\ y \notin FanIns => solved'[Now][y[2]] = 0 /\ ctrbcnt'[y] = 0
              /\ y \in FanIns => /\ ~ Coming(y)' /\ ~ TakenAt(y, "store")' /\ faninb'[y] = faninb[y]
                                 /\ \A v \in Threads : pc'[v] \in Working => cur'[v] # y
    <3>1. \A v \in Threads : pc'[v] \in Working => pc[v] \in Working /\ cur'[v] = cur[v]
      BY <1>1, <1>9 DEF TasksKept
    <3>2. \A y \in FanIns : ~ Coming(y) /\ ~ TakenAt(y, "store") => ~ Coming(y)' /\ ~ TakenAt(y, "store")'
      BY <1>6, <1>14
    <3> QED
      BY <1>1, <3>1, <3>2 DEF QueueInv
  <2> QED
    BY <1>1, <1>9, <2>1, QueueSame DEF StepsKept
<1>24. ASSUME ~ Dynamic, NEW u \in Threads PROVE InOrder(u)'
  <2>1. /\ pc'[u] = "end" => pc[u] = "end"
        /\ pc'[u] \in Working \cup Looping => pc[u] \in Working \cup Looping
        /\ pc'[u] \in Working <=> pc[u] \in Working
    BY <1>2, <1>5, <1>9 DEF l, Looping, TasksKept
  <2> QED
    BY <1>1, <1>9, <1>24, <2>1, InOrderSame
<1>25. Dynamic => CountInv'
  <2>1. \A y : DoneTask(y) => DoneTask(y)'
    BY <1>9, <1>11, DoneSame
  <2> QED
    BY <1>1, <1>9, <2>1, CountSame DEF StepsKept
<1> QED
  BY <1>7, <1>8, <1>14, <1>15, <1>17, <1>18, <1>19, <1>21, <1>22, <1>23, <1>24, <1>25

-----------------------------------------------------------------------------
(* A message is used.                                                      *)

(* The message a thread holds while it is at label l.                      *)
LEMMA HeldMessage ==
    ASSUME SolveInv, NEW t \in Threads, held[t] # NoMsg
    PROVE  \E x \in FanIns :
              /\ held[t] = Msg(x) /\ Receiver(x) = ProcOf(t) /\ Holds(t, x) /\ Taking(x)
              /\ ~ Coming(x) /\ ~ Unsent(x) /\ ~ InNet(x) /\ ~ InBuffer(x)
              /\ \A l : pc[t] = l => TakenAt(x, l)
              /\ \A y \in FanIns : Holds(t, y) => y = x
<1>1. PICK x \in FanIns : Receiver(x) = ProcOf(t) /\ held[t] = Msg(x)
  BY DEF SolveInv, MessageInv
<1>2. Holds(t, x) /\ Taking(x) /\ \A l : pc[t] = l => TakenAt(x, l)
  BY <1>1, ThreadFacts DEF Holds, Taking, TakenAt
<1>3. ~ Unsent(x) /\ ~ InNet(x) /\ ~ InBuffer(x)
  BY <1>2 DEF SolveInv, OnePlaceInv
<1>4. \A y \in FanIns : Holds(t, y) => y = x
  BY <1>1, RemoteFacts DEF Holds
<1> QED
  BY <1>1, <1>2, <1>3, <1>4 DEF Coming

LEMMA AddInv == ASSUME SolveInv, NEW t \in Threads, Add(t) PROVE SolveInv'
<1> USE DEF SolveInv
<1>1. /\ pc[t] = "add" /\ Goto(t, "dec")
      /\ got' = [got EXCEPT !["forward"] =
                    [e \in Edges |-> @[e] + IF <<"forward", e>> \in held[t].data THEN 1 ELSE 0]]
      /\ UNCHANGED <<engineVars, reqtab, incoming, posted, indexes, held, recvreq, rcoeftab, net>>
      /\ UNCHANGED <<ctrbcnt, pos, queue, taskcnt, done, cur>>
      /\ UNCHANGED <<step, phase, todo, tosend, faninb, recvb, solved>>
  BY DEF Add, engineVars, tableVars, threadVars, mpiVars, schedVars
<1>2. Now = "forward" /\ held[t] # NoMsg
  BY <1>1 DEF ThreadInv, Placed, MessageInv, Holding
<1>3. PICK x \in FanIns :
              /\ held[t] = Msg(x) /\ Receiver(x) = ProcOf(t) /\ Holds(t, x) /\ Taking(x)
              /\ ~ Coming(x) /\ ~ Unsent(x) /\ ~ InNet(x) /\ ~ InBuffer(x)
              /\ \A l : pc[t] = l => TakenAt(x, l)
              /\ \A y \in FanIns : Holds(t, y) => y = x
  BY <1>2, HeldMessage
<1>4. pc'[t] = "dec" /\ (\A u \in Threads : u # t => pc'[u] = pc[u]) /\ pc' = [u \in Threads |-> pc'[u]]
  BY <1>1, GotoFacts
<1>5. \A e \in Edges : <<"forward", e>> \in held[t].data <=> Home(e) = x
  <2>1. held[t].data = {<<"forward", e>> : e \in Contribs(x)}
    BY <1>2, <1>3, RemoteFacts DEF Data
  <2>2. \A e \in Edges : e \in Contribs(x) <=> Home(e) = x
    BY <1>2, <1>3, EdgeFacts, FanInsLocal
  <2> QED
    BY <2>1, <2>2
<1>6. TakenAt(x, "add")
  BY <1>1, <1>3
<1>7. \A e \in Edges : Home(e) = x => got[Now][e] = 0
  BY <1>6 DEF GotInv
<1>8. /\ got' \in [Steps -> [Edges -> {0, 1}]]
      /\ \A e \in Edges : got'[Now][e] = IF Home(e) = x THEN 1 ELSE got[Now][e]
      /\ \A s \in Steps : s # Now => got'[s] = got[s]
  <2> DEFINE h == [e \in Edges |-> got["forward"][e] + IF <<"forward", e>> \in held[t].data THEN 1 ELSE 0]
  <2>1. got \in [Steps -> [Edges -> {0, 1}]] /\ "forward" \in Steps
    BY DEF ThreadInv, SolveTypes, Steps
  <2>2. got' = [got EXCEPT !["forward"] = h]
    BY <1>1
  <2>3. ASSUME NEW e \in Edges
        PROVE  h[e] = (IF Home(e) = x THEN 1 ELSE got["forward"][e]) /\ got["forward"][e] \in {0, 1}
    <3>1. got["forward"][e] \in {0, 1}
      BY <2>1
    <3>2. h[e] = got["forward"][e] + IF <<"forward", e>> \in held[t].data THEN 1 ELSE 0
      OBVIOUS
    <3>3. Home(e) = x => got["forward"][e] = 0
      BY <1>2, <1>7
    <3> HIDE DEF h
    <3> QED
      BY <1>5, <3>1, <3>2, <3>3
  <2>4. h \in [Edges -> {0, 1}]
    <3>1. \A e \in Edges : h[e] \in {0, 1}
      BY <2>3
    <3> QED
      BY <3>1
  <2> HIDE DEF h
  <2> QED
    BY <1>2, <2>1, <2>2, <2>3, <2>4
<1>9. ThreadInv'
  <2>1. SolveTypes' /\ StepsInv'
    BY <1>1, <1>4, <1>8, StepsSame DEF ThreadInv, SolveTypes
  <2>2. \A q \in Procs : taskcnt'[q] <= taskcnt[q]
    BY <1>1 DEF ThreadInv, SolveTypes
  <2>3. pc[t] \in Looping /\ "dec" \in Looping
    BY <1>1 DEF Looping
  <2> QED
    BY <1>1, <1>2, <2>1, <2>2, <2>3, ThreadLoops DEF taskVars
<1>10. EngineInv'
  BY <1>1, EngineKept DEF Communicating
<1>11. MessagesKept /\ StepsKept
  BY <1>1, StepsKeptSame DEF MessagesKept, BufferFull
<1>12. HoldersKept /\ TasksKept
  BY <1>1, <1>4 DEF HoldersKept, TasksKept, AtFanIn, Working
<1>13. \A y \in FanIns : /\ (InNet(y)' <=> InNet(y)) /\ (InBuffer(y)' <=> InBuffer(y))
                         /\ (Taking(y)' <=> Taking(y))
                         /\ (TakenAt(y, "store")' <=> TakenAt(y, "store"))
  BY <1>1, <1>11, <1>12, PlacesHeld
<1>14. \A y \in FanIns : TakenAt(y, "add")' <=> TakenAt(y, "add") /\ y # x
  <2> SUFFICES ASSUME NEW y \in FanIns PROVE TakenAt(y, "add")' <=> TakenAt(y, "add") /\ y # x
    OBVIOUS
  <2>1. /\ Msg(y)' = Msg(y) /\ Receiver(y)' = Receiver(y) /\ Receiver(y) \in Procs
        /\ \A u \in ThreadsOf(Receiver(y)) : u \in Threads /\ ProcOf(u) = Receiver(y)
    BY <1>1, NowSame, RemoteFacts, ThreadFacts
  <2>2. TakenAt(y, "add")' <=> \E u \in ThreadsOf(Receiver(y)) : pc'[u] = "add" /\ held[u] = Msg(y)
    BY <1>1, <2>1 DEF TakenAt
  <2>3. CASE y = x
    <3>1. \A u \in ThreadsOf(Receiver(y)) : u # t => held[u] = NoMsg
      BY <1>2, <1>3, <2>3, HoldsAlone
    <3>2. Msg(y) # NoMsg
      BY RemoteFacts
    <3> QED
      BY <1>4, <2>2, <2>3, <3>1, <3>2
  <2>4. CASE y # x
    <3>1. t \in ThreadsOf(Receiver(y)) => held[t] # Msg(y)
      BY <1>3, <2>1, <2>4 DEF Holds
    <3> QED
      BY <1>4, <2>1, <2>2, <2>4, <3>1 DEF TakenAt
  <2> QED
    BY <2>3, <2>4
<1>15. \A y \in FanIns : (UnsentSolution(y)' <=> UnsentSolution(y)) /\ (Queued(y)' <=> Queued(y))
  BY <1>1, UnsentSolutionSame DEF Queued
<1>16. NewTasks' = NewTasks
  BY <1>1, <1>2, AheadSame
<1>17. EdgesKept
  <2>1. \A u \in Threads : Unmoved(u)
    BY <1>1, <1>4 DEF Unmoved, ThreadInv, AtTask, Working
  <2> QED
    BY <1>1, <1>16, <2>1, EdgesStay
<1>18. UnsentKept
  BY <1>1, <1>15, <1>17, UnsentSame DEF EdgesKept
<1>19. MessageInv' /\ OnePlaceInv' /\ ComingKept
  BY <1>1, <1>11, <1>12, <1>18, MessageHeld
<1>20. BegunInv'
  BY <1>12, <1>16, BegunSame
<1>21. \A y \in FanIns : (Coming(y) \/ Taking(y))' <=> (Coming(y) \/ Taking(y))
  BY <1>19 DEF ComingKept
<1>22. IncomingInv' /\ CounterInv' /\ ReadyInv'
  BY <1>1, <1>11, <1>17, <1>19, <1>21, IncomingSame, CounterSame, ReadySame DEF ComingKept, EdgesKept
<1>23. GotInv'
  <2>1. Now' = Now /\ \A e : Home(e)' = Home(e)
    BY <1>1, NowSame
  <2>2. \A e \in Edges : Home(e) \notin FanIns => got'[Now][e] = IF e \in FreshEdges' THEN 0 ELSE 1
    BY <1>3, <1>8, <1>17 DEF GotInv, EdgesKept
  <2>3. ASSUME NEW y \in FanIns, NEW e \in Edges, Home(e) = y
        PROVE  got'[Now][e] = IF Coming(y)' \/ TakenAt(y, "add")' THEN 0 ELSE 1
    <3>1. Coming(y)' <=> Coming(y)
      BY <1>19 DEF ComingKept
    <3>2. CASE y = x
      <4>1. got'[Now][e] = 1
        BY <1>8, <2>3, <3>2
      <4>2. ~ Coming(y)' /\ ~ TakenAt(y, "add")'
        BY <1>3, <1>14, <3>1, <3>2
      <4> QED
        BY <4>1, <4>2
    <3>3. CASE y # x
      <4>1. got[Now][e] = IF Coming(y) \/ TakenAt(y, "add") THEN 0 ELSE 1
        BY <2>3 DEF GotInv
      <4> QED
        BY <1>8, <1>14, <2>3, <3>1, <3>3, <4>1
    <3> QED
      BY <3>2, <3>3
  <2> QED
    BY <2>1, <2>2, <2>3 DEF GotInv
<1>24. TablesShrink /\ \A y \in FanIns : Pending(y)' <=> Pending(y)
  BY <1>1, TablesSame
<1>25. SendInv'
  <2>1. EngineTypes'
    BY <1>10 DEF EngineInv
  <2> QED
    BY <1>1, <1>11, <1>18, <1>24, <2>1, SendKept DEF StepsKept
<1>26. FanInInv'
  <2>1. \A u \in Threads : pc'[u] = "gemm" => pc[u] = "gemm" /\ todo'[u] = todo[u]
    BY <1>1, <1>4
  <2> QED
    BY <1>1, <1>12, <1>15, <1>17, <1>18, <1>24, <2>1, FanInSame
<1>27. QueueInv'
  BY <1>1, <1>11, <1>12, <1>13, <1>19, QueueKept
<1>28. ASSUME ~ Dynamic, NEW u \in Threads PROVE InOrder(u)'
  <2>1. /\ pc'[u] = "end" => pc[u] = "end"
        /\ pc'[u] \in Working \cup Looping => pc[u] \in Working \cup Looping
        /\ pc'[u] \in Working <=> pc[u] \in Working
    BY <1>1, <1>4, <1>12 DEF Looping, TasksKept
  <2> QED
    BY <1>1, <1>11, <1>28, <2>1, InOrderSame
<1>29. Dynamic => CountInv'
  <2>1. \A y : DoneTask(y) => DoneTask(y)'
    BY <1>12, <1>16, DoneSame
  <2> QED
    BY <1>1, <1>11, <2>1, CountSame DEF StepsKept
<1> QED
  BY <1>9, <1>10, <1>19, <1>20, <1>22, <1>23, <1>25, <1>26, <1>27, <1>28, <1>29

(* The contribution of the message is counted.                             *)
LEMMA DecCounter ==
    ASSUME SolveInv, Now = "forward", UNCHANGED step, StepsKept, LeftEdges' = LeftEdges,
           NEW x \in FanIns, NEW z \in Local, z = <<Own[x[2]], x[2]>>, ~ NotYet(z[1]),
           Taking(x), ~ Coming(x)', ~ Taking(x)',
           \A y \in FanIns : y # x => ((Coming(y) \/ Taking(y))' <=> (Coming(y) \/ Taking(y))),
           ctrbcnt' = [ctrbcnt EXCEPT ![z] = @ - 1]
    PROVE  CounterInv' /\ ctrbcnt[z] > 0 /\ Awaited(z) # {}
<1> USE DEF SolveInv
<1>1. z \notin FanIns /\ z[2] = x[2]
  BY FanInsLocal, FanInFacts
<1>2. Now' = Now /\ \A e : Home(e)' = Home(e)
  BY NowSame
<1>3. x \in Awaited(z)
  BY <1>1, RecvFacts DEF Awaited
<1>4. ASSUME NEW y \in Local PROVE Awaited(y)' = IF y = z THEN Awaited(z) \ {x} ELSE Awaited(y)
  <2>1. CASE y = z
    <3>1. \A w \in RecvsTo(z[2]) : w \in FanIns
      BY RecvFacts
    <3> QED
      BY <1>1, <1>2, <2>1, <3>1 DEF Awaited
  <2>2. CASE y # z /\ y \in FanIns
    BY <1>2, <2>2 DEF Awaited
  <2>3. CASE y # z /\ y \notin FanIns
    <3>1. y[2] # x[2]
      BY <2>3, EdgeFacts
    <3>2. \A w \in RecvsTo(y[2]) : w \in FanIns /\ w # x
      BY <3>1, RecvFacts
    <3> QED
      BY <1>2, <2>3, <3>2 DEF Awaited
  <2> QED
    BY <2>1, <2>2, <2>3
<1>5. \A y : IsFiniteSet(Awaited(y)) /\ Cardinality(Awaited(y)) \in Nat
  <2>1. \A y : Awaited(y) \subseteq FanIns
    BY RecvFacts DEF Awaited
  <2> QED
    BY <2>1, FanInsFinite
<1>6. Cardinality(Awaited(z) \ {x}) = Cardinality(Awaited(z)) - 1 /\ Cardinality(Awaited(z)) > 0
  <2>1. Cardinality(Awaited(z) \ {x}) = Cardinality(Awaited(z)) - 1
    <3>1. IsFiniteSet(Awaited(z))
      BY <1>5
    <3> QED
      BY <1>3, <3>1, FS_RemoveElement
  <2>2. Cardinality(Awaited(z)) # 0
    BY <1>3, <1>5, FS_EmptySet
  <2> QED
    BY <1>5, <2>1, <2>2
<1> DEFINE Facing(y) == {e \in LeftEdges : Home(e) = y}
<1>7. \A y : Facing(y)' = Facing(y) /\ Cardinality(Facing(y)) \in Nat
  <2>1. \A y : Facing(y) \subseteq Edges
    BY EdgesNested
  <2> QED
    BY <1>2, <2>1, EdgesFinite
<1>8. ASSUME NEW y \in Local
      PROVE  /\ Counter(y)' = IF y = z THEN Counter(y) - 1 ELSE Counter(y)
             /\ Counter(y) \in Nat /\ (y = z => Counter(y) > 0)
  <2>1. Counter(y) = Cardinality(Facing(y)) + Cardinality(Awaited(y))
    BY DEF Counter
  <2>2. Counter(y)' = Cardinality(Facing(y)) + Cardinality(Awaited(y)')
    BY <1>7 DEF Counter
  <2> HIDE DEF Facing
  <2>3. CASE y = z
    <3>1. Cardinality(Awaited(y)') = Cardinality(Awaited(y)) - 1 /\ Cardinality(Awaited(y)) > 0
      BY <1>4, <1>6, <2>3
    <3> QED
      BY <1>5, <1>7, <2>1, <2>2, <2>3, <3>1
  <2>4. CASE y # z
    <3>1. Cardinality(Awaited(y)') = Cardinality(Awaited(y))
      BY <1>4, <2>4
    <3> QED
      BY <1>5, <1>7, <2>1, <2>2, <2>4, <3>1
  <2> QED
    BY <2>3, <2>4
<1>9. /\ ctrbcnt \in [Local -> Nat]
      /\ \A y \in Local : ctrbcnt'[y] = IF y = z THEN ctrbcnt[y] - 1 ELSE ctrbcnt[y]
      /\ \A y \in Local : ~ NotYet(y[1]) => ctrbcnt[y] = Counter(y)
  BY DEF CounterInv
<1>10. ctrbcnt[z] > 0
  BY <1>8, <1>9
<1>11. \A y \in Local : ~ NotYet(y[1])' => ctrbcnt'[y] = Counter(y)'
  BY <1>8, <1>9, EdgeFacts DEF StepsKept
<1>12. ctrbcnt' \in [Local -> Nat]
  <2>1. \A y \in Local : ctrbcnt'[y] \in Nat
    BY <1>9, <1>10
  <2>2. ctrbcnt' = [y \in Local |-> ctrbcnt'[y]]
    BY <1>9
  <2> QED
    BY <2>1, <2>2
<1> QED
  BY <1>3, <1>10, <1>11, <1>12 DEF CounterInv

LEMMA DecInv == ASSUME SolveInv, NEW t \in Threads, Dec(t) PROVE SolveInv'
<1> USE DEF SolveInv
<1> DEFINE z == <<ProcOf(t), held[t].tag>>
<1>1. /\ pc[t] = "dec" /\ DropMessage(t) /\ ContributedByMessage(z)
      /\ UNCHANGED <<pos, taskcnt, done, cur>>
      /\ UNCHANGED <<step, phase, todo, tosend, faninb, recvb, solved, got>>
  BY DEF Dec, solveVars
<1>2. /\ Now = "forward" /\ held[t] # NoMsg /\ step[ProcOf(t)] = Now /\ ~ NotYet(ProcOf(t))
      /\ ProcOf(t) \in Procs
  BY <1>1, ThreadFacts DEF ThreadInv, Placed, MessageInv, Holding, Looping, NotYet
<1>3. PICK x \in FanIns :
              /\ held[t] = Msg(x) /\ Receiver(x) = ProcOf(t) /\ Holds(t, x) /\ Taking(x)
              /\ ~ Coming(x) /\ ~ Unsent(x) /\ ~ InNet(x) /\ ~ InBuffer(x)
              /\ \A l : pc[t] = l => TakenAt(x, l)
              /\ \A y \in FanIns : Holds(t, y) => y = x
  BY <1>2, HeldMessage
<1>4. z = <<Own[x[2]], x[2]>> /\ z \in Local \ FanIns /\ z[1] = ProcOf(t) /\ z[2] = x[2] /\ z[2] \in Cblks
  <2>1. held[t].tag = x[2] /\ ProcOf(t) = Own[x[2]]
    BY <1>2, <1>3, RemoteFacts
  <2> QED
    BY <2>1, FanInsLocal, FanInFacts
<1>5. PICK v \in Threads :
         /\ ProcOf(v) = ProcOf(t) /\ ctrbcnt' = [ctrbcnt EXCEPT ![z] = @ - 1]
         /\ queue' = IF Dynamic /\ ctrbcnt[z] = 1 THEN [queue EXCEPT ![v] = @ \cup {z}] ELSE queue
  BY <1>1, <1>2, ThreadFacts DEF ContributedByMessage, Contributed
<1>6. /\ UNCHANGED <<reqtab, incoming, outgoing, posted>> /\ Goto(t, "handle")
  BY <1>1 DEF DropMessage, tableVars
<1>7. pc'[t] = "handle" /\ (\A u \in Threads : u # t => pc'[u] = pc[u]) /\ pc' = [u \in Threads |-> pc'[u]]
  BY <1>6, GotoFacts
<1> HIDE DEF z
<1>8. /\ queue \in [Threads -> SUBSET Local] /\ queue' \in [Threads -> SUBSET Local]
      /\ \A u \in Threads : u # v => queue'[u] = queue[u]
      /\ queue'[v] = IF Dynamic /\ ctrbcnt[z] = 1 THEN queue[v] \cup {z} ELSE queue[v]
  <2>1. queue \in [Threads -> SUBSET Local]
    BY DEF ThreadInv, SolveTypes
  <2> QED
    BY <1>4, <1>5, <2>1
<1>9. EngineInv'
  BY <1>1, <1>2, DropMessageInv
<1>10. ThreadInv'
  <2>1. SolveTypes' /\ StepsInv'
    BY <1>1, <1>7, <1>8, StepsSame DEF ThreadInv, SolveTypes
  <2>2. \A q \in Procs : taskcnt'[q] <= taskcnt[q]
    BY <1>1 DEF ThreadInv, SolveTypes
  <2>3. pc[t] \in Looping /\ "handle" \in Looping
    BY <1>1 DEF Looping
  <2> QED
    BY <1>1, <1>6, <2>1, <2>2, <2>3, ThreadLoops DEF taskVars
<1>11. StepsKept /\ TasksKept
  BY <1>1, <1>7, StepsKeptSame DEF TasksKept, Working
<1>12. \A y \in FanIns :
                 /\ (InNet(y)' <=> InNet(y)) /\ (InBuffer(y)' <=> InBuffer(y))
                 /\ Taking(y)' <=> Taking(y) /\ y # x
                 /\ TakenAt(y, "add")' <=> TakenAt(y, "add")
                 /\ TakenAt(y, "store")' <=> TakenAt(y, "store")
  <2>1. \A y \in FanIns : Holds(t, y) <=> y = x
    BY <1>3
  <2>2. \A y \in FanIns :
                 /\ (InNet(y)' <=> InNet(y)) /\ (InBuffer(y)' <=> InBuffer(y))
                 /\ Taking(y)' <=> Taking(y) /\ ~ Holds(t, y)
                 /\ TakenAt(y, "add")' <=> TakenAt(y, "add") /\ ~ (pc[t] = "add" /\ Holds(t, y))
                 /\ TakenAt(y, "store")' <=> TakenAt(y, "store") /\ ~ (pc[t] = "store" /\ Holds(t, y))
    BY <1>1, <1>2, DroppedMessage
  <2> QED
    BY <1>1, <2>1, <2>2
<1>13. MessageInv' /\ (UnsentKept => OnePlaceInv' /\ \A y \in FanIns : Coming(y)' <=> Coming(y))
  BY <1>1, <1>2, DroppedMessage
<1>14. \A y \in FanIns : (UnsentSolution(y)' <=> UnsentSolution(y)) /\ (Queued(y)' <=> Queued(y))
  <2>1. \A y \in FanIns : UnsentSolution(y)' <=> UnsentSolution(y)
    BY <1>1, <1>6, UnsentSolutionSame
  <2>2. \A y \in FanIns : \A u \in Threads : y \in queue'[u] <=> y \in queue[u]
    BY <1>4, <1>8
  <2> QED
    BY <2>1, <2>2 DEF Queued
<1>15. NewTasks' = NewTasks
  BY <1>1, <1>2, AheadSame
<1>16. EdgesKept
  <2>1. \A u \in Threads : Unmoved(u)
    BY <1>1, <1>7 DEF Unmoved, ThreadInv, AtTask, Working
  <2> QED
    BY <1>1, <1>15, <2>1, EdgesStay
<1>17. UnsentKept
  BY <1>1, <1>14, <1>16, UnsentSame DEF EdgesKept
<1>18. OnePlaceInv' /\ \A y \in FanIns : Coming(y)' <=> Coming(y)
  BY <1>13, <1>17
<1>19. BegunInv'
  BY <1>11, <1>15, BegunSame
<1>20. /\ \A y \in FanIns : y # x => ((Coming(y) \/ Taking(y))' <=> (Coming(y) \/ Taking(y)))
       /\ \A y \in FanIns : (Coming(y) \/ Taking(y))' => (Coming(y) \/ Taking(y))
       /\ ~ Coming(x)' /\ ~ Taking(x)'
  BY <1>3, <1>12, <1>18
<1>21. IncomingInv'
  BY <1>1, <1>6, <1>11, <1>18, IncomingSame
<1>22. ReadyInv'
  BY <1>1, <1>16, <1>20, ReadySame DEF EdgesKept
<1>23. CounterInv' /\ ctrbcnt[z] > 0 /\ Awaited(z) # {}
  BY <1>1, <1>2, <1>3, <1>4, <1>5, <1>11, <1>16, <1>20, DecCounter DEF EdgesKept
<1>24. GotInv'
  <2>1. \A y \in FanIns : (Coming(y) \/ TakenAt(y, "add"))' <=> (Coming(y) \/ TakenAt(y, "add"))
    BY <1>12, <1>18
  <2> QED
    BY <1>1, <1>16, <2>1, GotSame DEF EdgesKept
<1>25. TablesShrink /\ \A y \in FanIns : Pending(y)' <=> Pending(y)
  BY <1>1, <1>2, <1>6, DropMessagePending DEF TablesShrink
<1>26. SendInv'
  <2>1. EngineTypes'
    BY <1>9 DEF EngineInv
  <2> QED
    BY <1>1, <1>6, <1>11, <1>17, <1>25, <2>1, SendKept DEF StepsKept
<1>27. FanInInv'
  <2>1. \A u \in Threads : pc'[u] = "gemm" => pc[u] = "gemm" /\ todo'[u] = todo[u]
    BY <1>1, <1>7
  <2> QED
    BY <1>1, <1>11, <1>14, <1>16, <1>17, <1>25, <2>1, FanInSame
<1>28. QueueInv'
  <2>1. Now' = Now /\ \A y : Data(y)' = Data(y)
    BY <1>1, NowSame
  <2>2. Dynamic /\ ctrbcnt[z] = 1 => \A u \in Threads : z \notin queue[u]
    BY <1>4, <1>8 DEF QueueInv
  <2>3. \A u, w \in Threads : queue'[u] \cap queue'[w] # {} => u = w
    BY <1>8, <2>2 DEF QueueInv
  <2>4. /\ ctrbcnt \in [Local -> Nat]
        /\ \A y \in Local : ctrbcnt'[y] = IF y = z THEN ctrbcnt[z] - 1 ELSE ctrbcnt[y]
    BY <1>4, <1>5 DEF CounterInv
  <2>5. ASSUME NEW u \in Threads, NEW y \in queue'[u]
        PROVE  /\ Dynamic /\ y[1] = ProcOf(u) /\ ~ NotYet(y[1])'
               /\ y \notin FanIns => solved'[Now'][y[2]] = 0 /\ ctrbcnt'[y] = 0
               /\ y \in FanIns => /\ Now' = "backward" /\ ~ Coming(y)' /\ ~ TakenAt(y, "store")'
                                  /\ faninb'[y] = <<Data(y)'>>
                                  /\ \A w \in Threads : pc'[w] \in Working => cur'[w] # y
    <3>1. y \in Local /\ ProcOf(u) \in Procs
      BY <1>8, ThreadFacts
    <3>2. CASE y \in queue[u]
      <4>1. y \notin FanIns /\ ctrbcnt[y] = 0 /\ solved[Now][y[2]] = 0 /\ Dynamic /\ y[1] = ProcOf(u) /\ ~ NotYet(y[1])
        BY <1>2, <3>2 DEF QueueInv
      <4>2. y # z
        BY <1>23, <4>1
      <4> QED
        BY <1>1, <1>11, <2>1, <2>4, <3>1, <4>1, <4>2 DEF StepsKept
    <3>3. CASE y \notin queue[u]
      <4>1. y = z /\ u = v /\ Dynamic /\ ctrbcnt[z] = 1
        BY <1>8, <2>5, <3>3
      <4>2. solved[Now][z[2]] = 0
        BY <1>4, <1>23 DEF ReadyInv
      <4>3. ctrbcnt'[z] = 0
        BY <1>4, <2>4, <4>1
      <4> QED
        BY <1>1, <1>2, <1>4, <1>5, <1>11, <2>1, <4>1, <4>2, <4>3 DEF StepsKept
    <3> QED
      BY <3>2, <3>3
  <2> QED
    BY <2>3, <2>5 DEF QueueInv
<1>29. ASSUME ~ Dynamic, NEW u \in Threads PROVE InOrder(u)'
  <2>1. /\ pc'[u] = "end" => pc[u] = "end"
        /\ pc'[u] \in Working \cup Looping => pc[u] \in Working \cup Looping
        /\ pc'[u] \in Working <=> pc[u] \in Working
    BY <1>1, <1>7, <1>11 DEF Looping, TasksKept
  <2> QED
    BY <1>1, <1>11, <1>29, <2>1, InOrderSame
<1>30. Dynamic => CountInv'
  <2>1. \A y : DoneTask(y) => DoneTask(y)'
    BY <1>11, <1>15, DoneSame
  <2> QED
    BY <1>1, <1>11, <2>1, CountSame DEF StepsKept
<1> QED
  BY <1>9, <1>10, <1>13, <1>18, <1>19, <1>21, <1>22, <1>23, <1>24, <1>26, <1>27, <1>28, <1>29, <1>30

(* A message of the backward step that is stored.                          *)
LEMMA StoredMessage ==
    ASSUME SolveInv, NEW t \in Threads, pc[t] = "store"
    PROVE  /\ Now = "backward" /\ held[t] # NoMsg /\ ProcOf(t) \in Procs
           /\ step[ProcOf(t)] = Now /\ ~ NotYet(ProcOf(t))
           /\ <<ProcOf(t), held[t].tag>> \in FanIns
           /\ \E x \in FanIns :
              /\ x = <<ProcOf(t), held[t].tag>> /\ x[1] = ProcOf(t)
              /\ held[t] = Msg(x) /\ held[t].data = Data(x) /\ Receiver(x) = ProcOf(t) /\ Holds(t, x)
              /\ ~ Coming(x) /\ ~ Unsent(x) /\ ~ InNet(x) /\ ~ InBuffer(x)
              /\ TakenAt(x, "store") /\ Taking(x) /\ x \in NewTasks /\ ~ Queued(x)
              /\ \A u \in Threads : pc[u] \in Working => cur[u] # x
              /\ \A y \in FanIns : Holds(t, y) => y = x
<1> USE DEF SolveInv
<1>1. /\ Now = "backward" /\ held[t] # NoMsg /\ step[ProcOf(t)] = Now /\ ~ NotYet(ProcOf(t))
      /\ ProcOf(t) \in Procs
  BY ThreadFacts DEF ThreadInv, Placed, MessageInv, Holding, Looping, NotYet
<1>2. PICK x \in FanIns :
              /\ held[t] = Msg(x) /\ Receiver(x) = ProcOf(t) /\ Holds(t, x) /\ Taking(x)
              /\ ~ Coming(x) /\ ~ Unsent(x) /\ ~ InNet(x) /\ ~ InBuffer(x)
              /\ \A l : pc[t] = l => TakenAt(x, l)
              /\ \A y \in FanIns : Holds(t, y) => y = x
  BY <1>1, HeldMessage
<1>3. held[t].tag = x[2] /\ held[t].data = Data(x) /\ x[1] = ProcOf(t) /\ x = <<x[1], x[2]>>
  BY <1>1, <1>2, RemoteFacts, FanInFacts
<1>4. x \in Local
  BY FanInsLocal
<1>5. TakenAt(x, "store")
  BY <1>2
<1>6. x \in NewTasks
  BY <1>4, <1>5 DEF NewTasks, Ahead
<1>7. ~ Queued(x)
  BY <1>5 DEF Queued, QueueInv
<1>8. \A u \in Threads : pc[u] \in Working => cur[u] # x
  BY <1>6 DEF BegunInv
<1>9. x = <<ProcOf(t), held[t].tag>>
  BY <1>3
<1> QED
  BY <1>1, <1>2, <1>3, <1>5, <1>6, <1>7, <1>8, <1>9

(* dynamic: the fan-in is queued.                                          *)
LEMMA StoreQueueInv == ASSUME SolveInv, NEW t \in Threads, Store(t), Dynamic PROVE SolveInv'
<1> USE DEF SolveInv
<1>1. pc[t] = "store"
  BY DEF Store
<1>2. /\ Now = "backward" /\ held[t] # NoMsg /\ ProcOf(t) \in Procs
      /\ step[ProcOf(t)] = Now /\ ~ NotYet(ProcOf(t))
  BY <1>1, StoredMessage
<1>3. PICK x \in FanIns :
              /\ x = <<ProcOf(t), held[t].tag>> /\ x[1] = ProcOf(t)
              /\ held[t] = Msg(x) /\ held[t].data = Data(x) /\ Receiver(x) = ProcOf(t) /\ Holds(t, x)
              /\ ~ Coming(x) /\ ~ Unsent(x) /\ ~ InNet(x) /\ ~ InBuffer(x)
              /\ TakenAt(x, "store") /\ Taking(x) /\ x \in NewTasks /\ ~ Queued(x)
              /\ \A u \in Threads : pc[u] \in Working => cur[u] # x
              /\ \A y \in FanIns : Holds(t, y) => y = x
  BY <1>1, StoredMessage
<1>4. /\ DropMessage(t) /\ UNCHANGED <<ctrbcnt, pos, taskcnt, done, cur>>
      /\ UNCHANGED <<step, phase, todo, tosend, recvb, solved, got>>
      /\ faninb' = [faninb EXCEPT ![x] = <<Data(x)>>]
      /\ queue' = [queue EXCEPT ![t] = @ \cup {x}]
  BY <1>3 DEF Store
<1>5. UNCHANGED <<reqtab, incoming, outgoing, posted>> /\ Goto(t, "handle")
  BY <1>4 DEF DropMessage, tableVars
<1>6. pc'[t] = "handle" /\ (\A u \in Threads : u # t => pc'[u] = pc[u]) /\ pc' = [u \in Threads |-> pc'[u]]
  BY <1>5, GotoFacts
<1>7. /\ queue \in [Threads -> SUBSET Local] /\ queue' \in [Threads -> SUBSET Local]
      /\ \A u \in Threads : u # t => queue'[u] = queue[u]
      /\ queue'[t] = queue[t] \cup {x}
  <2>1. queue \in [Threads -> SUBSET Local] /\ x \in Local
    BY FanInsLocal DEF ThreadInv, SolveTypes
  <2> QED
    BY <1>4, <2>1
<1>8. /\ faninb' = [y \in FanIns |-> faninb'[y]] /\ faninb'[x] = <<Data(x)>>
      /\ \A y \in FanIns : y # x => faninb'[y] = faninb[y]
  BY <1>4 DEF ThreadInv, SolveTypes
<1>9. EngineInv'
  BY <1>2, <1>4, DropMessageInv
<1>10. ThreadInv'
  <2>1. SolveTypes' /\ StepsInv'
    BY <1>4, <1>6, <1>7, <1>8, StepsSame DEF ThreadInv, SolveTypes
  <2>2. \A q \in Procs : taskcnt'[q] <= taskcnt[q]
    BY <1>4 DEF ThreadInv, SolveTypes
  <2>3. pc[t] \in Looping /\ "handle" \in Looping
    BY <1>1 DEF Looping
  <2> QED
    BY <1>4, <1>5, <2>1, <2>2, <2>3, ThreadLoops DEF taskVars
<1>11. StepsKept /\ TasksKept
  BY <1>1, <1>4, <1>6, StepsKeptSame DEF TasksKept, Working
<1>12. \A y \in FanIns :
                 /\ (InNet(y)' <=> InNet(y)) /\ (InBuffer(y)' <=> InBuffer(y))
                 /\ Taking(y)' <=> Taking(y) /\ y # x
                 /\ TakenAt(y, "store")' <=> TakenAt(y, "store") /\ y # x
  <2>1. \A y \in FanIns : Holds(t, y) <=> y = x
    BY <1>3
  <2>2. \A y \in FanIns :
                 /\ (InNet(y)' <=> InNet(y)) /\ (InBuffer(y)' <=> InBuffer(y))
                 /\ Taking(y)' <=> Taking(y) /\ ~ Holds(t, y)
                 /\ TakenAt(y, "store")' <=> TakenAt(y, "store") /\ ~ (pc[t] = "store" /\ Holds(t, y))
    BY <1>2, <1>4, DroppedMessage
  <2> QED
    BY <1>1, <2>1, <2>2
<1>13. MessageInv' /\ (UnsentKept => OnePlaceInv' /\ \A y \in FanIns : Coming(y)' <=> Coming(y))
  BY <1>2, <1>4, DroppedMessage
<1>14. /\ \A y \in FanIns : UnsentSolution(y)' <=> UnsentSolution(y)
       /\ \A y \in FanIns : Queued(y)' <=> Queued(y) \/ y = x
  <2>1. \A y \in FanIns : UnsentSolution(y)' <=> UnsentSolution(y)
    BY <1>4, <1>5, UnsentSolutionSame
  <2>2. \A y \in FanIns : \A u \in Threads : y \in queue'[u] <=> y \in queue[u] \/ (u = t /\ y = x)
    BY <1>7
  <2> QED
    BY <2>1, <2>2 DEF Queued
<1>15. NewTasks' = NewTasks
  <2>1. \A y \in FanIns : Waiting(y)' <=> Waiting(y)
    BY <1>3, <1>12, <1>14 DEF Waiting
  <2> QED
    BY <1>4, <2>1, AheadSame
<1>16. EdgesKept
  <2>1. \A u \in Threads : Unmoved(u)
    BY <1>1, <1>6 DEF Unmoved, ThreadInv, AtTask, Working
  <2> QED
    BY <1>4, <1>15, <2>1, EdgesStay
<1>17. UnsentKept
  BY <1>4, <1>14, <1>16, UnsentSame DEF EdgesKept
<1>18. OnePlaceInv' /\ \A y \in FanIns : Coming(y)' <=> Coming(y)
  BY <1>13, <1>17
<1>19. BegunInv'
  BY <1>11, <1>15, BegunSame
<1>20. IncomingInv'
  BY <1>4, <1>5, <1>11, <1>18, IncomingSame
<1>21. ReadyInv' /\ CounterInv' /\ GotInv'
  BY <1>2, <1>4, <1>11, <1>16, ReadySame, CounterSame, GotSame DEF EdgesKept
<1>22. TablesShrink /\ \A y \in FanIns : Pending(y)' <=> Pending(y)
  BY <1>2, <1>4, <1>5, DropMessagePending DEF TablesShrink
<1>23. SendInv'
  <2>1. EngineTypes'
    BY <1>9 DEF EngineInv
  <2> QED
    BY <1>4, <1>5, <1>11, <1>17, <1>22, <2>1, SendKept DEF StepsKept
<1>24. Now' = Now /\ \A y : Data(y)' = Data(y)
  BY <1>4, NowSame
<1>25. \A u \in Threads : pc'[u] \in Working => pc[u] \in Working /\ cur'[u] = cur[u]
  BY <1>4, <1>11 DEF TasksKept
<1>26. FanInInv'
  <2>1. ASSUME NEW u \in Threads, pc'[u] = "gemm" PROVE FALSE
    <3>1. pc[u] = "gemm"
      BY <1>6, <2>1
    <3>2. todo[u] # {} /\ Target(u) \in FanIns
      BY <3>1 DEF ThreadInv, AtTask
    <3> QED
      BY <1>2, <3>2, AtEdge
  <2>2. ASSUME NEW y \in FanIns, faninb'[y] # <<>>
        PROVE  Queued(y)' \/ \E u \in Threads : pc'[u] \in Working /\ cur'[u] = y
    <3>1. CASE y = x
      BY <1>14, <3>1
    <3>2. CASE y # x
      <4>1. Queued(y) \/ \E u \in Threads : pc[u] \in Working /\ cur[u] = y
        BY <1>2, <1>8, <2>2, <3>2 DEF FanInInv
      <4> QED
        BY <1>4, <1>11, <1>14, <4>1 DEF TasksKept
    <3> QED
      BY <3>1, <3>2
  <2>3. ASSUME NEW u \in Threads, NEW y \in FanIns, pc'[u] \in Working, cur'[u] = y
        PROVE  faninb'[y] = <<Data(y)>>
    <3>1. pc[u] \in Working /\ cur[u] = y
      BY <1>25, <2>3
    <3>2. y # x /\ faninb[y] = <<Data(y)>>
      BY <1>3, <3>1 DEF FanInInv
    <3> QED
      BY <1>8, <3>2
  <2> QED
    BY <1>2, <1>24, <2>1, <2>2, <2>3, FanInBackward
<1>27. QueueInv'
  <2>1. \A u, w \in Threads : queue'[u] \cap queue'[w] # {} => u = w
    <3>1. \A u \in Threads : x \notin queue[u]
      BY <1>3 DEF Queued
    <3> QED
      BY <1>7, <3>1 DEF QueueInv
  <2>2. ASSUME NEW u \in Threads, NEW y \in queue'[u]
        PROVE  /\ Dynamic /\ y[1] = ProcOf(u) /\ ~ NotYet(y[1])'
               /\ y \notin FanIns => solved'[Now'][y[2]] = 0 /\ ctrbcnt'[y] = 0
               /\ y \in FanIns => /\ Now' = "backward" /\ ~ Coming(y)' /\ ~ TakenAt(y, "store")'
                                  /\ faninb'[y] = <<Data(y)'>>
                                  /\ \A w \in Threads : pc'[w] \in Working => cur'[w] # y
    <3>1. y \in Local /\ ProcOf(u) \in Procs
      BY <1>7, ThreadFacts
    <3>2. CASE y \in queue[u] /\ y # x
      <4>1. /\ Dynamic /\ y[1] = ProcOf(u) /\ ~ NotYet(y[1])
            /\ y \notin FanIns => solved[Now][y[2]] = 0 /\ ctrbcnt[y] = 0
        BY <3>2 DEF QueueInv
      <4>2. y \in FanIns => /\ Now = "backward" /\ ~ Coming(y) /\ ~ TakenAt(y, "store")
                            /\ faninb[y] = <<Data(y)>>
                            /\ \A w \in Threads : pc[w] \in Working => cur[w] # y
        BY <3>2 DEF QueueInv
      <4>3. ~ NotYet(y[1])'
        BY <1>11, <3>1, <4>1 DEF StepsKept
      <4>4. y \in FanIns => /\ ~ Coming(y)' /\ ~ TakenAt(y, "store")'
                            /\ \A w \in Threads : pc'[w] \in Working => cur'[w] # y
        BY <1>12, <1>18, <1>25, <4>2
      <4> QED
        BY <1>4, <1>8, <1>24, <3>2, <4>1, <4>2, <4>3, <4>4
    <3>3. CASE ~ (y \in queue[u] /\ y # x)
      <4>1. y = x /\ u = t
        <5>1. x \notin queue[u]
          BY <1>3 DEF Queued
        <5> QED
          BY <1>7, <2>2, <3>3, <5>1
      <4>2. ~ NotYet(x[1])'
        BY <1>2, <1>3, <1>11 DEF StepsKept
      <4>3. ~ Coming(x)' /\ ~ TakenAt(x, "store")' /\ \A w \in Threads : pc'[w] \in Working => cur'[w] # x
        BY <1>3, <1>12, <1>18, <1>25
      <4> QED
        BY <1>2, <1>3, <1>8, <1>24, <4>1, <4>2, <4>3
    <3> QED
      BY <3>2, <3>3
  <2> QED
    BY <2>1, <2>2 DEF QueueInv
<1>28. CountInv'
  <2>1. \A y : DoneTask(y) => DoneTask(y)'
    BY <1>11, <1>15, DoneSame
  <2> QED
    BY <1>4, <1>11, <2>1, CountSame DEF StepsKept
<1> QED
  BY <1>9, <1>10, <1>13, <1>18, <1>19, <1>20, <1>21, <1>23, <1>26, <1>27, <1>28

(* static: the fan-in is computed at once.                                 *)
LEMMA StoreComputeInv == ASSUME SolveInv, NEW t \in Threads, Store(t), ~ Dynamic PROVE SolveInv'
<1> USE DEF SolveInv
<1>1. pc[t] = "store"
  BY DEF Store
<1>2. /\ Now = "backward" /\ held[t] # NoMsg /\ ProcOf(t) \in Procs
      /\ step[ProcOf(t)] = Now /\ ~ NotYet(ProcOf(t))
  BY <1>1, StoredMessage
<1>3. PICK x \in FanIns :
              /\ x = <<ProcOf(t), held[t].tag>> /\ x[1] = ProcOf(t)
              /\ held[t] = Msg(x) /\ held[t].data = Data(x) /\ Receiver(x) = ProcOf(t) /\ Holds(t, x)
              /\ ~ Coming(x) /\ ~ Unsent(x) /\ ~ InNet(x) /\ ~ InBuffer(x)
              /\ TakenAt(x, "store") /\ Taking(x) /\ x \in NewTasks /\ ~ Queued(x)
              /\ \A u \in Threads : pc[u] \in Working => cur[u] # x
              /\ \A y \in FanIns : Holds(t, y) => y = x
  BY <1>1, StoredMessage
<1>4. /\ UNCHANGED <<engineVars, reqtab, incoming, posted, indexes, held, recvreq, rcoeftab, net>>
      /\ UNCHANGED <<ctrbcnt, pos, queue, taskcnt, done>> /\ Goto(t, "update")
      /\ UNCHANGED <<step, phase, tosend, recvb, solved, got>>
      /\ faninb' = [faninb EXCEPT ![x] = <<Data(x)>>]
      /\ cur' = [cur EXCEPT ![t] = x] /\ todo' = [todo EXCEPT ![t] = Contribs(x)]
  BY <1>3 DEF Store, Contribs, engineVars, tableVars, threadVars, mpiVars
<1>5. pc'[t] = "update" /\ (\A u \in Threads : u # t => pc'[u] = pc[u]) /\ pc' = [u \in Threads |-> pc'[u]]
  BY <1>4, GotoFacts
<1>6. /\ Now' = Now /\ (\A y : Data(y)' = Data(y)) /\ \A y : Msg(y)' = Msg(y)
      /\ \A y : Receiver(y)' = Receiver(y) /\ Sender(y)' = Sender(y)
  BY <1>4, NowSame
<1>7. x \in Local /\ x[1] \in Procs /\ x[2] \in Cblks
  BY FanInsLocal, FanInFacts
<1>8. /\ cur'[t] = x /\ (\A u \in Threads : u # t => cur'[u] = cur[u])
      /\ cur' \in [Threads -> Local \cup {NoIdx}]
  BY <1>4, <1>7 DEF ThreadInv, SolveTypes
<1>9. /\ faninb' = [y \in FanIns |-> faninb'[y]] /\ faninb'[x] = <<Data(x)>>
      /\ \A y \in FanIns : y # x => faninb'[y] = faninb[y]
  BY <1>4 DEF ThreadInv, SolveTypes
<1>10. /\ todo' \in [Threads -> SUBSET Edges] /\ todo'[t] = {e \in Edges : TaskOf(e) = x}
       /\ \A u \in Threads : u # t => todo'[u] = todo[u]
  <2>1. todo \in [Threads -> SUBSET Edges]
    BY DEF ThreadInv, SolveTypes
  <2>2. Contribs(x) \subseteq Edges /\ \A e \in Edges : e \in Contribs(x) <=> TaskOf(e) = x
    BY <1>2, <1>7, EdgeFacts
  <2>3. Contribs(x) = {e \in Edges : TaskOf(e) = x}
    BY <2>2
  <2> QED
    BY <1>4, <2>1, <2>2, <2>3
<1>11. /\ pc[t] \in Looping /\ pc[t] \notin Working /\ pc[t] \notin Communicating
       /\ todo[t] = {} /\ tosend[t] = {} /\ posted[t] = NoIdx
  <2>1. pc[t] \in Looping /\ pc[t] \notin Working /\ pc[t] \notin Communicating
    BY <1>1 DEF Looping, Working, Communicating
  <2> QED
    BY <1>1, <2>1 DEF ThreadInv, AtTask
<1>12. ThreadInv'
  <2>1. SolveTypes'
    BY <1>4, <1>5, <1>8, <1>9, <1>10 DEF ThreadInv, SolveTypes
  <2>2. StepsInv'
    BY <1>4, StepsSame DEF ThreadInv, SolveTypes
  <2>3. \A u \in Threads : u # t => todo'[u] = todo[u] /\ tosend'[u] = tosend[u]
    BY <1>4, <1>10
  <2>4. tosend'[t] = IF Now = "forward" \/ x \in FanIns THEN {} ELSE RecvsTo(x[2])
    BY <1>4, <1>11
  <2> QED
    <3>1. UNCHANGED <<step, phase, posted, taskcnt>> /\ cur' = [cur EXCEPT ![t] = x] /\ Goto(t, "update")
      BY <1>4
    <3>2. \A u \in Threads : pc[u] \in Working => cur[u] # x
      BY <1>3
    <3>3. pc[t] \in Looping /\ todo'[t] = {e \in Edges : TaskOf(e) = x}
      BY <1>10, <1>11
    <3>4. x[1] = ProcOf(t) /\ x \in Local /\ Now = "backward"
      BY <1>2, <1>3, <1>7
    <3> QED
      BY <2>1, <2>2, <2>3, <2>4, <3>1, <3>2, <3>3, <3>4, ThreadBegins
<1>13. EngineInv'
  <2>1. "update" \notin Communicating
    BY DEF Communicating
  <2> QED
    BY <1>4, <1>11, <2>1, EngineKept
<1>14. StepsKept
  BY <1>4, StepsKeptSame
<1>15. \A y \in FanIns : (UnsentSolution(y)' <=> UnsentSolution(y)) /\ (Queued(y)' <=> Queued(y))
  BY <1>4, UnsentSolutionSame DEF Queued
<1>16. ASSUME NEW y \in FanIns
       PROVE  /\ (InNet(y)' <=> InNet(y)) /\ (InBuffer(y)' <=> InBuffer(y)) /\ Channel(y)' = Channel(y)
              /\ Taking(y)' <=> Taking(y)
              /\ TakenAt(y, "store")' <=> TakenAt(y, "store") /\ y # x
  <2>1. Channel(y)' = Channel(y)
    BY <1>4, <1>6 DEF Channel
  <2>2. (InNet(y)' <=> InNet(y)) /\ (InBuffer(y)' <=> InBuffer(y)) /\ (Taking(y)' <=> Taking(y))
    BY <1>4, <1>6, <2>1 DEF InNet, InBuffer, BufferFull, Taking
  <2>3. ThreadsOf(Receiver(y)) \subseteq Threads
    BY RemoteFacts, ThreadFacts
  <2>4. TakenAt(y, "store")' <=> \E u \in ThreadsOf(Receiver(y)) : u # t /\ pc[u] = "store" /\ held[u] = Msg(y)
    BY <1>4, <1>5, <1>6, <2>3 DEF TakenAt
  <2>5. CASE y = x
    <3>1. \A u \in ThreadsOf(Receiver(y)) : u # t => held[u] = NoMsg
      BY <1>2, <1>3, <2>5, HoldsAlone
    <3>2. Msg(y) # NoMsg
      BY RemoteFacts
    <3> QED
      BY <2>1, <2>2, <2>4, <2>5, <3>1, <3>2
  <2>6. CASE y # x
    <3>1. \A u \in ThreadsOf(Receiver(y)) : held[u] = Msg(y) => u # t
      <4>1. t \in ThreadsOf(Receiver(y)) => ProcOf(t) = Receiver(y)
        BY RemoteFacts, ThreadFacts
      <4>2. ~ Holds(t, y)
        BY <1>3, <2>6
      <4> QED
        BY <4>1, <4>2 DEF Holds
    <3> QED
      BY <2>1, <2>2, <2>4, <2>6, <3>1 DEF TakenAt
  <2> QED
    BY <2>5, <2>6
<1>17. NewTasks' = NewTasks \ {x}
  <2>1. ASSUME NEW y \in Local PROVE Ahead(y)' <=> Ahead(y) /\ y # x
    <3>1. CASE y \notin FanIns
      BY <1>4, <1>6, <3>1 DEF Ahead
    <3>2. CASE y \in FanIns
      <4>1. (Ahead(y) <=> Waiting(y)) /\ (Ahead(y)' <=> Waiting(y)')
        BY <1>2, <1>6, <3>2 DEF Ahead, Waiting
      <4>2. CASE y = x
        <5>1. ~ UnsentSolution(x)
          BY <1>2, <1>3 DEF Unsent
        <5>2. ~ Waiting(x)'
          BY <1>3, <1>15, <1>16, <5>1 DEF Waiting
        <5> QED
          BY <4>1, <4>2, <5>2
      <4>3. CASE y # x
        BY <1>15, <1>16, <3>2, <4>1, <4>3 DEF Waiting
      <4> QED
        BY <4>2, <4>3
    <3> QED
      BY <3>1, <3>2
  <2> QED
    BY <2>1 DEF NewTasks
<1>18. EdgesKept
  <2>1. \A u \in Threads : u # t => pc'[u] = pc[u] /\ todo'[u] = todo[u] /\ tosend'[u] = tosend[u]
    BY <1>4, <1>5, <1>10
  <2>2. \A L : "update" \in L => EdgesBefore(L)' = EdgesBefore(L)
    <3>1. step' = step /\ pc'[t] = "update" /\ todo[t] = {} /\ x \in NewTasks /\ x \in Local
      BY <1>3, <1>4, <1>5, <1>7, <1>11
    <3>2. todo'[t] = {e \in Edges : TaskOf(e) = x}
      BY <1>10
    <3> QED
      BY <1>17, <2>1, <3>1, <3>2, EdgesBegin
  <2> QED
    BY <2>2 DEF EdgesKept, FreshEdges, LeftEdges, UnsentEdges
<1>19. UnsentKept
  BY <1>4, <1>15, <1>18, UnsentSame DEF EdgesKept
<1>20. MessageInv'
  <2>1. \A u \in Threads : u # t => (Holding(u)' <=> Holding(u))
    BY <1>5, <1>8 DEF Holding
  <2>2. Holding(t)'
    BY <1>5, <1>8 DEF Holding, Working
  <2>3. \A u \in Threads : held'[u] # NoMsg <=> Holding(u)'
    BY <1>2, <1>4, <2>1, <2>2 DEF MessageInv
  <2>4. {Msg(y) : y \in FanIns}' = {Msg(y) : y \in FanIns}
    BY <1>6
  <2>5. \A q, p \in Procs :
          /\ net'[<<q, p>>] \in Seq({Msg(y) : y \in FanIns}')
          /\ \A i \in 1 .. Len(net'[<<q, p>>]) :
                \E y \in FanIns : Sender(y)' = q /\ Receiver(y)' = p /\ net'[<<q, p>>][i] = Msg(y)'
    <3>1. net' = net
      BY <1>4
    <3>2. \A y : Sender(y)' = Sender(y) /\ Receiver(y)' = Receiver(y) /\ Msg(y)' = Msg(y)
      BY <1>6
    <3>3. /\ \A q, p \in Procs : net[<<q, p>>] \in Seq({Msg(y) : y \in FanIns})
          /\ \A q, p \in Procs : \A i \in 1 .. Len(net[<<q, p>>]) :
                \E y \in FanIns : Sender(y) = q /\ Receiver(y) = p /\ net[<<q, p>>][i] = Msg(y)
      BY DEF MessageInv
    <3>4. \A q, p \in Procs : net'[<<q, p>>] \in Seq({Msg(y) : y \in FanIns}')
      BY <2>4, <3>1, <3>2, <3>3
    <3>5. \A q, p \in Procs : \A i \in 1 .. Len(net'[<<q, p>>]) :
                \E y \in FanIns : Sender(y)' = q /\ Receiver(y)' = p /\ net'[<<q, p>>][i] = Msg(y)'
      BY <3>1, <3>2, <3>3
    <3> QED
      BY <3>4, <3>5
  <2>6. \A p \in Procs : BufferFull(p)' => \E y \in FanIns : Receiver(y)' = p /\ rcoeftab'[p] = Msg(y)'
    BY <1>4, <1>6 DEF MessageInv, BufferFull
  <2>7. \A u \in Threads : held'[u] # NoMsg => \E y \in FanIns : Receiver(y)' = ProcOf(u) /\ held'[u] = Msg(y)'
    BY <1>4, <1>6 DEF MessageInv
  <2>8. ASSUME NEW u \in Threads, NEW y \in FanIns, pc'[u] \in Working, cur'[u] = y
        PROVE  held'[u] = Msg(y)'
    <3>1. CASE u = t
      BY <1>3, <1>4, <1>6, <1>8, <2>8, <3>1
    <3>2. CASE u # t
      <4>1. pc[u] \in Working /\ cur[u] = y
        BY <1>5, <1>8, <2>8, <3>2
      <4> QED
        BY <1>4, <1>6, <4>1 DEF MessageInv
    <3> QED
      BY <3>1, <3>2
  <2> QED
    BY <2>3, <2>5, <2>6, <2>7, <2>8 DEF MessageInv
<1>21. OnePlaceInv'
  <2>1. \A y \in FanIns : /\ (InNet(y)' <=> InNet(y)) /\ (InBuffer(y)' <=> InBuffer(y)) /\ Channel(y)' = Channel(y)
                          /\ (Taking(y)' <=> Taking(y)) /\ (Unsent(y)' <=> Unsent(y)) /\ Msg(y)' = Msg(y)
    BY <1>6, <1>16, <1>19 DEF UnsentKept
  <2> QED
    BY <2>1 DEF OnePlaceInv
<1>22. \A y \in FanIns : Coming(y)' <=> Coming(y)
  BY <1>16, <1>19 DEF Coming, UnsentKept
<1>23. BegunInv'
  BY <1>5, <1>8, <1>17 DEF BegunInv
<1>24. IncomingInv'
  BY <1>4, <1>14, <1>22, IncomingSame
<1>25. ReadyInv' /\ CounterInv' /\ GotInv'
  BY <1>2, <1>4, <1>14, <1>18, ReadySame, CounterSame, GotSame DEF EdgesKept
<1>26. TablesShrink /\ \A y \in FanIns : Pending(y)' <=> Pending(y)
  BY <1>4, TablesSame
<1>27. SendInv'
  <2>1. EngineTypes'
    BY <1>13 DEF EngineInv
  <2> QED
    BY <1>4, <1>14, <1>19, <1>26, <2>1, SendKept DEF StepsKept
<1>28. FanInInv'
  <2>1. \A y \in FanIns : y # x => faninb'[y] = faninb[y] /\ (Queued(y)' <=> Queued(y))
    BY <1>9, <1>15
  <2>2. x \in FanIns => Now = "backward" /\ faninb'[x] = <<Data(x)>>
    BY <1>2, <1>9
  <2> QED
    BY <1>4, <1>7, <1>10, <1>11, <1>18, <1>19, <1>26, <2>1, <2>2, FanInBegins
<1>29. QueueInv'
  <2>1. \A u \in Threads : queue[u] = {} /\ queue'[u] = {}
    BY <1>4 DEF QueueInv, Store
  <2> QED
    BY <2>1 DEF QueueInv
<1>30. ASSUME NEW u \in Threads PROVE InOrder(u)'
  <2>1. /\ InOrder(u) /\ pos'[u] = pos[u]
        /\ pc'[u] = "end" => pc[u] = "end"
        /\ pc'[u] \in Working \cup Looping => pc[u] \in Working \cup Looping
    BY <1>4, <1>5, <1>11 DEF Store
  <2>2. /\ pc'[u] \in Working /\ cur'[u] \notin FanIns <=> pc[u] \in Working /\ cur[u] \notin FanIns
        /\ pc'[u] \in Working /\ cur'[u] \notin FanIns => cur'[u] = cur[u]
    BY <1>5, <1>8, <1>11
  <2> QED
    BY <1>4, <1>14, <2>1, <2>2, InOrderSame
<1> QED
  BY <1>12, <1>13, <1>20, <1>21, <1>23, <1>24, <1>25, <1>27, <1>28, <1>29, <1>30

LEMMA StoreInv == ASSUME SolveInv, NEW t \in Threads, Store(t) PROVE SolveInv'
BY StoreQueueInv, StoreComputeInv

-----------------------------------------------------------------------------
(* The emissions that are completed.                                       *)

LEMMA FreeSentStep ==
    ASSUME SolveInv, EngineInv', NEW p \in Procs, NEW x \in FanIns, FreeSent(p, x),
           step[p] = Now, ~ Unsent(x), UNCHANGED <<pc, incoming, posted>>, MessagesKept, TablesShrink,
           \A y \in FanIns : y # x => (Pending(y)' <=> Pending(y))
    PROVE  SolveInv'
<1> USE DEF SolveInv
<1>1. /\ UNCHANGED <<ctrbcnt, pos, queue, taskcnt, done, cur>>
      /\ UNCHANGED <<step, phase, todo, tosend, solved, got>>
      /\ faninb' = IF Forward(p) THEN [faninb EXCEPT ![x] = <<>>] ELSE faninb
      /\ recvb'  = IF Forward(p) THEN recvb ELSE [recvb EXCEPT ![x] = <<>>]
  BY DEF FreeSent, schedVars
<1>2. /\ Now' = Now /\ (\A y : Data(y)' = Data(y)) /\ (Now = "forward" \/ Now = "backward")
      /\ Forward(p) <=> Now = "forward"
  BY <1>1, NowSame, NowFacts
<1>3. /\ faninb' = [y \in FanIns |-> faninb'[y]] /\ recvb' = [y \in FanIns |-> recvb'[y]]
      /\ \A y \in FanIns : faninb'[y] = IF Now = "forward" /\ y = x THEN <<>> ELSE faninb[y]
      /\ \A y \in FanIns : recvb'[y] = IF Now = "backward" /\ y = x THEN <<>> ELSE recvb[y]
  <2>1. faninb = [y \in FanIns |-> faninb[y]] /\ recvb = [y \in FanIns |-> recvb[y]]
    BY DEF ThreadInv, SolveTypes
  <2>2. CASE Now = "forward"
    BY <1>1, <1>2, <2>1, <2>2
  <2>3. CASE Now = "backward"
    BY <1>1, <1>2, <2>1, <2>3
  <2> QED
    BY <1>2, <2>2, <2>3
<1>4. ThreadInv'
  BY <1>1, <1>3, ThreadSame DEF taskVars
<1>5. LabelsKept /\ TasksKept /\ StepsKept
  BY <1>1, StepsKeptSame DEF LabelsKept, TasksKept, AtFanIn
<1>6. \A y \in FanIns : (UnsentSolution(y)' <=> UnsentSolution(y)) /\ (Queued(y)' <=> Queued(y))
  BY <1>1, UnsentSolutionSame DEF Queued
<1>7. \A y \in FanIns : Waiting(y)' <=> Waiting(y)
  BY <1>1, <1>5, <1>6, PlacesSame DEF Waiting
<1>8. NewTasks' = NewTasks
  BY <1>1, <1>7, AheadSame
<1>9. EdgesKept
  BY <1>1, <1>8, EdgesStay DEF Unmoved
<1>10. UnsentKept
  BY <1>1, <1>6, <1>9, UnsentSame DEF EdgesKept
<1>11. MessageInv' /\ OnePlaceInv' /\ ComingKept
  BY <1>1, <1>5, <1>10, MessageSame
<1>12. BegunInv'
  BY <1>5, <1>8, BegunSame
<1>13. \A y \in FanIns : (Coming(y)' <=> Coming(y)) /\ ((Coming(y) \/ Taking(y))' <=> (Coming(y) \/ Taking(y)))
  BY <1>11 DEF ComingKept
<1>14. IncomingInv' /\ CounterInv' /\ ReadyInv'
  BY <1>1, <1>5, <1>9, <1>13, IncomingSame, CounterSame, ReadySame DEF EdgesKept
<1>15. GotInv'
  <2>1. \A y \in FanIns : (Coming(y) \/ TakenAt(y, "add"))' <=> (Coming(y) \/ TakenAt(y, "add"))
    BY <1>1, <1>5, <1>13, PlacesSame
  <2> QED
    BY <1>1, <1>9, <2>1, GotSame DEF EdgesKept
<1>16. SendInv'
  <2>1. EngineTypes'
    BY DEF EngineInv
  <2>2. \A y \in FanIns : recvb'[y] # <<>> => recvb[y] # <<>> /\ (Pending(y) => Pending(y)')
    <3>1. \A y \in FanIns : recvb[y] # <<>> => Now = "backward"
      BY DEF SendInv
    <3> QED
      BY <1>3, <3>1
  <2> QED
    BY <1>1, <1>5, <1>10, <2>1, <2>2, SendKept DEF StepsKept
<1>17. FanInInv'
  <2>1. ASSUME NEW u \in Threads, pc'[u] = "gemm"
        PROVE  /\ Now = "forward" /\ Target(u)' = Target(u) /\ Target(u) \in FanIns
               /\ Unsent(Target(u)) /\ faninb'[Target(u)'] # <<>>
    <3>1. pc[u] = "gemm" /\ Target(u)' = Target(u)
      BY <1>1, <2>1, NextSame
    <3>2. todo[u] # {} /\ tosend[u] = {} /\ Target(u) \in FanIns /\ faninb[Target(u)] # <<>>
      BY <3>1 DEF ThreadInv, AtTask, FanInInv
    <3>3. Now = "forward" /\ NextEdge(u) \in Contribs(Target(u)) \cap UnsentEdges
      BY <3>1, <3>2, AtEdge
    <3>4. Unsent(Target(u))
      BY <3>3 DEF Unsent
    <3>5. Target(u) # x
      BY <3>4
    <3> QED
      BY <1>3, <3>1, <3>2, <3>3, <3>4, <3>5
  <2>2. CASE Now = "forward"
    <3>1. \A y \in FanIns : y # x => faninb'[y] = faninb[y] /\ Content(y)' = Content(y)
      BY <1>3 DEF Content
    <3>2. \A y \in FanIns : Unsent(y)' => Unsent(y) /\ y # x
      BY <1>10 DEF UnsentKept
    <3>3. \A y \in FanIns : Unsent(y)' => Content(y)' = {<<"forward", e>> : e \in Contribs(y) \ FreshEdges'}
      BY <1>9, <2>2, <3>1, <3>2 DEF FanInInv, EdgesKept
    <3>4. \A y \in FanIns :
            \A e \in Contribs(y) \cap UnsentEdges' : \A f \in Contribs(y) \cap UnsentEdges' :
                e \notin LeftEdges' => f = e
      BY <1>9, <2>2 DEF FanInInv, EdgesKept
    <3>5. \A y \in FanIns : faninb'[y] # <<>> => Unsent(y)' \/ Pending(y)'
      <4>1. \A y \in FanIns : faninb'[y] # <<>> => y # x /\ faninb[y] # <<>>
        BY <1>3, <2>2
      <4>2. \A y \in FanIns : faninb[y] # <<>> => Unsent(y) \/ Pending(y)
        BY <2>2 DEF FanInInv
      <4> QED
        BY <1>10, <4>1, <4>2 DEF UnsentKept
    <3>6. \A u \in Threads : \A y \in FanIns : ~ (pc'[u] \in Working /\ cur'[u] = y)
      BY <1>1, <2>2 DEF ThreadInv, AtTask
    <3> QED
      BY <1>2, <2>1, <2>2, <3>3, <3>4, <3>5, <3>6, FanInForward
  <2>3. CASE Now = "backward"
    <3>1. \A y \in FanIns : faninb'[y] = faninb[y]
      BY <1>3, <2>3
    <3>2. \A y \in FanIns : faninb'[y] # <<>> =>
              Queued(y)' \/ \E u \in Threads : pc'[u] \in Working /\ cur'[u] = y
      BY <1>1, <1>6, <2>3, <3>1 DEF FanInInv
    <3>3. \A u \in Threads : \A y \in FanIns : pc'[u] \in Working /\ cur'[u] = y => faninb'[y] = <<Data(y)>>
      BY <1>1, <3>1 DEF FanInInv
    <3> QED
      BY <1>2, <2>1, <2>3, <3>2, <3>3, FanInBackward
  <2> QED
    BY <1>2, <2>2, <2>3
<1>18. QueueInv'
  <2>1. \A y \in FanIns : TakenAt(y, "store")' => TakenAt(y, "store")
    BY <1>1, <1>5, PlacesSame
  <2>2. \A y \in FanIns : Now = "backward" /\ Queued(y) => faninb'[y] = faninb[y]
    BY <1>3
  <2> QED
    BY <1>1, <1>5, <1>11, <2>1, <2>2, QueueKept
<1>19. ASSUME ~ Dynamic, NEW u \in Threads PROVE InOrder(u)'
  BY <1>1, <1>5, <1>19, InOrderSame
<1>20. Dynamic => CountInv'
  <2>1. \A y : DoneTask(y) => DoneTask(y)'
    BY <1>5, <1>8, DoneSame
  <2> QED
    BY <1>1, <1>5, <2>1, CountSame DEF StepsKept
<1> QED
  BY <1>4, <1>11, <1>12, <1>14, <1>15, <1>16, <1>17, <1>18, <1>19, <1>20

LEMMA HandleSendInv == ASSUME SolveInv, NEW t \in Threads, HandleSend(t) PROVE SolveInv'
<1> USE DEF SolveInv
<1> DEFINE p == ProcOf(t)
<1>1. /\ TakeSent(t) /\ FreeSent(p, Handled(t)) /\ pc[t] = "handle" /\ indexes[t] # {}
      /\ UNCHANGED <<pc, reqtab, incoming, posted, held, mpiVars>>
  BY DEF HandleSend, TakeSent, Handles
<1>2. PICK x \in FanIns : x = Handled(t)
  BY <1>1, TakeSentPending
<1>3. \A y \in FanIns : y # x => (Pending(y)' <=> Pending(y))
  BY <1>1, <1>2, TakeSentPending
<1>4. p \in Procs /\ step[p] = Now
  BY <1>1, ThreadFacts DEF ThreadInv, Placed, Looping
<1>5. ~ Unsent(x)
  <2>1. Index(t) \in 1 .. Len(reqtab[p]) /\ reqtab[p][Index(t)].idx = x
    BY <1>1, <1>2, HandledFacts DEF Handled
  <2> QED
    BY <1>4, <2>1 DEF SendInv
<1>6. EngineInv'
  BY <1>1, TakeSentInv
<1>7. MessagesKept /\ TablesShrink
  BY <1>1 DEF MessagesKept, BufferFull, TablesShrink, mpiVars
<1> QED
  BY <1>1, <1>2, <1>3, <1>4, <1>5, <1>6, <1>7, FreeSentStep

LEMMA CleanupInv == ASSUME SolveInv, NEW p \in Procs, Cleanup(p) PROVE SolveInv'
<1> USE DEF SolveInv
<1>1. /\ phase[p] = "cleanup" /\ WaitSent(p) /\ FreeSent(p, Head(reqtab[p]).idx) /\ UNCHANGED pc
      /\ UNCHANGED <<incoming, outgoing, posted, threadVars, mpiVars>>
  BY DEF Cleanup, WaitSent
<1>2. step[p] = Now
  BY <1>1 DEF ThreadInv, StepsInv
<1>3. \A t \in ThreadsOf(p) : ~ Elected(t)
  <2> SUFFICES ASSUME NEW t \in ThreadsOf(p) PROVE ~ Elected(t)
    OBVIOUS
  <2>1. t \in Threads /\ pc[t] = "end"
    BY <1>1, ThreadFacts DEF ThreadInv, Placed
  <2> QED
    BY <2>1 DEF MessageInv, Holding, Elected, Communicating, Working
<1>4. /\ TablesShrink /\ Head(reqtab[p]).idx \in FanIns
      /\ Len(reqtab[p]) > 0 /\ Head(reqtab[p]) = reqtab[p][1]
      /\ \A x \in FanIns : x # Head(reqtab[p]).idx => (Pending(x)' <=> Pending(x))
  BY <1>1, <1>3, WaitSentPending
<1>5. PICK x \in FanIns : x = Head(reqtab[p]).idx
  BY <1>4
<1>6. ~ Unsent(x)
  <2>1. 1 \in 1 .. Len(reqtab[p]) /\ reqtab[p][1].idx = x
    BY <1>4, <1>5 DEF EngineInv, EngineTypes
  <2> QED
    BY <2>1 DEF SendInv
<1>7. EngineInv'
  BY <1>1, <1>3, WaitSentInv
<1>8. MessagesKept
  BY <1>1 DEF MessagesKept, BufferFull, threadVars, mpiVars
<1> QED
  BY <1>1, <1>2, <1>4, <1>5, <1>6, <1>7, <1>8, FreeSentStep

-----------------------------------------------------------------------------
(* MPI: a message arrives.                                                 *)

LEMMA DeliveredMessage ==
    ASSUME SolveInv, UNCHANGED <<step, cur>>, NEW p \in Procs, NEW q \in Procs, Deliver(p, q)
    PROVE  \E x \in FanIns :
              /\ InNet(x)
              /\ \A y \in FanIns :
                    /\ InNet(y)' <=> InNet(y) /\ y # x
                    /\ InBuffer(y)' <=> InBuffer(y) \/ y = x
                    /\ (Taking(y)' <=> Taking(y)) /\ (TakenAt(y, "add")' <=> TakenAt(y, "add"))
                    /\ (TakenAt(y, "store")' <=> TakenAt(y, "store"))
              /\ MessageInv'
              /\ UnsentKept => OnePlaceInv' /\ ComingKept
<1> USE DEF SolveInv
<1> DEFINE P == <<p, q>>
           Msgs == {Msg(y) : y \in FanIns}
<1>1. /\ recvreq[q] = "active" /\ net[P] # <<>>
      /\ rcoeftab' = [rcoeftab EXCEPT ![q] = Head(net[P])]
      /\ net'      = [net EXCEPT ![P] = Tail(@)]
      /\ recvreq'  = [recvreq EXCEPT ![q] = "done"]
      /\ UNCHANGED <<pc, held>>
  BY DEF Deliver, threadVars
<1>2. P \in Procs \X Procs /\ net[P] \in Seq(Msgs)
  BY DEF MessageInv
<1>3. \A i \in 1 .. Len(net[P]) : \E y \in FanIns : Sender(y) = p /\ Receiver(y) = q /\ net[P][i] = Msg(y)
  BY DEF MessageInv
<1>4. /\ \A pq \in Procs \X Procs : pq # P => net'[pq] = net[pq]
      /\ net'[P] = Tail(net[P])
      /\ \A r \in Procs : r # q => recvreq'[r] = recvreq[r] /\ rcoeftab'[r] = rcoeftab[r]
      /\ recvreq'[q] = "done" /\ rcoeftab'[q] = Head(net[P])
  BY <1>1, <1>2 DEF EngineInv, EngineTypes
<1>5. /\ \A y : Msg(y)' = Msg(y) /\ Sender(y)' = Sender(y) /\ Receiver(y)' = Receiver(y)
      /\ \A y \in FanIns : Sender(y) \in Procs /\ Receiver(y) \in Procs
  BY NowSame, RemoteFacts
<1> HIDE DEF Msgs
<1>6. /\ Len(net[P]) \in Nat \ {0} /\ Len(net'[P]) = Len(net[P]) - 1 /\ net'[P] \in Seq(Msgs)
      /\ \A i \in 1 .. Len(net'[P]) : i + 1 \in 1 .. Len(net[P]) /\ net'[P][i] = net[P][i + 1]
      /\ Head(net[P]) = net[P][1]
  <2> DEFINE s == net[P]
  <2>1. s \in Seq(Msgs) /\ s # <<>> /\ net'[P] = Tail(s)
    BY <1>1, <1>2, <1>4
  <2> HIDE DEF s
  <2>2. /\ Len(s) \in Nat \ {0} /\ Len(Tail(s)) = Len(s) - 1 /\ Tail(s) \in Seq(Msgs)
        /\ \A i \in 1 .. Len(Tail(s)) : Tail(s)[i] = s[i + 1]
        /\ Head(s) = s[1]
    BY <2>1, EmptySeq, LenProperties, HeadTailProperties
  <2> QED
    BY <2>1, <2>2 DEF s
<1>7. PICK x \in FanIns : Sender(x) = p /\ Receiver(x) = q /\ net[P][1] = Msg(x)
  BY <1>3, <1>6
<1> HIDE DEF P
<1>8. Channel(x) = net[P] /\ rcoeftab'[q] = Msg(x)
  BY <1>4, <1>6, <1>7 DEF Channel, P
<1>9. InNet(x) /\ ~ Unsent(x) /\ ~ Taking(x)
  <2>1. InNet(x)
    BY <1>6, <1>7, <1>8 DEF InNet
  <2> QED
    BY <2>1 DEF OnePlaceInv
<1>10. ASSUME NEW y \in FanIns
       PROVE  /\ Channel(y) = net[<<Sender(y), Receiver(y)>>] /\ Channel(y)' = net'[<<Sender(y), Receiver(y)>>]
              /\ <<Sender(y), Receiver(y)>> \in Procs \X Procs
              /\ <<Sender(y), Receiver(y)>> = P <=> Sender(y) = p /\ Receiver(y) = q
              /\ Receiver(y) = q => (Msg(x) = Msg(y) <=> y = x)
  <2>1. Channel(y) = net[<<Sender(y), Receiver(y)>>] /\ Channel(y)' = net'[<<Sender(y), Receiver(y)>>]
    BY <1>5 DEF Channel
  <2>2. <<Sender(y), Receiver(y)>> = P <=> Sender(y) = p /\ Receiver(y) = q
    BY DEF P
  <2> QED
    BY <1>5, <1>7, <2>1, <2>2, RemoteFacts
<1>11. ASSUME NEW y \in FanIns PROVE InNet(y)' <=> InNet(y) /\ y # x
  <2>1. CASE Sender(y) = p /\ Receiver(y) = q
    <3>1. Channel(y)' = net'[P] /\ Channel(y) = net[P] /\ (Msg(x) = Msg(y) <=> y = x)
      BY <1>10, <2>1
    <3>2. /\ InNet(y)' <=> \E i \in 1 .. Len(net'[P]) : net'[P][i] = Msg(y)
          /\ InNet(y) <=> \E i \in 1 .. Len(net[P]) : net[P][i] = Msg(y)
      BY <1>5, <3>1 DEF InNet
    <3>3. CASE y = x
      <4>1. ASSUME NEW i \in 1 .. Len(net'[P]), net'[P][i] = Msg(y) PROVE FALSE
        <5>1. i + 1 \in 1 .. Len(net[P]) /\ net[P][i + 1] = Msg(x) /\ 1 \in 1 .. Len(net[P])
          BY <1>6, <3>3, <4>1
        <5>2. i + 1 = 1
          BY <1>7, <1>8, <5>1 DEF OnePlaceInv
        <5> QED
          BY <5>2
      <4> QED
        BY <3>2, <3>3, <4>1
    <3>4. CASE y # x
      <4>1. ASSUME NEW i \in 1 .. Len(net'[P]), net'[P][i] = Msg(y)
            PROVE  \E j \in 1 .. Len(net[P]) : net[P][j] = Msg(y)
        BY <1>6, <4>1
      <4>2. ASSUME NEW j \in 1 .. Len(net[P]), net[P][j] = Msg(y)
            PROVE  \E i \in 1 .. Len(net'[P]) : net'[P][i] = Msg(y)
        <5>1. j # 1
          BY <1>7, <3>1, <3>4, <4>2
        <5>2. j - 1 \in 1 .. Len(net'[P]) /\ (j - 1) + 1 = j
          BY <1>6, <5>1
        <5>3. net'[P][j - 1] = net[P][j]
          BY <1>6, <5>2
        <5> QED
          BY <4>2, <5>2, <5>3
      <4> QED
        BY <3>2, <3>4, <4>1, <4>2
    <3> QED
      BY <3>3, <3>4
  <2>2. CASE ~ (Sender(y) = p /\ Receiver(y) = q)
    <3>1. Channel(y)' = Channel(y) /\ y # x
      BY <1>4, <1>7, <1>10, <2>2
    <3> QED
      BY <1>5, <3>1 DEF InNet
  <2> QED
    BY <2>1, <2>2
<1>12. ASSUME NEW y \in FanIns PROVE InBuffer(y)' <=> InBuffer(y) \/ y = x
  <2>1. CASE Receiver(y) = q
    <3>1. InBuffer(y)' <=> Msg(x) = Msg(y)
      BY <1>4, <1>5, <1>8, <2>1 DEF InBuffer, BufferFull
    <3>2. ~ InBuffer(y)
      BY <1>1, <2>1 DEF InBuffer, BufferFull
    <3> QED
      BY <1>10, <2>1, <3>1, <3>2
  <2>2. CASE Receiver(y) # q
    <3>1. y # x /\ Receiver(y) \in Procs
      BY <1>5, <1>7, <2>2
    <3> QED
      BY <1>4, <1>5, <2>2, <3>1 DEF InBuffer, BufferFull
  <2> QED
    BY <2>1, <2>2
<1>13. \A y \in FanIns : /\ (Taking(y)' <=> Taking(y)) /\ (TakenAt(y, "add")' <=> TakenAt(y, "add"))
                         /\ (TakenAt(y, "store")' <=> TakenAt(y, "store"))
  BY <1>1, <1>5 DEF Taking, TakenAt
<1>14. MessageInv'
  <2>1. \A u \in Threads : held'[u] # NoMsg <=> Holding(u)'
    BY <1>1 DEF MessageInv, Holding
  <2>2. Msgs = {Msg(y) : y \in FanIns}'
    BY <1>5 DEF Msgs
  <2>3. ASSUME NEW r \in Procs, NEW s \in Procs
        PROVE  /\ net'[<<r, s>>] \in Seq(Msgs)
               /\ \A i \in 1 .. Len(net'[<<r, s>>]) :
                     \E y \in FanIns : Sender(y) = r /\ Receiver(y) = s /\ net'[<<r, s>>][i] = Msg(y)
    <3>1. CASE <<r, s>> = P
      <4>1. r = p /\ s = q
        BY <3>1 DEF P
      <4>2. \A i \in 1 .. Len(net'[P]) : \E y \in FanIns : Sender(y) = p /\ Receiver(y) = q /\ net'[P][i] = Msg(y)
        BY <1>3, <1>6 DEF P
      <4> QED
        BY <1>6, <3>1, <4>1, <4>2
    <3>2. CASE <<r, s>> # P
      <4>1. net'[<<r, s>>] = net[<<r, s>>]
        BY <1>4, <3>2
      <4>2. net[<<r, s>>] \in Seq(Msgs)
        BY DEF MessageInv, Msgs
      <4>3. \A i \in 1 .. Len(net[<<r, s>>]) :
                     \E y \in FanIns : Sender(y) = r /\ Receiver(y) = s /\ net[<<r, s>>][i] = Msg(y)
        BY DEF MessageInv
      <4> QED
        BY <4>1, <4>2, <4>3
    <3> QED
      BY <3>1, <3>2
  <2>4. \A r, s \in Procs :
          /\ net'[<<r, s>>] \in Seq({Msg(y) : y \in FanIns}')
          /\ \A i \in 1 .. Len(net'[<<r, s>>]) :
                \E y \in FanIns : Sender(y)' = r /\ Receiver(y)' = s /\ net'[<<r, s>>][i] = Msg(y)'
    BY <1>5, <2>2, <2>3
  <2>5. ASSUME NEW r \in Procs, BufferFull(r)'
        PROVE  \E y \in FanIns : Receiver(y)' = r /\ rcoeftab'[r] = Msg(y)'
    <3>1. CASE r = q
      BY <1>5, <1>7, <1>8, <3>1
    <3>2. CASE r # q
      <4>1. BufferFull(r) /\ rcoeftab'[r] = rcoeftab[r]
        BY <1>4, <2>5, <3>2 DEF BufferFull
      <4> QED
        BY <1>5, <4>1 DEF MessageInv
    <3> QED
      BY <3>1, <3>2
  <2>6. \A u \in Threads : held'[u] # NoMsg => \E y \in FanIns : Receiver(y)' = ProcOf(u) /\ held'[u] = Msg(y)'
    BY <1>1, <1>5 DEF MessageInv
  <2>7. \A u \in Threads : \A y \in FanIns : pc'[u] \in Working /\ cur'[u] = y /\ ~ Dynamic => held'[u] = Msg(y)'
    BY <1>1, <1>5 DEF MessageInv
  <2> QED
    BY <2>1, <2>4, <2>5, <2>6, <2>7 DEF MessageInv
<1>15. ASSUME UnsentKept PROVE OnePlaceInv' /\ ComingKept
  <2>1. ASSUME NEW y \in FanIns
        PROVE  /\ Unsent(y)' => ~ InNet(y)' /\ ~ InBuffer(y)' /\ ~ Taking(y)'
               /\ InNet(y)' => ~ InBuffer(y)' /\ ~ Taking(y)'
               /\ InBuffer(y)' => ~ Taking(y)'
    BY <1>9, <1>11, <1>12, <1>13, <1>15 DEF OnePlaceInv, UnsentKept
  <2>2. ASSUME NEW y \in FanIns
        PROVE  \A i, j \in 1 .. Len(Channel(y)') : Channel(y)'[i] = Msg(y) /\ Channel(y)'[j] = Msg(y) => i = j
    <3>1. CASE Sender(y) = p /\ Receiver(y) = q
      <4>1. Channel(y)' = net'[P] /\ Channel(y) = net[P]
        BY <1>10, <3>1
      <4>2. \A i, j \in 1 .. Len(net[P]) : net[P][i] = Msg(y) /\ net[P][j] = Msg(y) => i = j
        BY <4>1 DEF OnePlaceInv
      <4>3. ASSUME NEW i \in 1 .. Len(net'[P]), NEW j \in 1 .. Len(net'[P]),
                   net'[P][i] = Msg(y), net'[P][j] = Msg(y)
            PROVE  i = j
        <5>1. i + 1 \in 1 .. Len(net[P]) /\ j + 1 \in 1 .. Len(net[P])
          BY <1>6
        <5>2. net[P][i + 1] = Msg(y) /\ net[P][j + 1] = Msg(y)
          BY <1>6, <4>3
        <5>3. i + 1 = j + 1
          BY <4>2, <5>1, <5>2
        <5> QED
          BY <5>3
      <4> QED
        BY <4>1, <4>3
    <3>2. CASE ~ (Sender(y) = p /\ Receiver(y) = q)
      <4>1. Channel(y)' = Channel(y)
        BY <1>4, <1>10, <3>2
      <4> QED
        BY <4>1 DEF OnePlaceInv
    <3> QED
      BY <3>1, <3>2
  <2>3. OnePlaceInv'
    BY <1>5, <2>1, <2>2 DEF OnePlaceInv
  <2>4. ComingKept
    BY <1>9, <1>11, <1>12, <1>13, <1>15 DEF ComingKept, Coming, UnsentKept
  <2> QED
    BY <2>3, <2>4
<1> QED
  BY <1>9, <1>11, <1>12, <1>13, <1>14, <1>15

LEMMA DeliverStep ==
    ASSUME SolveInv, NEW p \in Procs, NEW q \in Procs, Deliver(p, q), UNCHANGED <<schedVars, solveVars>>
    PROVE  SolveInv'
<1> USE DEF SolveInv
<1>1. /\ UNCHANGED <<pc, reqtab, incoming, posted, indexes, held>>
      /\ UNCHANGED <<step, phase, todo, tosend, faninb, recvb, solved, got>>
      /\ UNCHANGED <<ctrbcnt, pos, queue, cur, taskcnt, done>>
  BY DEF Deliver, tableVars, threadVars, schedVars, solveVars
<1>2. PICK x \in FanIns :
              /\ InNet(x)
              /\ \A y \in FanIns :
                    /\ InNet(y)' <=> InNet(y) /\ y # x
                    /\ InBuffer(y)' <=> InBuffer(y) \/ y = x
                    /\ (Taking(y)' <=> Taking(y)) /\ (TakenAt(y, "add")' <=> TakenAt(y, "add"))
                    /\ (TakenAt(y, "store")' <=> TakenAt(y, "store"))
              /\ MessageInv'
              /\ UnsentKept => OnePlaceInv' /\ ComingKept
  BY <1>1, DeliveredMessage
<1>3. ThreadInv'
  <2>1. faninb' = [y \in FanIns |-> faninb'[y]] /\ recvb' = [y \in FanIns |-> recvb'[y]]
    BY <1>1 DEF ThreadInv, SolveTypes
  <2> QED
    BY <1>1, <2>1, ThreadSame DEF taskVars
<1>4. EngineInv'
  BY DeliverInv
<1>5. TasksKept /\ StepsKept
  BY <1>1, StepsKeptSame DEF TasksKept
<1>6. \A y \in FanIns : (UnsentSolution(y)' <=> UnsentSolution(y)) /\ (Queued(y)' <=> Queued(y))
  BY <1>1, UnsentSolutionSame DEF Queued
<1>7. NewTasks' = NewTasks
  <2>1. \A y \in FanIns : Waiting(y)' <=> Waiting(y)
    BY <1>2, <1>6 DEF Waiting
  <2> QED
    BY <1>1, <2>1, AheadSame
<1>8. EdgesKept
  BY <1>1, <1>7, EdgesStay DEF Unmoved
<1>9. UnsentKept
  BY <1>1, <1>6, <1>8, UnsentSame DEF EdgesKept
<1>10. MessageInv' /\ OnePlaceInv' /\ ComingKept
  BY <1>2, <1>9
<1>11. BegunInv'
  BY <1>5, <1>7, BegunSame
<1>12. \A y \in FanIns : (Coming(y)' <=> Coming(y)) /\ ((Coming(y) \/ Taking(y))' <=> (Coming(y) \/ Taking(y)))
  BY <1>10 DEF ComingKept
<1>13. IncomingInv' /\ CounterInv' /\ ReadyInv'
  BY <1>1, <1>5, <1>8, <1>12, IncomingSame, CounterSame, ReadySame DEF EdgesKept
<1>14. GotInv'
  <2>1. \A y \in FanIns : (Coming(y) \/ TakenAt(y, "add"))' <=> (Coming(y) \/ TakenAt(y, "add"))
    BY <1>2, <1>12
  <2> QED
    BY <1>1, <1>8, <2>1, GotSame DEF EdgesKept
<1>15. TablesShrink /\ \A y : Pending(y)' <=> Pending(y)
  BY <1>1, TablesSame
<1>16. SendInv'
  <2>1. EngineTypes'
    BY <1>4 DEF EngineInv
  <2> QED
    BY <1>1, <1>5, <1>9, <1>15, <2>1, SendKept DEF StepsKept
<1>17. FanInInv'
  BY <1>1, <1>5, <1>6, <1>8, <1>9, <1>15, FanInSame
<1>18. QueueInv'
  BY <1>1, <1>2, <1>5, <1>10, QueueKept
<1>19. ASSUME ~ Dynamic, NEW u \in Threads PROVE InOrder(u)'
  BY <1>1, <1>5, <1>19, InOrderSame
<1>20. Dynamic => CountInv'
  <2>1. \A y : DoneTask(y) => DoneTask(y)'
    BY <1>5, <1>7, DoneSame
  <2> QED
    BY <1>1, <1>5, <2>1, CountSame DEF StepsKept
<1> QED
  BY <1>3, <1>4, <1>10, <1>11, <1>13, <1>14, <1>16, <1>17, <1>18, <1>19, <1>20

-----------------------------------------------------------------------------
(* Steps of a process as a whole.                                          *)

(* Only where processes stand changes, and what is to do does not.         *)
LEMMA StandStill ==
    ASSUME SolveInv, UNCHANGED <<pc, engineVars, schedVars, todo, tosend, faninb, recvb, solved, got>>,
           Now' = Now, \A t \in Threads : todo[t] # {} => step'[ProcOf(t)] = step[ProcOf(t)],
           StepsKept, \A p \in Procs : NotYet(p)' \/ phase'[p] = "barrier" => reqtab[p] = <<>>,
           step' \in [Procs -> Steps], phase' \in [Procs -> {"start", "tasks", "cleanup", "barrier"}],
           StepsInv', \A t \in Threads : Placed(t)'
    PROVE  SolveInv'
<1> USE DEF SolveInv
<1>1. /\ UNCHANGED <<pc, todo, tosend, faninb, recvb, solved, got>>
      /\ UNCHANGED <<ctrbcnt, pos, queue, taskcnt, done, cur>>
      /\ UNCHANGED <<reqtab, incoming, posted, held, indexes, recvreq, rcoeftab, net>>
  BY DEF schedVars, engineVars, tableVars, threadVars, mpiVars
<1>2. /\ \A e : TaskOf(e)' = TaskOf(e) /\ Home(e)' = Home(e)
      /\ \A x : Sender(x)' = Sender(x) /\ Receiver(x)' = Receiver(x)
      /\ \A x : Data(x)' = Data(x) /\ Msg(x)' = Msg(x)
  BY DEF TaskOf, Home, Sender, Receiver, Data, Msg
<1>3. \A t \in Threads : todo[t] # {} => NextEdge(t)' = NextEdge(t) /\ Target(t)' = Target(t)
  <2> SUFFICES ASSUME NEW t \in Threads, todo[t] # {} PROVE NextEdge(t)' = NextEdge(t) /\ Target(t)' = Target(t)
    OBVIOUS
  <2>1. Forward(ProcOf(t))' <=> Forward(ProcOf(t))
    BY DEF Forward
  <2>2. NextEdge(t)' = NextEdge(t)
    BY <1>1, <2>1 DEF NextEdge
  <2> QED
    BY <2>1, <2>2 DEF Target
<1>4. ThreadInv'
  <2>1. SolveTypes'
    BY <1>1 DEF ThreadInv, SolveTypes
  <2>2. ASSUME NEW t \in Threads PROVE AtTask(t)'
    <3>1. AtTask(t)
      BY DEF ThreadInv
    <3>2. todo[t] # {} => Target(t)' = Target(t)
      BY <1>3
    <3> QED
      BY <1>1, <1>2, <3>1, <3>2 DEF AtTask
  <2>3. OneThread'
    BY <1>1 DEF ThreadInv, OneThread
  <2> QED
    BY <2>1, <2>2, <2>3 DEF ThreadInv
<1>5. EngineInv'
  <2>1. pc' = [t \in Threads |-> pc'[t]]
    BY <1>1 DEF EngineInv, EngineTypes
  <2> QED
    BY <1>1, <2>1, OtherInv
<1>6. \A x : /\ Channel(x)' = Channel(x) /\ (InNet(x)' <=> InNet(x)) /\ (InBuffer(x)' <=> InBuffer(x))
             /\ (Taking(x)' <=> Taking(x)) /\ (UnsentSolution(x)' <=> UnsentSolution(x))
             /\ (TakenAt(x, "add")' <=> TakenAt(x, "add")) /\ (TakenAt(x, "store")' <=> TakenAt(x, "store"))
             /\ (Queued(x)' <=> Queued(x)) /\ Content(x)' = Content(x)
             /\ (Pending(x)' <=> Pending(x))
  BY <1>1, <1>2 DEF Channel, InNet, InBuffer, BufferFull, Taking, TakenAt, UnsentSolution, Queued, Content, Pending
<1>7. NewTasks' = NewTasks
  <2>1. \A x : Ahead(x)' <=> Ahead(x)
    BY <1>1, <1>6 DEF Ahead
  <2> QED
    BY <2>1 DEF NewTasks
<1>8. \A L : EdgesBefore(L)' = EdgesBefore(L)
  BY <1>1, <1>2, <1>3, <1>7 DEF EdgesBefore
<1>9. EdgesKept
  BY <1>8 DEF EdgesKept, FreshEdges, LeftEdges, UnsentEdges
<1>10. /\ UnsentKept /\ ComingKept
       /\ \A x : Awaited(x)' = Awaited(x)
  <2>1. \A x : Unsent(x)' <=> Unsent(x)
    BY <1>6, <1>9 DEF Unsent, EdgesKept
  <2>2. \A x : Coming(x)' <=> Coming(x)
    BY <1>6, <2>1 DEF Coming
  <2> QED
    BY <1>6, <2>1, <2>2, RecvFacts DEF UnsentKept, ComingKept, Awaited
<1>11. MessageInv'
  <2>1. \A t \in Threads : held'[t] # NoMsg <=> Holding(t)'
    BY <1>1 DEF MessageInv, Holding
  <2>2. {Msg(x)' : x \in FanIns} = {Msg(x) : x \in FanIns}
    BY <1>2
  <2>3. \A q, p \in Procs :
          /\ net'[<<q, p>>] \in Seq({Msg(x)' : x \in FanIns})
          /\ \A i \in 1 .. Len(net'[<<q, p>>]) :
                \E x \in FanIns : Sender(x)' = q /\ Receiver(x)' = p /\ net'[<<q, p>>][i] = Msg(x)'
    BY <1>1, <1>2, <2>2 DEF MessageInv
  <2>4. \A p \in Procs : BufferFull(p)' => \E x \in FanIns : Receiver(x)' = p /\ rcoeftab'[p] = Msg(x)'
    BY <1>1, <1>2 DEF MessageInv, BufferFull
  <2>5. \A t \in Threads : held'[t] # NoMsg => \E x \in FanIns : Receiver(x)' = ProcOf(t) /\ held'[t] = Msg(x)'
    BY <1>1, <1>2 DEF MessageInv
  <2>6. \A t \in Threads : \A x \in FanIns : pc'[t] \in Working /\ cur'[t] = x /\ ~ Dynamic => held'[t] = Msg(x)'
    BY <1>1, <1>2 DEF MessageInv
  <2> QED
    BY <2>1, <2>3, <2>4, <2>5, <2>6 DEF MessageInv
<1>12. OnePlaceInv'
  BY <1>2, <1>6, <1>10 DEF OnePlaceInv, UnsentKept
<1>13. BegunInv'
  BY <1>1, <1>7 DEF BegunInv
<1>14. SendInv'
  <2>1. \A p \in Procs : NotYet(p)' \/ phase'[p] = "barrier" => reqtab'[p] = <<>>
    BY <1>1
  <2> QED
    BY <1>1, <1>2, <1>6, <1>10, <2>1 DEF SendInv, UnsentKept
<1>15. FanInInv'
  <2>1. \A t \in Threads : pc[t] = "gemm" => todo[t] # {}
    BY DEF ThreadInv, AtTask
  <2>2. \A t \in Threads : pc'[t] = "gemm" => faninb'[Target(t)'] # <<>>
    BY <1>1, <1>3, <2>1 DEF FanInInv
  <2>3. \A x \in FanIns : Now' = "forward" /\ Unsent(x)' =>
          Content(x)' = {<<"forward", e>> : e \in Contribs(x) \ FreshEdges'}
    BY <1>6, <1>9, <1>10 DEF FanInInv, UnsentKept, EdgesKept
  <2>4. \A x \in FanIns : Now' = "forward" =>
          \A e \in Contribs(x) \cap UnsentEdges' : \A f \in Contribs(x) \cap UnsentEdges' :
              e \notin LeftEdges' => f = e
    BY <1>9 DEF FanInInv, EdgesKept
  <2>5. \A x \in FanIns : faninb'[x] # <<>> =>
          IF Now' = "forward" THEN Unsent(x)' \/ Pending(x)'
          ELSE Queued(x)' \/ \E t \in Threads : pc'[t] \in Working /\ cur'[t] = x
    BY <1>1, <1>6, <1>10 DEF FanInInv, UnsentKept
  <2>6. \A t \in Threads : \A x \in FanIns : pc'[t] \in Working /\ cur'[t] = x => faninb'[x] = <<Data(x)'>>
    BY <1>1, <1>2 DEF FanInInv
  <2> QED
    BY <2>2, <2>3, <2>4, <2>5, <2>6 DEF FanInInv, Contribs
<1>16. IncomingInv'
  <2> SUFFICES ASSUME NEW p \in Procs
               PROVE  IF NotYet(p)' THEN incoming'[p] = 0 /\ \A x \in FanIns : Receiver(x)' = p => Coming(x)'
                      ELSE incoming'[p] = Cardinality({x \in FanIns : Receiver(x)' = p /\ Coming(x)'})
    BY DEF IncomingInv
  <2>1. {x \in FanIns : Receiver(x)' = p /\ Coming(x)'} = {x \in FanIns : Receiver(x) = p /\ Coming(x)}
    BY <1>2, <1>10 DEF ComingKept
  <2> QED
    BY <1>1, <1>2, <1>10, <2>1 DEF IncomingInv, StepsKept, ComingKept
<1>17. CounterInv'
  <2>1. \A x \in Local : Counter(x)' = Counter(x)
    <3> SUFFICES ASSUME NEW x \in Local PROVE Counter(x)' = Counter(x)
      OBVIOUS
    <3>1. {e \in LeftEdges : Home(e) = x}' = {e \in LeftEdges : Home(e) = x}
      BY <1>2, <1>9 DEF EdgesKept
    <3> QED
      BY <1>10, <3>1 DEF Counter
  <2>2. \A x \in Local : x[1] \in Procs
    BY EdgeFacts
  <2> QED
    BY <1>1, <2>1, <2>2 DEF CounterInv, StepsKept
<1>18. GotInv'
  <2>1. \A e \in Edges : Home(e)' \notin FanIns => got'[Now'][e] = IF e \in FreshEdges' THEN 0 ELSE 1
    BY <1>1, <1>2, <1>9 DEF GotInv, EdgesKept
  <2>2. \A x \in FanIns : \A e \in Edges : Home(e)' = x =>
          got'[Now'][e] = IF Coming(x)' \/ TakenAt(x, "add")' THEN 0 ELSE 1
    BY <1>1, <1>2, <1>6, <1>10 DEF GotInv, ComingKept
  <2> QED
    BY <2>1, <2>2 DEF GotInv
<1>19. ReadyInv'
  BY <1>1, <1>2, <1>9, <1>10 DEF ReadyInv, EdgesKept
<1>20. ~ Dynamic => \A t \in Threads : InOrder(t)'
  <2> SUFFICES ASSUME ~ Dynamic, NEW t \in Threads PROVE InOrder(t)'
    OBVIOUS
  <2>1. InOrder(t)
    OBVIOUS
  <2>2. ProcOf(t) \in Procs /\ (NotYet(ProcOf(t))' <=> NotYet(ProcOf(t)))
    BY ThreadFacts DEF StepsKept
  <2>3. ASSUME ~ NotYet(ProcOf(t)) PROVE Tasks(t)' = Tasks(t)
    <3>1. Tasks(t) = IF Now = "forward" THEN Order[t] ELSE Reverse(Order[t])
      BY <2>2, <2>3 DEF Tasks, NotYet, Forward
    <3>2. step'[ProcOf(t)] = Now
      BY <2>2, <2>3 DEF NotYet
    <3> QED
      BY <3>1, <3>2 DEF Tasks, Forward
  <2>4. pc[t] \in Working \cup Looping => ~ NotYet(ProcOf(t))
    BY DEF ThreadInv, Placed, NotYet
  <2> QED
    BY <1>1, <2>1, <2>2, <2>3, <2>4 DEF InOrder
<1>21. QueueInv'
  <2>1. ASSUME NEW t \in Threads, NEW x \in queue[t]
        PROVE  /\ Dynamic /\ x[1] = ProcOf(t) /\ ~ NotYet(x[1])'
               /\ x \notin FanIns => solved'[Now'][x[2]] = 0 /\ ctrbcnt'[x] = 0
               /\ x \in FanIns => /\ Now' = "backward" /\ ~ Coming(x)' /\ ~ TakenAt(x, "store")'
                                  /\ faninb'[x] = <<Data(x)'>>
                                  /\ \A u \in Threads : pc'[u] \in Working => cur'[u] # x
    <3>1. /\ Dynamic /\ x[1] = ProcOf(t) /\ ~ NotYet(x[1])
          /\ x \notin FanIns => solved[Now][x[2]] = 0 /\ ctrbcnt[x] = 0
          /\ x \in FanIns => /\ Now = "backward" /\ ~ Coming(x) /\ ~ TakenAt(x, "store")
                             /\ faninb[x] = <<Data(x)>>
                             /\ \A u \in Threads : pc[u] \in Working => cur[u] # x
      BY DEF QueueInv
    <3>2. x[1] \in Procs
      BY <3>1, ThreadFacts
    <3>3. ~ NotYet(x[1])'
      BY <3>1, <3>2 DEF StepsKept
    <3> QED
      BY <1>1, <1>2, <1>6, <1>10, <3>1, <3>3 DEF ComingKept
  <2> QED
    BY <1>1, <2>1 DEF QueueInv
<1>22. Dynamic => CountInv'
  <2> SUFFICES ASSUME Dynamic PROVE CountInv'
    OBVIOUS
  <2>1. PICK F \in [Threads -> SUBSET Local], G \in SUBSET Local : Counts(F, G)
    BY DEF CountInv
  <2>2. \A p : TasksOf(p)' = TasksOf(p)
    BY DEF TasksOf
  <2>3. \A x : DoneTask(x)' <=> DoneTask(x)
    BY <1>1, <1>7 DEF DoneTask
  <2>4. Counts(F, G)'
    BY <1>1, <2>1, <2>2, <2>3 DEF Counts, StepsKept
  <2> QED
    BY <2>4 DEF CountInv
<1> QED
  BY <1>4, <1>5, <1>11, <1>12, <1>13, <1>14, <1>15, <1>16, <1>17, <1>18, <1>19, <1>20, <1>21, <1>22

(* The tasks of a process are done; it comes to the barrier.               *)
LEMMA PhaseInv ==
    ASSUME SolveInv, NEW p \in Procs, EndTasks(p) \/ Exit(p)
    PROVE  SolveInv'
<1> USE DEF SolveInv
<1>1. PICK f \in {"cleanup", "barrier"} :
          /\ phase' = [phase EXCEPT ![p] = f] /\ phase[p] \in {"tasks", "cleanup"}
          /\ f = "barrier" => reqtab[p] = <<>>
  BY DEF EndTasks, Exit
<1>2. UNCHANGED <<pc, engineVars, schedVars, step, todo, tosend, faninb, recvb, solved, got>>
  BY DEF EndTasks, Exit
<1>3. \A t \in Threads : ProcOf(t) = p => pc[t] = "end"
  BY ThreadFacts DEF EndTasks, Exit, ThreadsEnded, ThreadInv, Placed
<1>4. /\ phase \in [Procs -> {"start", "tasks", "cleanup", "barrier"}] /\ step \in [Procs -> Steps]
      /\ phase'[p] = f /\ \A q \in Procs : q # p => phase'[q] = phase[q]
      /\ phase' \in [Procs -> {"start", "tasks", "cleanup", "barrier"}]
  BY <1>1 DEF ThreadInv, SolveTypes
<1>5. Now' = Now
  BY <1>2, NowSame
<1>6. StepsKept
  BY <1>1, <1>2, <1>4, <1>5 DEF StepsKept, NotYet
<1>7. StepsInv'
  <2>1. \A q \in Procs : phase'[q] = phase[q] \/ (phase[q] # "barrier" /\ phase'[q] # "start")
    BY <1>1, <1>4
  <2> QED
    BY <1>2, <2>1, StepsSame DEF ThreadInv
<1>8. \A q \in Procs : NotYet(q)' \/ phase'[q] = "barrier" => reqtab[q] = <<>>
  <2>1. ~ NotYet(p)
    BY <1>1 DEF NotYet, ThreadInv, StepsInv
  <2> QED
    BY <1>1, <1>4, <1>6, <2>1 DEF StepsKept, SendInv
<1>9. \A t \in Threads : Placed(t)'
  <2> SUFFICES ASSUME NEW t \in Threads PROVE Placed(t)'
    OBVIOUS
  <2>1. Placed(t) /\ ProcOf(t) \in Procs /\ (NotYet(ProcOf(t))' <=> NotYet(ProcOf(t)))
    BY <1>6, ThreadFacts DEF ThreadInv, StepsKept
  <2>2. UNCHANGED <<pc, taskcnt, step>>
    BY <1>2 DEF schedVars
  <2>3. CASE ProcOf(t) = p
    BY <1>3, <1>5, <2>1, <2>2, <2>3 DEF Placed, Working, Looping
  <2>4. CASE ProcOf(t) # p
    BY <1>4, <1>5, <2>1, <2>2, <2>4 DEF Placed
  <2> QED
    BY <2>3, <2>4
<1> QED
  BY <1>2, <1>4, <1>5, <1>6, <1>7, <1>8, <1>9, StandStill

(* Nothing moves.                                                          *)
LEMMA StutterInv == ASSUME SolveInv, UNCHANGED vars PROVE SolveInv'
<1> USE DEF SolveInv
<1>1. /\ UNCHANGED <<pc, engineVars, schedVars, step, phase, todo, tosend, faninb, recvb, solved, got>>
      /\ UNCHANGED <<pos, queue, taskcnt, done, cur, posted>>
  BY DEF vars, engineVars, tableVars, schedVars, solveVars
<1>2. Now' = Now /\ StepsKept
  BY <1>1, NowSame, StepsKeptSame
<1>3. ThreadInv'
  <2>1. faninb' = [x \in FanIns |-> faninb'[x]] /\ recvb' = [x \in FanIns |-> recvb'[x]]
    BY <1>1 DEF ThreadInv, SolveTypes
  <2> QED
    BY <1>1, <2>1, ThreadSame DEF taskVars
<1>4. /\ step' \in [Procs -> Steps] /\ phase' \in [Procs -> {"start", "tasks", "cleanup", "barrier"}]
      /\ StepsInv' /\ \A t \in Threads : Placed(t)'
  BY <1>3 DEF ThreadInv, SolveTypes
<1>5. \A q \in Procs : NotYet(q)' \/ phase'[q] = "barrier" => reqtab[q] = <<>>
  BY <1>1, <1>2 DEF StepsKept, SendInv
<1> QED
  BY <1>1, <1>2, <1>4, <1>5, StandStill

(* A process leaves the barrier after another one.                         *)
LEMMA LeaveAfterInv ==
    ASSUME SolveInv, NEW p \in Procs, LeaveBarrier(p), Now = "backward"
    PROVE  SolveInv'
<1> USE DEF SolveInv
<1>1. /\ phase[p] = "barrier" /\ step[p] = "forward"
      /\ step'  = [step EXCEPT ![p] = "backward"] /\ phase' = [phase EXCEPT ![p] = "start"]
      /\ UNCHANGED <<pc, engineVars, schedVars, todo, tosend, faninb, recvb, solved, got>>
  BY DEF LeaveBarrier, Forward
<1>2. /\ phase \in [Procs -> {"start", "tasks", "cleanup", "barrier"}] /\ step \in [Procs -> Steps]
      /\ phase'[p] = "start" /\ step'[p] = "backward"
      /\ \A q \in Procs : q # p => phase'[q] = phase[q] /\ step'[q] = step[q]
      /\ phase' \in [Procs -> {"start", "tasks", "cleanup", "barrier"}] /\ step' \in [Procs -> Steps]
  BY <1>1 DEF ThreadInv, SolveTypes, Steps
<1>3. Now' = Now
  BY <1>2 DEF Now, Backward
<1>4. StepsKept /\ NotYet(p) /\ NotYet(p)'
  BY <1>1, <1>2, <1>3 DEF StepsKept, NotYet
<1>5. \A t \in Threads : ProcOf(t) = p => pc[t] = "end" /\ todo[t] = {}
  BY <1>1 DEF ThreadInv, Placed, AtTask, Working
<1>6. \A t \in Threads : todo[t] # {} => step'[ProcOf(t)] = step[ProcOf(t)]
  BY <1>2, <1>5, ThreadFacts
<1>7. StepsInv'
  <2>1. \A q \in Procs : step'[q] # Now => phase'[q] = "barrier"
    BY <1>2 DEF ThreadInv, StepsInv
  <2>2. UNCHANGED <<solved, got>>
    BY <1>1
  <2> QED
    BY <1>3, <1>4, <2>1, <2>2 DEF ThreadInv, StepsInv, StepsKept
<1>8. \A q \in Procs : NotYet(q)' \/ phase'[q] = "barrier" => reqtab[q] = <<>>
  BY <1>2, <1>4 DEF StepsKept, SendInv
<1>9. \A t \in Threads : Placed(t)'
  <2> SUFFICES ASSUME NEW t \in Threads PROVE Placed(t)'
    OBVIOUS
  <2>1. Placed(t) /\ ProcOf(t) \in Procs /\ (NotYet(ProcOf(t))' <=> NotYet(ProcOf(t)))
    BY <1>4, ThreadFacts DEF ThreadInv, StepsKept
  <2>2. UNCHANGED <<pc, taskcnt>>
    BY <1>1 DEF schedVars
  <2>3. CASE ProcOf(t) = p
    BY <1>2, <1>3, <1>4, <1>5, <2>2, <2>3 DEF Placed, Working, Looping
  <2>4. CASE ProcOf(t) # p
    BY <1>2, <1>3, <2>1, <2>2, <2>4 DEF Placed
  <2> QED
    BY <2>3, <2>4
<1> QED
  BY <1>1, <1>2, <1>3, <1>4, <1>6, <1>7, <1>8, <1>9, StandStill

-----------------------------------------------------------------------------
(* A process begins a step.                                                *)

(* A process that has not begun the step has everything to do, and its     *)
(* counters are set to that.                                               *)
LEMMA NothingBegun ==
    ASSUME SolveInv, NEW p \in Procs, NotYet(p)
    PROVE  /\ \A x \in Local : x[1] = p => x \in NewTasks
           /\ \A x \in Local : x[1] = p => Counter(x) = Ctrb(Now)[x] /\ Ctrb(Now)[x] \in Nat
<1> USE DEF SolveInv
<1>1. /\ \A c \in Cblks : Own[c] = p => solved[Now][c] = 0
      /\ \A x \in FanIns : Receiver(x) = p => Coming(x)
  BY DEF ThreadInv, StepsInv, IncomingInv
<1>2. ASSUME NEW x \in Local, x[1] = p PROVE x \in NewTasks
  <2>1. CASE x \notin FanIns
    <3>1. x[2] \in Cblks /\ Own[x[2]] = p
      BY <1>2, <2>1, EdgeFacts
    <3> QED
      BY <1>1, <2>1, <3>1 DEF NewTasks, Ahead
  <2>2. CASE x \in FanIns /\ Now = "forward"
    BY <2>2 DEF NewTasks, Ahead
  <2>3. CASE x \in FanIns /\ Now = "backward"
    <3>1. Coming(x)
      BY <1>1, <1>2, <2>3, RemoteFacts
    <3> QED
      BY <2>3, <3>1 DEF NewTasks, Ahead, Coming, Unsent
  <2> QED
    BY <2>1, <2>2, <2>3, NowFacts
<1>3. \A e \in Edges : Own[Src[e]] = p => e \in LeftEdges
  <2> SUFFICES ASSUME NEW e \in Edges, Own[Src[e]] = p PROVE e \in LeftEdges
    OBVIOUS
  <2>1. TaskOf(e) \in Local /\ TaskOf(e)[1] = p
    BY EdgeFacts
  <2>2. TaskOf(e) \in NewTasks
    BY <1>2, <2>1
  <2> QED
    BY <2>2 DEF LeftEdges, EdgesBefore
<1>4. ASSUME NEW x \in Local, x[1] = p PROVE Counter(x) = Ctrb(Now)[x] /\ Ctrb(Now)[x] \in Nat
  <2>1. {e \in LeftEdges : Home(e) = x} = {e \in Edges : Home(e) = x}
    <3>1. \A e \in Edges : Home(e)[1] = Own[Src[e]]
      BY EdgeFacts
    <3>2. \A e \in LeftEdges : e \in Edges
      BY EdgesNested
    <3> QED
      BY <1>3, <1>4, <3>1, <3>2
  <2>2. RecvsTo(x[2]) \subseteq FanIns /\ Cardinality(RecvsTo(x[2])) \in Nat
    BY FanInsFinite DEF RecvsTo
  <2>3. Awaited(x) = IF Now = "forward" /\ x \notin FanIns THEN RecvsTo(x[2]) ELSE {}
    <3>1. CASE Now = "forward" /\ x \notin FanIns
      <4>1. Own[x[2]] = p
        BY <1>4, <3>1, EdgeFacts
      <4>2. \A y \in RecvsTo(x[2]) : y \in FanIns /\ Receiver(y) = p
        BY <3>1, <4>1, RecvFacts, RemoteFacts
      <4> QED
        BY <1>1, <3>1, <4>2 DEF Awaited
    <3> QED
      BY <3>1 DEF Awaited
  <2>4. Counter(x) = Cardinality({e \in Edges : Home(e) = x}) + Cardinality(Awaited(x))
    BY <2>1 DEF Counter
  <2>5. CASE Now = "forward"
    <3>1. {e \in Edges : Home(e) = x} = ProcEdges(x[1], x[2])
      BY <2>5, EdgeFacts DEF Contribs
    <3>2. Cardinality(ProcEdges(x[1], x[2])) \in Nat
      BY <3>1, EdgesFinite
    <3>3. Ctrb(Now)[x] = BrowNbr(x)
      BY <2>5 DEF Ctrb
    <3>4. Cardinality({}) = 0
      BY FS_EmptySet
    <3>5. Counter(x) = Cardinality(ProcEdges(x[1], x[2])) + Cardinality(Awaited(x))
      BY <2>4, <3>1
    <3>6. Awaited(x) = IF x \in FanIns THEN {} ELSE RecvsTo(x[2])
      BY <2>3, <2>5
    <3>7. Cardinality(Awaited(x)) = IF x \in FanIns THEN 0 ELSE Cardinality(RecvsTo(x[2]))
      BY <3>4, <3>6
    <3> QED
      BY <2>2, <3>2, <3>3, <3>5, <3>7 DEF BrowNbr
  <2>6. CASE Now = "backward"
    <3>1. {e \in Edges : Home(e) = x} = IF x \in FanIns THEN {} ELSE OutOf(x[2])
      BY <2>6, EdgeFacts DEF OutOf
    <3>2. Ctrb(Now)[x] = IF x \in FanIns THEN 0 ELSE Cardinality(OutOf(x[2]))
      BY <2>6 DEF Ctrb
    <3>3. Cardinality({}) = 0 /\ Cardinality(OutOf(x[2])) \in Nat
      BY FS_EmptySet, EdgesFinite DEF OutOf
    <3>4. Cardinality(Awaited(x)) = 0
      BY <2>3, <2>6, <3>3
    <3>5. Cardinality({e \in Edges : Home(e) = x}) = IF x \in FanIns THEN 0 ELSE Cardinality(OutOf(x[2]))
      BY <3>1, <3>3
    <3> QED
      BY <2>4, <3>2, <3>3, <3>4, <3>5
  <2> QED
    BY <2>5, <2>6, NowFacts
<1> QED
  BY <1>2, <1>4

(* taskcnt is the number of the tasks of the step.                         *)
LEMMA StartCount == \A p \in Procs : TaskCnt(p, Now) = Cardinality(TasksOf(p))
<1> SUFFICES ASSUME NEW p \in Procs PROVE TaskCnt(p, Now) = Cardinality(TasksOf(p))
  OBVIOUS
<1>1. CASE Now = "forward"
  <2> DEFINE C == {c \in Cblks : Own[c] = p}
             f == [c \in C |-> <<Own[c], c>>]
             T == TasksOf(p)
  <2>1. \A c \in C : f[c] \in T
    BY FanInsLocal DEF TasksOf
  <2>2. \A x \in T : x[2] \in C /\ f[x[2]] = x
    BY <1>1, EdgeFacts DEF TasksOf
  <2>3. \A b, c \in C : f[b] = f[c] => b = c
    OBVIOUS
  <2>4. f \in [C -> T]
    BY <2>1
  <2>5. IsFiniteSet(C)
    BY StructureAssumption, FS_Subset
  <2> HIDE DEF T, C, f
  <2>6. ExistsBijection(C, T)
    BY <2>2, <2>3, <2>4 DEF ExistsBijection, Bijection, Injection, Surjection, IsInjective
  <2>7. Cardinality(T) = Cardinality(C)
    BY <2>5, <2>6, FS_Bijection
  <2> QED
    BY <1>1, <2>7 DEF TaskCnt, T, C
<1>2. CASE Now = "backward"
  <2> DEFINE S == TabOf(p)
             R == RecvsOf(p)
  <2>1. S \subseteq Local /\ IsFiniteSet(S)
    BY LocalFinite, FanInsLocal DEF TabOf, RecvsOf
  <2>2. R \subseteq S /\ S \ R = TasksOf(p)
    <3>1. \A x \in R : x[1] # p
      BY FanInFacts, RecvFacts
    <3> QED
      BY <1>2, <3>1 DEF TabOf, TasksOf
  <2> HIDE DEF S, R
  <2>3. Cardinality(S \ R) = Cardinality(S) - Cardinality(R)
    BY <2>1, <2>2, SubsetCardinality
  <2> QED
    BY <1>2, <2>2, <2>3 DEF TaskCnt, SolvCblkNbr, RecvNbr, S, R
<1> QED
  BY <1>1, <1>2, NowFacts

(* The slices of cblktab do not overlap.                                   *)
LEMMA SlicesApart ==
    ASSUME NEW t \in Threads, NEW u \in Threads, ProcOf(t) = ProcOf(u), NEW x,
           InSlice(t, x), InSlice(u, x)
    PROVE  t = u
<1> DEFINE p == ProcOf(t)
           size == SolvCblkNbr(p) \div ThreadNbr[p]
           num == CblkNum(p, x)
<1>1. p \in Procs /\ ThreadNbr[p] \in Nat \ {0}
  BY ThreadFacts, StructureAssumption
<1>2. /\ t[2] \in 0 .. ThreadNbr[p] - 1 /\ u[2] \in 0 .. ThreadNbr[p] - 1
      /\ t = <<p, t[2]>> /\ u = <<p, u[2]>>
  BY ThreadFacts DEF ThreadsOf, ProcOf
<1>3. size \in Nat /\ num \in Nat
  <2>1. \A S : S \subseteq TabOf(p) => Cardinality(S) \in Nat
    BY LocalFinite, FanInsLocal DEF TabOf, RecvsOf
  <2> QED
    BY <1>1, <2>1 DEF SolvCblkNbr, CblkNum
<1>4. /\ num >= size * t[2] /\ (t[2] < ThreadNbr[p] - 1 => num < size * (t[2] + 1))
      /\ num >= size * u[2] /\ (u[2] < ThreadNbr[p] - 1 => num < size * (u[2] + 1))
  BY DEF InSlice
<1> HIDE DEF size, num, p
<1>5. \A a, b \in Nat : a < b => size * (a + 1) <= size * b
  <2> SUFFICES ASSUME NEW a \in Nat, NEW b \in Nat, a < b PROVE size * (a + 1) <= size * b
    OBVIOUS
  <2>1. PICK d \in Nat : b = (a + 1) + d
    <3>1. b - (a + 1) \in Nat /\ b = (a + 1) + (b - (a + 1))
      OBVIOUS
    <3> QED
      BY <3>1
  <2>2. size * b = size * (a + 1) + size * d /\ size * d >= 0
    BY <1>3, <2>1
  <2>3. size * (a + 1) \in Int /\ size * d \in Int
    BY <1>3
  <2> QED
    BY <2>2, <2>3
<1>6. size * t[2] \in Int /\ size * u[2] \in Int /\ size * (t[2] + 1) \in Int /\ size * (u[2] + 1) \in Int
  BY <1>2, <1>3
<1>7. t[2] < u[2] => size * (t[2] + 1) <= size * u[2] /\ t[2] < ThreadNbr[p] - 1
  BY <1>1, <1>2, <1>5
<1>8. u[2] < t[2] => size * (u[2] + 1) <= size * t[2] /\ u[2] < ThreadNbr[p] - 1
  BY <1>1, <1>2, <1>5
<1>9. ~ (t[2] < u[2]) /\ ~ (u[2] < t[2])
  <2> HIDE DEF ProcOf
  <2> QED
    BY <1>3, <1>4, <1>6, <1>7, <1>8
<1> QED
  BY <1>1, <1>2, <1>9

(* Its threads start, and it opens its reception.                          *)
LEMMA StartStep ==
    ASSUME SolveInv, NEW p \in Procs, Start(p)
    PROVE  /\ phase[p] = "start" /\ step[p] = Now /\ NotYet(p) /\ ~ NotYet(p)' /\ UNCHANGED step
           /\ \A q \in Procs : q # p => phase'[q] = phase[q] /\ (NotYet(q)' <=> NotYet(q))
           /\ phase'[p] = "tasks"
           /\ \A t \in Threads : ProcOf(t) = p =>
                 /\ pc[t] \in {"idle", "end"} /\ todo[t] = {} /\ tosend[t] = {} /\ queue[t] = {} /\ ~ Elected(t)
                 /\ pc'[t] = IF Dynamic THEN "pop" ELSE Fetch(t, 1)
                 /\ pc'[t] \in {"pop", "wait", "end"} /\ pos'[t] = 1 /\ done'[t] = 0
                 /\ queue'[t] = IF Dynamic THEN FirstTasks(Now)[t] ELSE {}
           /\ \A t \in Threads : ProcOf(t) # p =>
                 pc'[t] = pc[t] /\ pos'[t] = pos[t] /\ done'[t] = done[t] /\ queue'[t] = queue[t]
           /\ \A q \in Procs : taskcnt'[q] =
                 IF q # p THEN taskcnt[q] ELSE IF Dynamic THEN Cardinality(TasksOf(p)) ELSE 0
           /\ pc' = [t \in Threads |-> pc'[t]]
           /\ ThreadInv'
<1> USE DEF SolveInv
<1>1. /\ phase[p] = "start" /\ phase' = [phase EXCEPT ![p] = "tasks"]
      /\ UNCHANGED <<step, todo, tosend, faninb, recvb, solved, got>>
      /\ StartThreads(p, Ctrb(step[p]), FirstTasks(step[p]), TaskCnt(p, step[p]))
      /\ UNCHANGED <<posted, held, cur>>
  BY DEF Start, OpenRequests, StartThreads, threadVars
<1>2. step[p] = Now /\ NotYet(p)
  BY <1>1 DEF ThreadInv, StepsInv, NotYet
<1>3. /\ pos' = [t \in Threads |-> IF ProcOf(t) = p THEN 1 ELSE pos[t]]
      /\ queue' = [t \in Threads |-> IF Dynamic /\ ProcOf(t) = p THEN FirstTasks(Now)[t] ELSE queue[t]]
      /\ taskcnt' = [taskcnt EXCEPT ![p] = IF Dynamic THEN Cardinality(TasksOf(p)) ELSE 0]
      /\ done' = [t \in Threads |-> IF ProcOf(t) = p THEN 0 ELSE done[t]]
      /\ pc' = [t \in Threads |-> IF ProcOf(t) # p THEN pc[t] ELSE IF Dynamic THEN "pop" ELSE Fetch(t, 1)]
  BY <1>1, <1>2, StartCount DEF StartThreads
<1>4. /\ phase \in [Procs -> {"start", "tasks", "cleanup", "barrier"}]
      /\ phase'[p] = "tasks" /\ \A q \in Procs : q # p => phase'[q] = phase[q]
      /\ phase' \in [Procs -> {"start", "tasks", "cleanup", "barrier"}]
  BY <1>1 DEF ThreadInv, SolveTypes
<1>5. Now' = Now /\ \A q \in Procs : q # p => (NotYet(q)' <=> NotYet(q))
  BY <1>1, <1>4, NowSame DEF NotYet
<1>6. ~ NotYet(p)'
  BY <1>1, <1>2, <1>4, <1>5 DEF NotYet
<1>7. ASSUME NEW t \in Threads, ProcOf(t) = p
      PROVE  pc[t] \in {"idle", "end"} /\ todo[t] = {} /\ tosend[t] = {} /\ queue[t] = {} /\ ~ Elected(t)
  <2>1. pc[t] \in {"idle", "end"}
    BY <1>1, <1>7 DEF ThreadInv, Placed
  <2>2. pc[t] \notin Working
    BY <2>1 DEF Working
  <2>3. todo[t] = {} /\ tosend[t] = {}
    BY <2>2 DEF ThreadInv, AtTask
  <2>4. queue[t] = {}
    BY <1>2, <1>7 DEF QueueInv
  <2>5. ~ Elected(t)
    BY <2>1, <2>2 DEF MessageInv, Holding, Elected, Communicating
  <2> QED
    BY <2>1, <2>3, <2>4, <2>5
<1>8. ASSUME NEW t \in Threads, ProcOf(t) = p
      PROVE  /\ pc'[t] = IF Dynamic THEN "pop" ELSE Fetch(t, 1)
             /\ pc'[t] \in {"pop", "wait", "end"} /\ pos'[t] = 1 /\ done'[t] = 0
             /\ queue'[t] = IF Dynamic THEN FirstTasks(Now)[t] ELSE {}
  BY <1>3, <1>7, <1>8 DEF Fetch
<1>9. \A t \in Threads : ProcOf(t) # p =>
          pc'[t] = pc[t] /\ pos'[t] = pos[t] /\ done'[t] = done[t] /\ queue'[t] = queue[t]
  BY <1>3
<1>10. \A q \in Procs : taskcnt'[q] =
           IF q # p THEN taskcnt[q] ELSE IF Dynamic THEN Cardinality(TasksOf(p)) ELSE 0
  BY <1>3 DEF ThreadInv, SolveTypes
<1>11. SolveTypes'
  <2>1. pos' \in [Threads -> Nat] /\ done' \in [Threads -> Nat] /\ pc' = [t \in Threads |-> pc'[t]]
    BY <1>3 DEF ThreadInv, SolveTypes
  <2>2. queue' \in [Threads -> SUBSET Local]
    <3>1. \A t \in Threads : FirstTasks(Now)[t] \subseteq Local
      BY DEF FirstTasks
    <3> QED
      BY <1>3, <3>1 DEF ThreadInv, SolveTypes
  <2>3. taskcnt' \in [Procs -> Int]
    <3>1. Cardinality(TasksOf(p)) \in Nat
      BY LocalFinite DEF TasksOf
    <3> QED
      BY <1>3, <3>1 DEF ThreadInv, SolveTypes
  <2> QED
    BY <1>1, <1>4, <2>1, <2>2, <2>3 DEF ThreadInv, SolveTypes
<1>12. StepsInv'
  <2>1. \A q \in Procs : phase'[q] = phase[q] \/ (phase[q] # "barrier" /\ phase'[q] # "start")
    BY <1>1, <1>4
  <2> QED
    BY <1>1, <2>1, StepsSame DEF ThreadInv
<1>13. ASSUME NEW t \in Threads PROVE Placed(t)' /\ AtTask(t)'
  <2>1. /\ Placed(t) /\ AtTask(t) /\ ProcOf(t) \in Procs
        /\ (\A e : TaskOf(e)' = TaskOf(e)) /\ Target(t)' = Target(t)
    BY <1>1, NowSame, NextSame, ThreadFacts DEF ThreadInv
  <2>2. CASE ProcOf(t) = p
    <3>1. Placed(t)'
      BY <1>1, <1>2, <1>4, <1>5, <1>8, <2>2 DEF Placed, Working, Looping, Fetch
    <3>2. posted[t] = NoIdx
      BY <1>7, <2>1, <2>2 DEF AtTask
    <3>3. AtTask(t)'
      BY <1>1, <1>7, <1>8, <2>2, <3>2 DEF AtTask, Working
    <3> QED
      BY <3>1, <3>3
  <2>3. CASE ProcOf(t) # p
    <3>1. Placed(t)'
      BY <1>1, <1>4, <1>5, <1>9, <1>10, <2>1, <2>3 DEF Placed
    <3>2. AtTask(t)'
      BY <1>1, <1>5, <1>9, <2>1, <2>3 DEF AtTask
    <3> QED
      BY <3>1, <3>2
  <2> QED
    BY <2>2, <2>3
<1>14. OneThread'
  <2>1. \A t \in Threads : pc'[t] \in Working => pc'[t] = pc[t]
    BY <1>8, <1>9 DEF Working
  <2> QED
    BY <1>1, <2>1 DEF ThreadInv, OneThread
<1>15. ThreadInv'
  BY <1>11, <1>12, <1>13, <1>14 DEF ThreadInv
<1> QED
  BY <1>1, <1>2, <1>3, <1>4, <1>5, <1>6, <1>7, <1>8, <1>9, <1>10, <1>15

LEMMA StartInv == ASSUME SolveInv, NEW p \in Procs, Start(p) PROVE SolveInv'
<1> USE DEF SolveInv
<1>1. /\ phase[p] = "start" /\ step[p] = Now /\ NotYet(p) /\ ~ NotYet(p)' /\ UNCHANGED step
      /\ \A q \in Procs : q # p => phase'[q] = phase[q] /\ (NotYet(q)' <=> NotYet(q))
      /\ phase'[p] = "tasks" /\ pc' = [t \in Threads |-> pc'[t]] /\ ThreadInv'
  BY StartStep
<1>2. \A t \in Threads : ProcOf(t) = p =>
         /\ pc[t] \in {"idle", "end"} /\ todo[t] = {} /\ tosend[t] = {} /\ queue[t] = {} /\ ~ Elected(t)
         /\ pc'[t] = IF Dynamic THEN "pop" ELSE Fetch(t, 1)
         /\ pc'[t] \in {"pop", "wait", "end"} /\ pos'[t] = 1 /\ done'[t] = 0
         /\ queue'[t] = IF Dynamic THEN FirstTasks(Now)[t] ELSE {}
  BY StartStep
<1>3. \A t \in Threads : ProcOf(t) # p =>
         pc'[t] = pc[t] /\ pos'[t] = pos[t] /\ done'[t] = done[t] /\ queue'[t] = queue[t]
  BY StartStep
<1>4. /\ UNCHANGED <<step, todo, tosend, faninb, recvb, solved, got, cur>>
      /\ UNCHANGED <<posted, held, indexes, rcoeftab, net>>
      /\ ctrbcnt' = [x \in Local |-> IF x[1] = p THEN Ctrb(Now)[x] ELSE ctrbcnt[x]]
  BY <1>1 DEF Start, StartThreads, OpenRequests, threadVars
<1>5. \A t \in Threads : pc'[t] = pc[t] \/ (pc[t] \in {"idle", "end"} /\ pc'[t] \in {"pop", "wait", "end"})
  BY <1>2, <1>3
<1>6. reqtab[p] = <<>> /\ incoming[p] = 0 /\ (\A x \in FanIns : Receiver(x) = p => Coming(x)) /\ recvreq[p] = "freed"
  <2>1. reqtab[p] = <<>> /\ incoming[p] = 0 /\ \A x \in FanIns : Receiver(x) = p => Coming(x)
    BY <1>1 DEF SendInv, IncomingInv
  <2>2. recvreq[p] # "freed" <=> incoming[p] > 0
    BY DEF EngineInv, Reception
  <2> QED
    BY <2>1, <2>2
<1>7. PICK in \in Nat, out \in Nat :
         OpenRequests(p, in, out) /\ in = Cardinality({x \in FanIns : Receiver(x) = p})
  <2> DEFINE in == IF Forward(p) THEN RecvNbr(p) ELSE FaninNbr(p)
             out == IF Forward(p) THEN FaninNbr(p) ELSE RecvNbr(p)
  <2>1. RecvNbr(p) \in Nat /\ FaninNbr(p) \in Nat
    BY FanInsFinite DEF RecvsOf, FanInsOf, RecvNbr, FaninNbr
  <2>2. in = Cardinality({x \in FanIns : Receiver(x) = p})
    <3>1. CASE Now = "forward"
      <4>1. {x \in FanIns : Receiver(x) = p} = RecvsOf(p)
        BY <3>1, RemoteFacts DEF RecvsOf
      <4> QED
        BY <1>1, <3>1, <4>1 DEF Forward, RecvNbr
    <3>2. CASE Now = "backward"
      <4>1. {x \in FanIns : Receiver(x) = p} = FanInsOf(p)
        BY <3>2, RemoteFacts DEF FanInsOf
      <4> QED
        BY <1>1, <3>2, <4>1 DEF Forward, FaninNbr
    <3> QED
      BY <3>1, <3>2, NowFacts
  <2>3. OpenRequests(p, in, out)
    BY DEF Start
  <2>4. in \in Nat /\ out \in Nat
    BY <2>1
  <2> QED
    BY <2>2, <2>3, <2>4
<1>8. EngineInv'
  <2>1. \A t \in ThreadsOf(p) : ~ Elected(t)
    BY <1>2, ThreadFacts
  <2>2. \A t \in Threads : \/ pc'[t] = pc[t]
                           \/ pc[t] \notin Communicating /\ pc'[t] \notin Communicating \cup {"elect"}
    BY <1>5 DEF Communicating
  <2> QED
    BY <1>1, <1>6, <1>7, <2>1, <2>2, OpenRequestsInv
<1>9. /\ \A q \in Procs : incoming'[q] = IF q = p THEN in ELSE incoming[q]
      /\ \A q \in Procs : q # p => reqtab'[q] = reqtab[q] /\ recvreq'[q] = recvreq[q]
      /\ reqtab'[p] = IF in = 0 THEN <<>> ELSE <<Request(NoIdx)>>
      /\ recvreq'[p] \in {"freed", "active"}
  BY <1>7 DEF OpenRequests, EngineInv, EngineTypes
<1>10. MessagesKept /\ LabelsKept /\ TasksKept /\ \A t \in Threads : Unmoved(t)
  <2>1. \A q \in Procs : BufferFull(q)' <=> BufferFull(q)
    BY <1>6, <1>9 DEF BufferFull
  <2>2. \A t \in Threads : Unmoved(t)
    BY <1>2, <1>3 DEF Unmoved
  <2>3. MessagesKept
    BY <1>4, <2>1 DEF MessagesKept
  <2>4. LabelsKept /\ TasksKept
    BY <1>4, <1>5 DEF LabelsKept, TasksKept, AtFanIn, Working
  <2> QED
    BY <2>2, <2>3, <2>4
<1>11. \A x \in FanIns : Queued(x)' <=> Queued(x)
  <2>1. \A t \in Threads : \A x \in FanIns : x \in queue'[t] <=> x \in queue[t]
    <3> SUFFICES ASSUME NEW t \in Threads, NEW x \in FanIns PROVE x \in queue'[t] <=> x \in queue[t]
      OBVIOUS
    <3>1. x \notin FirstTasks(Now)[t]
      BY DEF FirstTasks
    <3> QED
      BY <1>2, <1>3, <3>1
  <2> QED
    BY <2>1 DEF Queued
<1>12. (\A x : UnsentSolution(x)' <=> UnsentSolution(x)) /\ NewTasks' = NewTasks
  <2>1. \A x : UnsentSolution(x)' <=> UnsentSolution(x)
    BY <1>4, UnsentSolutionSame
  <2>2. \A x \in FanIns : Waiting(x)' <=> Waiting(x)
    BY <1>1, <1>10, <1>11, <2>1, PlacesSame DEF Waiting
  <2> QED
    BY <1>4, <2>1, <2>2, AheadSame
<1>13. EdgesKept /\ UnsentKept
  <2>1. EdgesKept
    BY <1>4, <1>10, <1>12, EdgesStay
  <2> QED
    BY <1>1, <1>12, <2>1, UnsentSame DEF EdgesKept
<1>14. MessageInv' /\ OnePlaceInv' /\ ComingKept
  BY <1>1, <1>10, <1>13, MessageSame
<1>15. BegunInv'
  BY <1>10, <1>12, BegunSame
<1>16. \A i \in 1 .. Len(reqtab'[p]) : reqtab'[p][i].idx = NoIdx
  <2>1. CASE reqtab'[p] = <<>>
    BY <2>1
  <2>2. CASE reqtab'[p] = <<Request(NoIdx)>>
    <3>1. Len(<<Request(NoIdx)>>) = 1 /\ <<Request(NoIdx)>>[1] = Request(NoIdx)
      OBVIOUS
    <3>2. Request(NoIdx).idx = NoIdx
      BY DEF Request
    <3> QED
      BY <2>2, <3>1, <3>2
  <2> QED
    BY <1>9, <2>1, <2>2
<1>17. \A x \in FanIns : Pending(x)' <=> Pending(x)
  <2> SUFFICES ASSUME NEW x \in FanIns PROVE Pending(x)' <=> Pending(x)
    OBVIOUS
  <2>1. x # NoIdx
    BY FanInFacts
  <2>2. ASSUME NEW q \in Procs PROVE PendingAt(q, x)' <=> PendingAt(q, x)
    <3>1. CASE q = p
      BY <1>6, <1>16, <2>1, <3>1 DEF PendingAt
    <3>2. CASE q # p
      BY <1>4, <1>9, <3>2 DEF PendingAt
    <3> QED
      BY <3>1, <3>2
  <2> QED
    BY <1>4, <2>2, PendingSplit
<1>18. SendInv'
  <2>1. Now' = Now /\ \A x : Sender(x)' = Sender(x)
    BY <1>1, NowSame
  <2>2. \A x \in FanIns : x # NoIdx
    BY FanInFacts
  <2>3. ASSUME NEW q \in Procs, NEW i \in 1 .. Len(reqtab'[q]), NEW x \in FanIns, reqtab'[q][i].idx = x
        PROVE  q # p /\ reqtab'[q] = reqtab[q]
    BY <1>9, <1>16, <2>2, <2>3
  <2>4. \A q \in Procs : \A i \in 1 .. Len(reqtab'[q]) :
          \A x \in FanIns : reqtab'[q][i].idx = x => Sender(x)' = q
    BY <2>1, <2>3 DEF SendInv
  <2>5. \A x \in FanIns : Unsent(x)' =>
          /\ \A q \in Procs : \A i \in 1 .. Len(reqtab'[q]) : reqtab'[q][i].idx # x
          /\ \A t \in Threads : posted'[t] # x
    BY <1>4, <1>13, <2>3 DEF SendInv, UnsentKept
  <2>6. \A x \in FanIns : recvb'[x] # <<>> => Now' = "backward" /\ Pending(x)'
    BY <1>4, <1>17, <2>1 DEF SendInv
  <2>7. \A q \in Procs : NotYet(q)' \/ phase'[q] = "barrier" => reqtab'[q] = <<>>
    BY <1>1, <1>9 DEF SendInv
  <2> QED
    BY <2>4, <2>5, <2>6, <2>7 DEF SendInv
<1>19. FanInInv'
  <2>1. \A t \in Threads : pc'[t] = "gemm" => pc[t] = "gemm" /\ todo'[t] = todo[t]
    BY <1>4, <1>5
  <2> QED
    BY <1>4, <1>10, <1>11, <1>13, <1>17, <2>1, FanInSame
<1>20. IncomingInv'
  <2>0. \A x : Receiver(x)' = Receiver(x)
    BY <1>1, NowSame
  <2>1. ASSUME NEW q \in Procs, q # p
        PROVE  IF NotYet(q)' THEN incoming'[q] = 0 /\ \A x \in FanIns : Receiver(x)' = q => Coming(x)'
               ELSE incoming'[q] = Cardinality({x \in FanIns : Receiver(x)' = q /\ Coming(x)'})
    <3>1. {x \in FanIns : Receiver(x)' = q /\ Coming(x)'} = {x \in FanIns : Receiver(x) = q /\ Coming(x)}
      BY <1>14, <2>0 DEF ComingKept
    <3> QED
      BY <1>1, <1>9, <1>14, <2>0, <2>1, <3>1 DEF IncomingInv, ComingKept
  <2>2. {x \in FanIns : Receiver(x)' = p /\ Coming(x)'} = {x \in FanIns : Receiver(x) = p}
    BY <1>6, <1>14, <2>0 DEF ComingKept
  <2>3. incoming'[p] = Cardinality({x \in FanIns : Receiver(x)' = p /\ Coming(x)'})
    BY <1>7, <1>9, <2>2
  <2> QED
    BY <1>1, <2>1, <2>3 DEF IncomingInv
<1>21. CounterInv'
  <2>1. ASSUME NEW x \in Local PROVE Counter(x)' = Counter(x)
    <3>1. Awaited(x)' = Awaited(x)
      BY <1>1, <1>14, AwaitedSame DEF ComingKept
    <3>2. {e \in LeftEdges : Home(e) = x}' = {e \in LeftEdges : Home(e) = x}
      BY <1>1, <1>13, NowSame DEF EdgesKept
    <3> QED
      BY <3>1, <3>2 DEF Counter
  <2>2. ASSUME NEW x \in Local
        PROVE  ctrbcnt'[x] \in Nat /\ (~ NotYet(x[1])' => ctrbcnt'[x] = Counter(x)')
    <3>1. x[1] \in Procs
      BY EdgeFacts
    <3>2. CASE x[1] = p
      BY <1>1, <1>4, <2>1, <3>2, NothingBegun
    <3>3. CASE x[1] # p
      BY <1>1, <1>4, <2>1, <3>1, <3>3 DEF CounterInv
    <3> QED
      BY <3>2, <3>3
  <2>3. ctrbcnt' \in [Local -> Nat]
    <3>1. ctrbcnt' = [x \in Local |-> ctrbcnt'[x]]
      BY <1>4
    <3> QED
      BY <2>2, <3>1
  <2> QED
    BY <2>2, <2>3 DEF CounterInv
<1>22. GotInv' /\ ReadyInv'
  <2>1. \A x \in FanIns : (Coming(x) \/ TakenAt(x, "add"))' <=> (Coming(x) \/ TakenAt(x, "add"))
    BY <1>1, <1>10, <1>14, PlacesSame DEF ComingKept
  <2>2. \A x \in FanIns : (Coming(x) \/ Taking(x))' => (Coming(x) \/ Taking(x))
    BY <1>14 DEF ComingKept
  <2> QED
    BY <1>4, <1>13, <2>1, <2>2, GotSame, ReadySame DEF EdgesKept
<1>23. ~ Dynamic => \A t \in Threads : InOrder(t)'
  <2> SUFFICES ASSUME ~ Dynamic, NEW t \in Threads PROVE InOrder(t)'
    OBVIOUS
  <2>1. CASE ProcOf(t) = p
    <3>1. /\ pos'[t] = 1 /\ Len(Order[t]) \in Nat /\ pc'[t] = Fetch(t, 1)
          /\ \A i \in 1 .. Len(Order[t]) : Tasks(t)[i] \in Cblks /\ Own[Tasks(t)[i]] = p
      BY <1>2, <2>1, TasksFacts
    <3>2. pc'[t] = IF 1 <= Len(Order[t]) THEN "wait" ELSE "end"
      BY <3>1 DEF Fetch
    <3>3. \A i \in 1 .. Len(Order[t]) : solved[Now][Tasks(t)[i]] = 0
      BY <1>1, <3>1 DEF ThreadInv, StepsInv
    <3>4. Tasks(t)' = Tasks(t) /\ Now' = Now /\ solved' = solved
      BY <1>1, <1>4, NowSame DEF Tasks, Forward
    <3>5. pc'[t] \notin Working
      BY <3>2 DEF Working
    <3>6. \A i \in 1 .. Len(Order[t]) : ~ (i < pos'[t])
      BY <3>1
    <3>7. \A i \in 1 .. Len(Order[t]) :
            solved'[Now'][Tasks(t)'[i]] =
               IF i < pos'[t] \/ (i = pos'[t] /\ pc'[t] \in Working /\ cur'[t] \notin FanIns) THEN 1 ELSE 0
      BY <3>3, <3>4, <3>5, <3>6
    <3>8. /\ pos'[t] \in 1 .. Len(Order[t]) + 1
          /\ pc'[t] = "end" => pos'[t] = Len(Order[t]) + 1
          /\ pc'[t] \in Working \cup Looping => pos'[t] <= Len(Order[t])
      BY <3>1, <3>2 DEF Working, Looping
    <3> QED
      BY <3>5, <3>7, <3>8 DEF InOrder
  <2>2. CASE ProcOf(t) # p
    <3>1. ProcOf(t) \in Procs
      BY ThreadFacts
    <3>2. InOrder(t) /\ pc'[t] = pc[t] /\ pos'[t] = pos[t] /\ (NotYet(ProcOf(t))' <=> NotYet(ProcOf(t)))
      BY <1>1, <1>3, <2>2, <3>1
    <3>3. Tasks(t)' = Tasks(t) /\ Now' = Now /\ UNCHANGED <<solved, cur>>
      BY <1>1, <1>4, NowSame DEF Tasks, Forward
    <3> QED
      BY <3>2, <3>3 DEF InOrder
  <2> QED
    BY <2>1, <2>2
<1>24. QueueInv'
  <2>1. \A t \in Threads : ProcOf(t) \in Procs
    BY ThreadFacts
  <2>2. \A t \in Threads : ProcOf(t) = p => \A x \in queue'[t] :
          /\ Dynamic /\ x \in Local /\ x \notin FanIns /\ x[1] = p /\ Ctrb(Now)[x] = 0 /\ InSlice(t, x)
    <3>1. \A t \in Threads : FirstTasks(Now)[t] =
             {x \in Local \ FanIns : x[1] = ProcOf(t) /\ Ctrb(Now)[x] = 0 /\ InSlice(t, x)}
      BY DEF FirstTasks
    <3> QED
      BY <1>2, <3>1
  <2>3. ASSUME NEW t \in Threads, NEW u \in Threads, NEW x \in queue'[t], x \in queue'[u] PROVE t = u
    <3>1. \A v \in Threads : ProcOf(v) # p => \A y \in queue'[v] : y \in queue[v] /\ y[1] = ProcOf(v)
      BY <1>3 DEF QueueInv
    <3>2. CASE ProcOf(t) = p
      <4>1. ProcOf(u) = p
        BY <2>2, <2>3, <3>1, <3>2
      <4> QED
        BY <2>2, <2>3, <3>2, <4>1, SlicesApart
    <3>3. CASE ProcOf(t) # p
      <4>1. ProcOf(u) # p
        BY <2>2, <2>3, <3>1, <3>3
      <4> QED
        BY <2>3, <3>1, <3>3, <4>1 DEF QueueInv
    <3> QED
      BY <3>2, <3>3
  <2>4. Now' = Now /\ \A x : Data(x)' = Data(x)
    BY <1>1, NowSame
  <2>5. ASSUME NEW t \in Threads, NEW x \in queue'[t]
        PROVE  /\ Dynamic /\ x[1] = ProcOf(t) /\ ~ NotYet(x[1])'
               /\ x \notin FanIns => solved'[Now][x[2]] = 0 /\ ctrbcnt'[x] = 0
               /\ x \in FanIns => /\ Now = "backward" /\ ~ Coming(x)' /\ ~ TakenAt(x, "store")'
                                  /\ faninb'[x] = <<Data(x)>>
                                  /\ \A u \in Threads : pc'[u] \in Working => cur'[u] # x
    <3>1. CASE ProcOf(t) = p
      <4>1. Dynamic /\ x \in Local /\ x \notin FanIns /\ x[1] = p /\ Ctrb(Now)[x] = 0
        BY <2>2, <3>1
      <4>2. x[2] \in Cblks /\ Own[x[2]] = p
        BY <4>1, EdgeFacts
      <4> QED
        BY <1>1, <1>4, <3>1, <4>1, <4>2 DEF ThreadInv, StepsInv
    <3>2. CASE ProcOf(t) # p
      <4>1. /\ x \in queue[t] /\ Dynamic /\ x[1] = ProcOf(t) /\ ~ NotYet(x[1]) /\ x \in Local
            /\ x \notin FanIns => solved[Now][x[2]] = 0 /\ ctrbcnt[x] = 0
        BY <1>3, <3>2 DEF QueueInv, ThreadInv, SolveTypes
      <4>2. x \in FanIns => /\ Now = "backward" /\ ~ Coming(x) /\ ~ TakenAt(x, "store")
                            /\ faninb[x] = <<Data(x)>>
                            /\ \A u \in Threads : pc[u] \in Working => cur[u] # x
        BY <1>3, <3>2, <4>1 DEF QueueInv
      <4>3. x \in FanIns => /\ Now = "backward" /\ ~ Coming(x)' /\ ~ TakenAt(x, "store")'
                            /\ faninb'[x] = <<Data(x)>>
                            /\ \A u \in Threads : pc'[u] \in Working => cur'[u] # x
        BY <1>1, <1>4, <1>10, <1>14, <4>2, PlacesSame DEF ComingKept, TasksKept
      <4>4. ~ NotYet(x[1])'
        BY <1>1, <2>1, <3>2, <4>1
      <4> QED
        BY <1>4, <3>2, <4>1, <4>3, <4>4
    <3> QED
      BY <3>1, <3>2
  <2> QED
    BY <2>3, <2>4, <2>5 DEF QueueInv
<1>25. Dynamic => CountInv'
  <2> SUFFICES ASSUME Dynamic PROVE CountInv'
    OBVIOUS
  <2>1. PICK F \in [Threads -> SUBSET Local], G \in SUBSET Local : Counts(F, G)
    BY DEF CountInv
  <2> DEFINE F1 == [t \in Threads |-> IF ProcOf(t) = p THEN {} ELSE F[t]]
             G1 == G \ TasksOf(p)
  <2>2. /\ \A x : DoneTask(x)' <=> DoneTask(x)
        /\ \A q : TasksOf(q)' = TasksOf(q)
    BY <1>1, <1>10, <1>12, NowSame DEF DoneTask, TasksKept, TasksOf
  <2>3. F1 \in [Threads -> SUBSET Local] /\ G1 \in SUBSET Local
    OBVIOUS
  <2>4. Cardinality({}) = 0
    BY FS_EmptySet
  <2>5. \A t \in Threads : /\ F1[t] \subseteq TasksOf(ProcOf(t)) /\ F1[t] \cap G1 = {}
                           /\ done'[t] = Cardinality(F1[t])
                           /\ \A x \in F1[t] : DoneTask(x)
                           /\ \A u \in Threads : u # t => F1[t] \cap F1[u] = {}
    BY <1>2, <1>3, <2>1, <2>4 DEF Counts
  <2>6. \A q \in Procs : q # p => TasksOf(q) \cap G1 = TasksOf(q) \cap G /\ TasksOf(q) \ G1 = TasksOf(q) \ G
    BY DEF TasksOf
  <2>7. TasksOf(p) \cap G1 = {} /\ TasksOf(p) \ G1 = TasksOf(p)
    OBVIOUS
  <2>8. \A q \in Procs : taskcnt'[q] = IF q # p THEN taskcnt[q] ELSE Cardinality(TasksOf(p))
    BY StartStep
  <2> HIDE DEF F1, G1
  <2>9. \A q \in Procs : ~ NotYet(q)' => /\ \A x \in TasksOf(q) \cap G1 : DoneTask(x)
                                         /\ taskcnt'[q] = Cardinality(TasksOf(q) \ G1)
    BY <1>1, <2>1, <2>6, <2>7, <2>8 DEF Counts
  <2>10. PICK H \in [Threads -> SUBSET Local], K \in SUBSET Local : H = F1 /\ K = G1
    BY <2>3
  <2>11. Counts(H, K)'
    BY <2>2, <2>5, <2>9, <2>10 DEF Counts
  <2> QED
    BY <2>11 DEF CountInv
<1> QED
  BY <1>1, <1>8, <1>14, <1>15, <1>18, <1>19, <1>20, <1>21, <1>22, <1>23, <1>24, <1>25

-----------------------------------------------------------------------------
(* A process at the barrier.                                               *)

(* An emission is in the table of the process that sends it.               *)
LEMMA PostedBy ==
    ASSUME ThreadInv, NEW t \in Threads, NEW x \in FanIns, posted[t] = x
    PROVE  Sender(x) = ProcOf(t) /\ pc[t] = "register"
<1>1. Placed(t) /\ AtTask(t) /\ x # NoIdx
  BY FanInFacts DEF ThreadInv
<1>2. pc[t] = "register" /\ cur[t] \in Local /\ cur[t][1] = ProcOf(t)
  BY <1>1 DEF AtTask, Working
<1>3. CASE Now = "forward"
  <2>1. x = Target(t)
    BY <1>1, <1>2, <1>3 DEF AtTask
  <2>2. x[1] = ProcOf(t)
    BY <2>1 DEF Target
  <2> QED
    BY <1>2, <1>3, <2>2, RemoteFacts
<1>4. CASE Now = "backward"
  <2>1. x \in tosend[t]
    BY <1>1, <1>2, <1>4 DEF AtTask
  <2>2. cur[t] \notin FanIns /\ x \in RecvsTo(cur[t][2])
    BY <1>1, <1>2, <2>1 DEF AtTask, Working
  <2>3. Own[x[2]] = ProcOf(t)
    BY <1>2, <2>2, RecvFacts, EdgeFacts
  <2> QED
    BY <1>2, <1>4, <2>3, RemoteFacts
<1> QED
  BY <1>3, <1>4, NowFacts

LEMMA NothingPending ==
    ASSUME ThreadInv, EngineInv, SendInv, NEW p \in Procs, phase[p] # "tasks", reqtab[p] = <<>>
    PROVE  \A x \in FanIns : Sender(x) = p => ~ Pending(x) /\ x \notin sending
<1>1. ASSUME NEW x \in FanIns, Sender(x) = p PROVE \A t \in Threads : posted[t] # x
  <2> SUFFICES ASSUME NEW t \in Threads, posted[t] = x PROVE FALSE
    OBVIOUS
  <2>1. ProcOf(t) = p /\ pc[t] = "register"
    BY <1>1, PostedBy
  <2> QED
    BY <2>1 DEF ThreadInv, Placed, Working
<1>2. ASSUME NEW x \in FanIns, Sender(x) = p PROVE \A q \in Procs : \A i \in 1 .. Len(reqtab[q]) : reqtab[q][i].idx # x
  <2> SUFFICES ASSUME NEW q \in Procs, NEW i \in 1 .. Len(reqtab[q]), reqtab[q][i].idx = x PROVE FALSE
    OBVIOUS
  <2>1. q = p
    BY <1>2 DEF SendInv
  <2> QED
    BY <2>1
<1> QED
  BY <1>1, <1>2 DEF Pending, EngineInv, SentTracked

(* Nothing is left of the step for a process that has done it.             *)
LEMMA AtBarrier ==
    ASSUME SolveInv, NEW p \in Procs, phase[p] = "barrier", ~ NotYet(p)
    PROVE  /\ recvreq[p] = "freed" /\ incoming[p] = 0 /\ reqtab[p] = <<>>
           /\ \A x \in FanIns : Receiver(x) = p => ~ Coming(x) /\ ~ Taking(x)
           /\ \A c \in Cblks : Own[c] = p => solved[Now][c] = 1
           /\ \A t \in Threads : ProcOf(t) = p =>
                 /\ pc[t] = "end" /\ todo[t] = {} /\ tosend[t] = {} /\ held[t] = NoMsg /\ posted[t] = NoIdx
                 /\ queue[t] = {} /\ (Dynamic => done[t] = 0)
<1> USE DEF SolveInv
<1>1. reqtab[p] = <<>> /\ recvreq[p] = "freed"
  <2>1. reqtab[p] = <<>>
    BY DEF SendInv
  <2>2. recvreq[p] # "freed" <=> \E i \in 1 .. Len(reqtab[p]) : reqtab[p][i].live /\ reqtab[p][i].idx = NoIdx
    BY DEF EngineInv, Reception
  <2> QED
    BY <2>1, <2>2
<1>2. incoming[p] = 0 /\ \A x \in FanIns : Receiver(x) = p => ~ Coming(x)
  <2> DEFINE S == {x \in FanIns : Receiver(x) = p /\ Coming(x)}
  <2>1. incoming[p] = Cardinality(S) /\ ~ (incoming[p] > 0)
    BY <1>1 DEF IncomingInv, EngineInv, Reception
  <2>2. IsFiniteSet(S) /\ Cardinality(S) \in Nat
    BY FanInsFinite
  <2> HIDE DEF S
  <2>3. Cardinality(S) = 0 /\ S = {}
    BY <2>1, <2>2, FS_EmptySet
  <2> QED
    BY <2>1, <2>3 DEF S
<1>3. ASSUME NEW t \in Threads, ProcOf(t) = p
      PROVE  pc[t] = "end" /\ todo[t] = {} /\ tosend[t] = {} /\ held[t] = NoMsg /\ posted[t] = NoIdx
  <2>1. pc[t] = "end" /\ pc[t] \notin Working
    BY <1>3 DEF ThreadInv, Placed, Working
  <2> QED
    BY <2>1 DEF ThreadInv, AtTask, MessageInv, Holding
<1>4. \A x \in FanIns : Receiver(x) = p => ~ Taking(x)
  BY <1>3, RemoteFacts, ThreadFacts DEF Taking
<1>5. CASE ~ Dynamic
  <2>1. \A t \in Threads : queue[t] = {}
    BY <1>5 DEF QueueInv
  <2>2. ASSUME NEW c \in Cblks, Own[c] = p PROVE solved[Now][c] = 1
    <3>1. PICK t \in Threads : \E i \in 1 .. Len(Order[t]) : ProcOf(t) = p /\ Tasks(t)[i] = c
      BY <2>2, TasksFacts
    <3>2. PICK i \in 1 .. Len(Order[t]) : ProcOf(t) = p /\ Tasks(t)[i] = c
      BY <3>1
    <3>3. InOrder(t) /\ pc[t] = "end"
      BY <1>3, <1>5, <3>2
    <3>4. pos[t] = Len(Order[t]) + 1 /\ Len(Order[t]) \in Nat
      BY <3>2, <3>3, TasksFacts DEF InOrder
    <3>5. i < pos[t]
      BY <3>4
    <3> QED
      BY <3>2, <3>3, <3>5 DEF InOrder
  <2> QED
    BY <1>1, <1>2, <1>3, <1>4, <1>5, <2>1, <2>2
<1>6. CASE Dynamic
  <2>1. PICK F \in [Threads -> SUBSET Local], G \in SUBSET Local : Counts(F, G)
    BY <1>6 DEF CountInv
  <2>2. TasksOf(p) \subseteq G
    <3> DEFINE S == TasksOf(p) \ G
    <3>1. taskcnt[p] <= 0
      <4>1. PICK t \in ThreadsOf(p) : TRUE
        <5>1. ThreadNbr[p] \in Nat \ {0}
          BY StructureAssumption
        <5>2. <<p, 0>> \in ThreadsOf(p)
          BY <5>1 DEF ThreadsOf
        <5> QED
          BY <5>2
      <4>2. t \in Threads /\ ProcOf(t) = p
        BY ThreadFacts
      <4>3. pc[t] = "end" /\ Placed(t)
        BY <1>3, <4>2 DEF ThreadInv
      <4> QED
        BY <1>6, <4>2, <4>3 DEF Placed
    <3>2. taskcnt[p] = Cardinality(S)
      BY <2>1 DEF Counts
    <3>3. IsFiniteSet(S) /\ Cardinality(S) \in Nat
      BY LocalFinite DEF TasksOf
    <3> HIDE DEF S
    <3>4. S = {}
      BY <3>1, <3>2, <3>3, FS_EmptySet
    <3> QED
      BY <3>4 DEF S
  <2>3. \A x \in TasksOf(p) : x \notin NewTasks
    BY <2>1, <2>2 DEF Counts, DoneTask
  <2>4. ASSUME NEW c \in Cblks, Own[c] = p PROVE solved[Now][c] = 1
    <3>1. <<p, c>> \in TasksOf(p) /\ <<p, c>> \in Local \ FanIns
      BY <2>4, FanInsLocal DEF TasksOf
    <3>2. solved[Now][c] # 0
      BY <2>3, <3>1 DEF NewTasks, Ahead
    <3> QED
      BY <3>2, NowFacts DEF ThreadInv, SolveTypes
  <2>5. ASSUME NEW t \in Threads, ProcOf(t) = p PROVE queue[t] = {}
    <3> SUFFICES ASSUME NEW x \in queue[t] PROVE FALSE
      OBVIOUS
    <3>1. x \in Local /\ x[1] = p /\ (x \in FanIns => Now = "backward")
      BY <2>5 DEF QueueInv, ThreadInv, SolveTypes
    <3>2. x \in TasksOf(p)
      BY <3>1 DEF TasksOf
    <3>3. Ahead(x)
      BY <2>5 DEF QueueInv, Ahead, Queued
    <3> QED
      BY <2>3, <3>1, <3>2, <3>3 DEF NewTasks
  <2>6. ASSUME NEW t \in Threads, ProcOf(t) = p PROVE done[t] = 0
    <3>1. F[t] = {} /\ done[t] = Cardinality(F[t])
      BY <2>1, <2>2, <2>6 DEF Counts
    <3> QED
      BY <3>1, FS_EmptySet
  <2> QED
    BY <1>1, <1>2, <1>3, <1>4, <2>4, <2>5, <2>6
<1> QED
  BY <1>5, <1>6

(* Nor for those it sends to.                                              *)
LEMMA NothingLeft ==
    ASSUME SolveInv, NEW p \in Procs, phase[p] = "barrier", ~ NotYet(p)
    PROVE  /\ \A e \in Edges : Own[Src[e]] = p => e \notin UnsentEdges
           /\ \A x \in FanIns : x[1] = p => faninb[x] = <<>>
           /\ \A x \in FanIns : Sender(x) = p => recvb[x] = <<>> /\ ~ Unsent(x) /\ x \notin sending
<1> USE DEF SolveInv
<1>1. /\ reqtab[p] = <<>>
      /\ \A x \in FanIns : Receiver(x) = p => ~ Coming(x) /\ ~ Taking(x)
      /\ \A c \in Cblks : Own[c] = p => solved[Now][c] = 1
      /\ \A t \in Threads : ProcOf(t) = p =>
            pc[t] = "end" /\ todo[t] = {} /\ tosend[t] = {} /\ queue[t] = {}
  BY AtBarrier
<1>2. \A x \in FanIns : Sender(x) = p => ~ Pending(x) /\ x \notin sending
  BY <1>1, NothingPending
<1>3. \A x \in FanIns : x[1] = p => ~ Queued(x)
  <2> SUFFICES ASSUME NEW x \in FanIns, x[1] = p, NEW t \in Threads, x \in queue[t] PROVE FALSE
    BY DEF Queued
  <2>1. ProcOf(t) = p
    BY DEF QueueInv
  <2> QED
    BY <1>1, <2>1
<1>4. ASSUME NEW x \in Local, x[1] = p, x \in FanIns => Now = "backward" PROVE x \notin NewTasks
  <2>1. CASE x \notin FanIns
    <3>1. x[2] \in Cblks /\ Own[x[2]] = p
      BY <1>4, <2>1, EdgeFacts
    <3> QED
      BY <1>1, <2>1, <3>1 DEF NewTasks, Ahead
  <2>2. CASE x \in FanIns
    <3>1. Now = "backward" /\ Now # "forward" /\ Receiver(x) = p
      BY <1>4, <2>2, RemoteFacts
    <3>2. ~ Coming(x) /\ ~ Taking(x) /\ ~ Queued(x)
      BY <1>1, <1>3, <1>4, <2>2, <3>1
    <3>3. ~ UnsentSolution(x) /\ ~ InNet(x) /\ ~ InBuffer(x) /\ ~ TakenAt(x, "store")
      BY <3>1, <3>2 DEF Coming, Unsent, Taking, TakenAt
    <3> QED
      BY <2>2, <3>1, <3>2, <3>3 DEF NewTasks, Ahead
  <2> QED
    BY <2>1, <2>2
<1>5. ASSUME NEW e \in Edges, Own[Src[e]] = p PROVE e \notin UnsentEdges
  <2>1. TaskOf(e) \in Local /\ TaskOf(e)[1] = p /\ (TaskOf(e) \in FanIns => Now = "backward")
    BY <1>5, EdgeFacts
  <2>2. TaskOf(e) \notin NewTasks
    BY <1>4, <2>1
  <2>3. ASSUME NEW t \in Threads, e \in todo[t] PROVE FALSE
    <3>1. ProcOf(t) = p
      <4>1. pc[t] \in Working /\ TaskOf(e) = cur[t] /\ cur[t][1] = ProcOf(t)
        BY <2>3 DEF ThreadInv, AtTask
      <4> QED
        BY <2>1, <4>1
    <3> QED
      BY <1>1, <2>3, <3>1
  <2> QED
    BY <2>2, <2>3 DEF UnsentEdges, EdgesBefore
<1>6. ASSUME NEW x \in FanIns, Sender(x) = p PROVE ~ Unsent(x)
  <2>1. CASE Now = "forward"
    <3>1. x[1] = p
      BY <1>6, <2>1, RemoteFacts
    <3>2. \A e \in Contribs(x) : e \in Edges /\ Own[Src[e]] = p
      BY <3>1 DEF Contribs, ProcEdges
    <3> QED
      BY <1>5, <2>1, <3>2 DEF Unsent
  <2>2. CASE Now = "backward"
    <3>1. Own[x[2]] = p /\ x[2] \in Cblks /\ Now # "forward"
      BY <1>6, <2>2, RemoteFacts, FanInFacts
    <3>2. solved["backward"][x[2]] # 0
      BY <1>1, <2>2, <3>1
    <3>3. ASSUME NEW t \in Threads, x \in tosend[t] PROVE FALSE
      <4>1. pc[t] \in Working /\ cur[t] \in Local /\ cur[t][1] = ProcOf(t)
        BY <3>3 DEF ThreadInv, AtTask
      <4>2. cur[t] \notin FanIns /\ x \in RecvsTo(cur[t][2])
        BY <3>3, <4>1 DEF ThreadInv, AtTask
      <4>3. ProcOf(t) = p
        BY <3>1, <4>1, <4>2, RecvFacts, EdgeFacts
      <4> QED
        BY <1>1, <3>3, <4>3
    <3> QED
      BY <3>1, <3>2, <3>3 DEF Unsent, UnsentSolution
  <2> QED
    BY <2>1, <2>2, NowFacts
<1>7. ASSUME NEW x \in FanIns, x[1] = p PROVE faninb[x] = <<>>
  <2>1. CASE Now = "forward"
    <3>1. Sender(x) = p
      BY <1>7, <2>1, RemoteFacts
    <3> QED
      BY <1>2, <1>6, <2>1, <3>1 DEF FanInInv
  <2>2. CASE Now = "backward"
    <3>1. Now # "forward" /\ ~ Queued(x)
      BY <1>3, <1>7, <2>2
    <3>2. \A t \in Threads : pc[t] \in Working => cur[t][1] = ProcOf(t) /\ ProcOf(t) # p
      BY <1>1 DEF ThreadInv, AtTask, Working
    <3> QED
      BY <1>7, <3>1, <3>2 DEF FanInInv
  <2> QED
    BY <2>1, <2>2, NowFacts
<1>8. \A x \in FanIns : Sender(x) = p => recvb[x] = <<>>
  BY <1>2 DEF SendInv
<1> QED
  BY <1>2, <1>5, <1>6, <1>7, <1>8

-----------------------------------------------------------------------------
(* The beginning of a step.                                                *)

(* No process has begun the step, and nothing is left of the one before.   *)
Fresh ==
    /\ SolveTypes /\ StepsInv /\ EngineInv /\ ctrbcnt \in [Local -> Nat]
    /\ \A p \in Procs : /\ NotYet(p) /\ reqtab[p] = <<>> /\ incoming[p] = 0
                        /\ recvreq[p] = "freed" /\ phase[p] # "tasks"
    /\ \A q, p \in Procs : net[<<q, p>>] = <<>>
    /\ \A x \in FanIns : faninb[x] = <<>> /\ recvb[x] = <<>>
    /\ \A c \in Cblks : solved[Now][c] = 0
    /\ \A e \in Edges : got[Now][e] = 0
    /\ \A t \in Threads :
          /\ pc[t] \in {"idle", "end"} /\ (phase[ProcOf(t)] \in {"cleanup", "barrier"} => pc[t] = "end")
          /\ todo[t] = {} /\ tosend[t] = {} /\ held[t] = NoMsg /\ posted[t] = NoIdx /\ queue[t] = {}
          /\ IF Dynamic THEN done[t] = 0 ELSE pos[t] \in 1 .. Len(Order[t]) + 1

LEMMA FreshInv == Fresh => SolveInv
<1> SUFFICES ASSUME Fresh PROVE SolveInv
  OBVIOUS
<1>1. /\ SolveTypes /\ StepsInv /\ EngineInv /\ ctrbcnt \in [Local -> Nat]
      /\ \A p \in Procs : /\ NotYet(p) /\ reqtab[p] = <<>> /\ incoming[p] = 0
                          /\ recvreq[p] = "freed" /\ phase[p] # "tasks"
      /\ \A q, p \in Procs : net[<<q, p>>] = <<>>
  BY DEF Fresh
<1>2. /\ \A x \in FanIns : faninb[x] = <<>> /\ recvb[x] = <<>>
      /\ \A c \in Cblks : solved[Now][c] = 0
      /\ \A e \in Edges : got[Now][e] = 0
  BY DEF Fresh
<1>3. \A t \in Threads :
          /\ pc[t] \in {"idle", "end"} /\ (phase[ProcOf(t)] \in {"cleanup", "barrier"} => pc[t] = "end")
          /\ todo[t] = {} /\ tosend[t] = {} /\ held[t] = NoMsg /\ posted[t] = NoIdx /\ queue[t] = {}
  BY DEF Fresh
<1>4. ThreadInv
  <2>1. ASSUME NEW t \in Threads PROVE Placed(t) /\ AtTask(t)
    <3>1. ProcOf(t) \in Procs
      BY ThreadFacts
    <3>2. Placed(t)
      BY <1>1, <1>3, <3>1 DEF Placed, Working, Looping
    <3>3. AtTask(t)
      BY <1>3 DEF AtTask, Working
    <3> QED
      BY <3>2, <3>3
  <2>2. OneThread
    BY <1>3 DEF OneThread, Working
  <2> QED
    BY <1>1, <2>1, <2>2 DEF ThreadInv
<1>5. \A x \in FanIns : ~ InNet(x) /\ ~ InBuffer(x) /\ ~ Taking(x) /\ Channel(x) = <<>>
  <2> SUFFICES ASSUME NEW x \in FanIns PROVE ~ InNet(x) /\ ~ InBuffer(x) /\ ~ Taking(x) /\ Channel(x) = <<>>
    OBVIOUS
  <2>1. Sender(x) \in Procs /\ Receiver(x) \in Procs /\ Msg(x) # NoMsg
    BY RemoteFacts
  <2>2. Channel(x) = <<>>
    BY <1>1, <2>1 DEF Channel
  <2>3. ~ InNet(x)
    BY <2>2 DEF InNet
  <2>4. ~ InBuffer(x)
    BY <1>1, <2>1 DEF InBuffer, BufferFull
  <2>5. ~ Taking(x)
    BY <1>3, <2>1, ThreadFacts DEF Taking
  <2> QED
    BY <2>2, <2>3, <2>4, <2>5
<1>6. NewTasks = Local
  <2> SUFFICES ASSUME NEW x \in Local PROVE Ahead(x)
    BY DEF NewTasks
  <2>1. x[2] \in Cblks
    BY EdgeFacts
  <2> QED
    BY <1>2, <2>1, NowFacts DEF Ahead, UnsentSolution
<1>7. \A L : EdgesBefore(L) = Edges
  BY <1>6, EdgeFacts DEF EdgesBefore
<1>8. FreshEdges = Edges /\ LeftEdges = Edges /\ UnsentEdges = Edges
  BY <1>7 DEF FreshEdges, LeftEdges, UnsentEdges
<1>9. \A x \in FanIns : Unsent(x) /\ Coming(x)
  <2> SUFFICES ASSUME NEW x \in FanIns PROVE Unsent(x)
    BY DEF Coming
  <2>1. CASE Now = "forward"
    <3>1. Contribs(x) # {} /\ Contribs(x) \subseteq Edges
      BY FanInFacts, EdgeFacts DEF Contribs
    <3> QED
      BY <1>8, <2>1, <3>1 DEF Unsent
  <2>2. CASE Now = "backward"
    <3>1. x[2] \in Cblks /\ Now # "forward"
      BY <2>2, FanInFacts
    <3> QED
      BY <1>2, <2>2, <3>1 DEF Unsent, UnsentSolution
  <2> QED
    BY <2>1, <2>2, NowFacts
<1>10. MessageInv
  <2>1. \A q, p \in Procs : /\ net[<<q, p>>] \in Seq({Msg(x) : x \in FanIns})
                            /\ 1 .. Len(net[<<q, p>>]) = {}
    <3>1. \A S : <<>> \in Seq(S) /\ 1 .. Len(<<>>) = {}
      OBVIOUS
    <3> QED
      BY <1>1, <3>1
  <2>2. \A t \in Threads : held[t] = NoMsg /\ ~ Holding(t) /\ pc[t] \notin Working
    BY <1>3 DEF Holding, Working
  <2>3. \A p \in Procs : ~ BufferFull(p)
    BY <1>1 DEF BufferFull
  <2> QED
    BY <2>1, <2>2, <2>3 DEF MessageInv
<1>11. OnePlaceInv
  <2>1. 1 .. Len(<<>>) = {}
    OBVIOUS
  <2> QED
    BY <1>5, <2>1 DEF OnePlaceInv
<1>12. BegunInv
  BY <1>3 DEF BegunInv, Working
<1>13. SendInv
  <2>1. \A x \in FanIns : x # NoIdx
    BY FanInFacts
  <2>2. \A p \in Procs : 1 .. Len(reqtab[p]) = {}
    BY <1>1
  <2> QED
    BY <1>1, <1>2, <1>3, <2>1, <2>2 DEF SendInv
<1>14. FanInInv
  <2>1. \A t \in Threads : pc[t] # "gemm" /\ pc[t] \notin Working
    BY <1>3 DEF Working
  <2>2. \A x \in FanIns : Content(x) = {<<"forward", e>> : e \in Contribs(x) \ FreshEdges}
    <3>1. \A x : Contribs(x) \ FreshEdges = {}
      BY <1>8, EdgeFacts
    <3> QED
      BY <1>2, <3>1 DEF Content
  <2>3. \A x : \A e \in Contribs(x) : e \in LeftEdges
    BY <1>8, EdgeFacts
  <2> QED
    BY <1>2, <2>1, <2>2, <2>3 DEF FanInInv
<1>15. IncomingInv
  BY <1>1, <1>9 DEF IncomingInv
<1>16. CounterInv
  BY <1>1, EdgeFacts DEF CounterInv
<1>17. GotInv
  BY <1>2, <1>8, <1>9 DEF GotInv
<1>18. ReadyInv
  BY <1>2 DEF ReadyInv
<1>19. ~ Dynamic => \A t \in Threads : InOrder(t)
  <2> SUFFICES ASSUME ~ Dynamic, NEW t \in Threads PROVE InOrder(t)
    OBVIOUS
  <2>1. pos[t] \in 1 .. Len(Order[t]) + 1 /\ NotYet(ProcOf(t)) /\ pc[t] \notin Working \cup Looping
    <3>1. pos[t] \in 1 .. Len(Order[t]) + 1 /\ pc[t] \in {"idle", "end"}
      BY DEF Fresh
    <3> QED
      BY <1>1, <3>1, ThreadFacts DEF Working, Looping
  <2> QED
    BY <2>1 DEF InOrder
<1>20. QueueInv
  BY <1>3 DEF QueueInv
<1>21. Dynamic => CountInv
  <2> SUFFICES ASSUME Dynamic PROVE CountInv
    OBVIOUS
  <2> DEFINE F == [t \in Threads |-> {}]
  <2>1. Cardinality({}) = 0
    BY FS_EmptySet
  <2>2. \A t \in Threads : done[t] = 0
    BY DEF Fresh
  <2>3. Counts(F, {})
    BY <1>1, <2>1, <2>2 DEF Counts
  <2>4. F \in [Threads -> SUBSET Local] /\ {} \in SUBSET Local
    OBVIOUS
  <2> QED
    BY <2>3, <2>4 DEF CountInv
<1> QED
  BY <1>1, <1>4, <1>10, <1>11, <1>12, <1>13, <1>14, <1>15, <1>16, <1>17, <1>18, <1>19, <1>20, <1>21 DEF SolveInv

LEMMA SolveInitInv == Init => SolveInv
<1> SUFFICES ASSUME Init PROVE Fresh
  BY FreshInv
<1>1. /\ EngineInit /\ pc = [t \in Threads |-> "idle"]
      /\ ctrbcnt = [x \in Local |-> 0] /\ pos = [t \in Threads |-> 1]
      /\ queue = [t \in Threads |-> {}] /\ taskcnt = [q \in Procs |-> 0]
      /\ done = [t \in Threads |-> 0] /\ cur = [t \in Threads |-> NoIdx]
      /\ step = [p \in Procs |-> "forward"] /\ phase = [p \in Procs |-> "start"]
      /\ todo = [t \in Threads |-> {}] /\ tosend = [t \in Threads |-> {}]
      /\ faninb = [x \in FanIns |-> <<>>] /\ recvb = [x \in FanIns |-> <<>>]
      /\ solved = [s \in Steps |-> [c \in Cblks |-> 0]]
      /\ got = [s \in Steps |-> [e \in Edges |-> 0]]
  BY DEF Init, SchedInit
<1>2. /\ reqtab = [p \in Procs |-> <<>>] /\ incoming = [p \in Procs |-> 0]
      /\ posted = [t \in Threads |-> NoIdx]
      /\ held = [t \in Threads |-> NoMsg] /\ recvreq = [p \in Procs |-> "freed"]
      /\ net = [x \in Procs \X Procs |-> <<>>]
  BY <1>1 DEF EngineInit
<1>3. EngineInv
  BY <1>1, EngineInitInv
<1>4. Now = "forward" /\ Now \in Steps
  BY <1>1 DEF Now, Backward, Steps
<1>5. SolveTypes
  BY <1>1 DEF SolveTypes, Steps
<1>6. StepsInv
  BY <1>1, <1>4 DEF StepsInv, Steps
<1>7. \A t \in Threads : pos[t] \in 1 .. Len(Order[t]) + 1 /\ ProcOf(t) \in Procs
  BY <1>1, OrderFacts, ThreadFacts
<1>8. \A p \in Procs : NotYet(p) /\ phase[p] = "start"
  BY <1>1 DEF NotYet
<1>9. ctrbcnt \in [Local -> Nat]
  BY <1>1
<1>10. (\A c \in Cblks : solved[Now][c] = 0) /\ (\A e \in Edges : got[Now][e] = 0)
  BY <1>1, <1>4
<1> QED
  BY <1>1, <1>2, <1>3, <1>5, <1>6, <1>7, <1>8, <1>9, <1>10 DEF Fresh

(* The first process leaves the barrier: all have done the forward step.   *)
LEMMA LeaveFirstInv ==
    ASSUME SolveInv, NEW p \in Procs, LeaveBarrier(p), Now = "forward"
    PROVE  SolveInv'
<1> SUFFICES Fresh'
  <2>1. Fresh' => SolveInv'
    BY FreshInv, PTL
  <2> QED
    BY <2>1
<1> USE DEF SolveInv
<1>1. /\ phase[p] = "barrier" /\ \A q \in Procs : phase[q] = "barrier" \/ Backward(q)
      /\ step'  = [step EXCEPT ![p] = "backward"] /\ phase' = [phase EXCEPT ![p] = "start"]
      /\ UNCHANGED <<pc, engineVars, schedVars, todo, tosend, faninb, recvb, solved, got>>
  BY DEF LeaveBarrier
<1>2. UNCHANGED <<reqtab, incoming, posted, held, recvreq, net, ctrbcnt, pos, queue, taskcnt, done, cur>>
  BY <1>1 DEF engineVars, tableVars, threadVars, mpiVars, schedVars
<1>3. \A q \in Procs : step[q] = "forward" /\ phase[q] = "barrier" /\ ~ NotYet(q)
  <2>1. \A q \in Procs : step[q] \in Steps /\ step[q] # "backward"
    BY DEF ThreadInv, SolveTypes, Now, Backward
  <2> QED
    BY <1>1, <2>1 DEF Steps, Backward, NotYet
<1>4. /\ phase \in [Procs -> {"start", "tasks", "cleanup", "barrier"}] /\ step \in [Procs -> Steps]
      /\ phase'[p] = "start" /\ step'[p] = "backward"
      /\ \A q \in Procs : q # p => phase'[q] = phase[q] /\ step'[q] = step[q]
      /\ phase' \in [Procs -> {"start", "tasks", "cleanup", "barrier"}] /\ step' \in [Procs -> Steps]
  BY <1>1 DEF ThreadInv, SolveTypes, Steps
<1>5. Now' = "backward" /\ \A q \in Procs : NotYet(q)' /\ phase'[q] # "tasks"
  <2>1. Now' = "backward"
    BY <1>4 DEF Now, Backward
  <2> QED
    BY <1>3, <1>4, <2>1 DEF NotYet
<1>6. /\ \A q \in Procs : recvreq[q] = "freed" /\ incoming[q] = 0 /\ reqtab[q] = <<>>
      /\ \A x \in FanIns : ~ Coming(x) /\ ~ Taking(x)
      /\ \A c \in Cblks : solved["forward"][c] = 1
      /\ \A t \in Threads :
            /\ pc[t] = "end" /\ todo[t] = {} /\ tosend[t] = {} /\ held[t] = NoMsg /\ posted[t] = NoIdx
            /\ queue[t] = {} /\ (Dynamic => done[t] = 0)
  <2>1. \A x \in FanIns : Receiver(x) \in Procs
    BY RemoteFacts
  <2>2. \A c \in Cblks : Own[c] \in Procs
    BY StructureAssumption
  <2> QED
    BY <1>3, <2>1, <2>2, AtBarrier, ThreadFacts
<1>7. /\ \A e \in Edges : e \notin UnsentEdges
      /\ \A x \in FanIns : faninb[x] = <<>> /\ recvb[x] = <<>>
  <2>1. \A x \in FanIns : Sender(x) \in Procs /\ x[1] \in Procs
    BY RemoteFacts, FanInFacts
  <2>2. \A e \in Edges : Own[Src[e]] \in Procs
    BY EdgeFacts
  <2> QED
    BY <1>3, <2>1, <2>2, NothingLeft
<1>8. \A e \in Edges : got["forward"][e] = 1
  <2> SUFFICES ASSUME NEW e \in Edges PROVE got["forward"][e] = 1
    OBVIOUS
  <2>1. CASE Home(e) \notin FanIns
    BY <1>7, <2>1, EdgesNested DEF GotInv
  <2>2. CASE Home(e) \in FanIns
    <3>1. ~ TakenAt(Home(e), "add") /\ ~ Coming(Home(e))
      BY <1>6, <2>2 DEF Taking, TakenAt
    <3> QED
      BY <2>2, <3>1 DEF GotInv
  <2> QED
    BY <2>1, <2>2
<1>9. \A q, r \in Procs : net[<<q, r>>] = <<>>
  <2> SUFFICES ASSUME NEW q \in Procs, NEW r \in Procs PROVE net[<<q, r>>] = <<>>
    OBVIOUS
  <2> DEFINE s == net[<<q, r>>]
  <2>1. /\ s \in Seq({Msg(x) : x \in FanIns})
        /\ \A i \in 1 .. Len(s) : \E x \in FanIns : Sender(x) = q /\ Receiver(x) = r /\ s[i] = Msg(x)
    BY DEF MessageInv
  <2>2. \A x \in FanIns : Sender(x) = q /\ Receiver(x) = r => \A i \in 1 .. Len(s) : s[i] # Msg(x)
    BY <1>6 DEF Coming, InNet, Channel
  <2> HIDE DEF s
  <2>3. 1 .. Len(s) = {} /\ Len(s) \in Nat
    BY <2>1, <2>2
  <2>4. Len(s) = 0
    BY <2>3
  <2>5. s = <<>>
    BY <2>1, <2>4, EmptySeq
  <2> QED
    BY <2>5 DEF s
<1>10. StepsInv'
  <2>1. (\A c \in Cblks : solved["backward"][c] = 0) /\ (\A e \in Edges : got["backward"][e] = 0)
    BY DEF ThreadInv, StepsInv
  <2>2. \A q \in Procs : step'[q] # Now' => phase'[q] = "barrier"
    BY <1>3, <1>4, <1>5
  <2> QED
    BY <1>1, <1>5, <1>6, <1>8, <2>1, <2>2 DEF StepsInv
<1>11. SolveTypes'
  BY <1>1, <1>2, <1>4 DEF ThreadInv, SolveTypes
<1>12. EngineInv'
  <2>1. pc' = [t \in Threads |-> pc'[t]] /\ UNCHANGED <<pc, engineVars>>
    BY <1>1 DEF ThreadInv, SolveTypes
  <2> QED
    BY <2>1, OtherInv
<1>13. (\A c \in Cblks : solved'[Now'][c] = 0) /\ (\A e \in Edges : got'[Now'][e] = 0)
  BY <1>1, <1>5 DEF ThreadInv, StepsInv
<1>14. \A t \in Threads : IF Dynamic THEN done[t] = 0 ELSE pos[t] \in 1 .. Len(Order[t]) + 1
  BY <1>6 DEF InOrder
<1>15. ctrbcnt' \in [Local -> Nat]
  BY <1>2 DEF CounterInv
<1> QED
  BY <1>1, <1>2, <1>5, <1>6, <1>7, <1>9, <1>10, <1>11, <1>12, <1>13, <1>14, <1>15 DEF Fresh

LEMMA SolveNext == ASSUME SolveInv, [Next]_vars PROVE SolveInv'
<1>1. ASSUME NEW t \in Threads, Work(t) PROVE SolveInv'
  BY <1>1, IdleInv, SolveStepInv, FindNoBufferInv, AllocInv, UpdateInv, ReleaseInv, SendFaninInv,
     SendSolutionInv, RegisterSentInv, EndSolveInv DEF Work
<1>2. ASSUME NEW t \in Threads, Communicate(t) PROVE SolveInv'
  BY <1>2, ProgressInv, HandleRecvInv, AddInv, DecInv, StoreInv, HandleSendInv DEF Communicate
<1>3. ASSUME Transport PROVE SolveInv'
  BY <1>3, DeliverStep, SendDoneStep DEF Transport
<1>4. ASSUME NEW p \in Procs, Main(p) PROVE SolveInv'
  BY <1>4, StartInv, PhaseInv, CleanupInv, LeaveFirstInv, LeaveAfterInv, NowFacts DEF Main
<1>5. ASSUME Finished \/ UNCHANGED vars PROVE SolveInv'
  BY <1>5, StutterInv DEF Finished
<1> QED
  BY <1>1, <1>2, <1>3, <1>4, <1>5 DEF Next

(* The invariant of the two distributed solves: every block and every      *)
(* remote column block is where the counters of                            *)
(* cpucblk_zrelease_rhs_fwd_deps and cpucblk_zrelease_rhs_bwd_deps, those  *)
(* of solverRhsRecvInit and the table of requests say that it is.          *)
THEOREM SolveInvariant == Spec => []SolveInv
<1>1. Init => SolveInv
  BY SolveInitInv
<1>2. SolveInv /\ [Next]_vars => SolveInv'
  BY SolveNext
<1> QED
  BY <1>1, <1>2, PTL DEF Spec

-----------------------------------------------------------------------------
(* What it says.                                                           *)

(* A message is handled in the step it was sent in: the any-source         *)
(* reception of a process in the backward step, which has the same         *)
(* communicator and the same tags, takes no message of the forward step    *)
(* (cpucblk_zrequest_rhs_bwd_handle_recv).                                 *)
THEOREM StepsApartAlways == Spec => []StepsApart
<1>1. SolveInv => StepsApart
  <2> SUFFICES ASSUME SolveInv, NEW t \in Threads, NEW d \in held[t].data PROVE d[1] = step[ProcOf(t)]
    BY DEF StepsApart
  <2> USE DEF SolveInv
  <2>1. held[t] # NoMsg
    BY DEF NoMsg
  <2>2. Holding(t)
    BY <2>1 DEF MessageInv
  <2>3. pc[t] \in Working \cup Looping
    BY <2>2 DEF Holding, Looping
  <2>4. step[ProcOf(t)] = Now
    BY <2>3 DEF ThreadInv, Placed
  <2>5. PICK x \in FanIns : held[t] = Msg(x)
    BY <2>1 DEF MessageInv
  <2>6. d \in Data(x)
    BY <2>5, RemoteFacts
  <2>7. d[1] = Now
    BY <2>6, NowFacts DEF Data
  <2> QED
    BY <2>4, <2>7
<1> QED
  BY <1>1, SolveInvariant, PTL

(* A process at the barrier of the forward step, when others are in the    *)
(* backward step.                                                          *)
LEMMA BehindOthers ==
    ASSUME SolveInv, NEW p \in Procs, phase[p] = "barrier", NotYet(p)
    PROVE  /\ Now = "backward" /\ step[p] = "forward"
           /\ recvreq[p] = "freed" /\ incoming[p] = 0
           /\ \A c \in Cblks : solved["forward"][c] = 1
           /\ \A t \in Threads : ProcOf(t) = p => queue[t] = {}
           /\ \A x \in FanIns : x[1] = p => faninb[x] = <<>>
<1> USE DEF SolveInv
<1>1. Now = "backward" /\ step[p] = "forward"
  <2>1. step[p] # Now /\ step[p] \in Steps
    BY DEF NotYet, ThreadInv, SolveTypes
  <2>2. step[p] = "backward" => Now = "backward"
    BY DEF Now, Backward
  <2> QED
    BY <2>1, <2>2, NowFacts DEF Steps
<1>2. incoming[p] = 0
  BY DEF IncomingInv
<1>3. recvreq[p] = "freed"
  BY <1>2 DEF EngineInv, Reception
<1>4. \A c \in Cblks : solved["forward"][c] = 1
  BY <1>1 DEF ThreadInv, StepsInv
<1>5. \A t \in Threads : ProcOf(t) = p => queue[t] = {}
  BY DEF QueueInv
<1>6. ASSUME NEW x \in FanIns, x[1] = p PROVE faninb[x] = <<>>
  <2> SUFFICES ASSUME faninb[x] # <<>> PROVE FALSE
    OBVIOUS
  <2>1. Queued(x) \/ \E t \in Threads : pc[t] \in Working /\ cur[t] = x
    BY <1>1 DEF FanInInv
  <2>2. CASE Queued(x)
    BY <1>6, <2>2 DEF Queued, QueueInv
  <2>3. CASE \E t \in Threads : pc[t] \in Working /\ cur[t] = x
    <3>1. PICK t \in Threads : pc[t] \in Working /\ cur[t] = x
      BY <2>3
    <3>2. Placed(t) /\ AtTask(t)
      BY DEF ThreadInv
    <3>3. ProcOf(t) = p /\ phase[ProcOf(t)] = "tasks"
      BY <1>6, <3>1, <3>2 DEF Placed, AtTask
    <3> QED
      BY <3>3
  <2> QED
    BY <2>1, <2>2, <2>3
<1> QED
  BY <1>1, <1>2, <1>3, <1>4, <1>5, <1>6

(* At the barrier that ends a step a process has solved its column blocks  *)
(* and received all that was sent to it, its emissions are completed, its  *)
(* queues are empty and its buffers are freed: the assertions at the end   *)
(* of sopalin_ztrsm and of solverRhsRecvExit.                              *)
THEOREM CleanExitAlways == Spec => []StepCleanExit
<1>1. SolveInv => StepCleanExit
  <2> SUFFICES ASSUME SolveInv, NEW p \in Procs, phase[p] = "barrier"
               PROVE  /\ \A c \in Cblks : Own[c] = p => solved[step[p]][c] = 1
                      /\ recvreq[p] = "freed" /\ incoming[p] = 0
                      /\ \A q \in Procs : \A m \in Range(net[<<q, p>>]) : \A d \in m.data : d[1] # step[p]
                      /\ \A t \in ThreadsOf(p) : queue[t] = {}
                      /\ \A x \in FanInsOf(p) : faninb[x] = <<>> /\ (Forward(Own[x[2]]) => x \notin sending)
                      /\ \A x \in RecvsOf(p)  : recvb[x] = <<>> /\ (Backward(p) => x \notin sending)
    BY DEF StepCleanExit
  <2> USE DEF SolveInv
  <2>1. step[p] = Now \/ NotYet(p)
    BY DEF NotYet
  <2>2. ~ NotYet(p) => step[p] = Now
    BY <2>1
  <2>3. \A c \in Cblks : Own[c] = p => solved[step[p]][c] = 1
    BY <2>2, BehindOthers, AtBarrier
  <2>4. recvreq[p] = "freed" /\ incoming[p] = 0
    BY BehindOthers, AtBarrier
  <2>5. ASSUME NEW t \in ThreadsOf(p) PROVE queue[t] = {}
    BY ThreadFacts, BehindOthers, AtBarrier
  <2>6. ASSUME NEW q \in Procs, NEW m \in Range(net[<<q, p>>]), NEW d \in m.data PROVE d[1] # step[p]
    <3>1. PICK i \in 1 .. Len(net[<<q, p>>]) : net[<<q, p>>][i] = m
      <4> DEFINE s == net[<<q, p>>]
      <4>1. s \in Seq({Msg(x) : x \in FanIns})
        BY DEF MessageInv
      <4>2. DOMAIN s = 1 .. Len(s)
        BY <4>1
      <4> QED
        BY <4>2 DEF Range
    <3>2. PICK x \in FanIns : Sender(x) = q /\ Receiver(x) = p /\ m = Msg(x)
      BY <3>1 DEF MessageInv
    <3>3. d[1] = Now
      <4>1. d \in Data(x)
        BY <3>2, RemoteFacts
      <4> QED
        BY <4>1, NowFacts DEF Data
    <3>4. InNet(x)
      BY <3>1, <3>2 DEF InNet, Channel
    <3>5. NotYet(p)
      BY <3>2, <3>4, AtBarrier DEF Coming
    <3>6. step[p] # Now
      BY <3>5, BehindOthers
    <3> QED
      BY <3>3, <3>6
  <2>7. ASSUME NEW x \in FanInsOf(p) PROVE faninb[x] = <<>> /\ (Forward(Own[x[2]]) => x \notin sending)
    <3>1. x \in FanIns /\ x[1] = p /\ Own[x[2]] \in Procs
      BY FanInFacts DEF FanInsOf
    <3>2. faninb[x] = <<>>
      BY <3>1, BehindOthers, NothingLeft
    <3>3. ASSUME Now = "forward" PROVE x \notin sending
      <4>1. Sender(x) = p /\ ~ NotYet(p)
        BY <3>1, <3>3, RemoteFacts, BehindOthers
      <4> QED
        BY <3>1, <4>1, NothingLeft
    <3>4. ASSUME Now = "backward", Forward(Own[x[2]]) PROVE x \notin sending
      <4> DEFINE o == Own[x[2]]
      <4>1. Sender(x) = o /\ NotYet(o) /\ step[o] # Now
        BY <3>1, <3>4, RemoteFacts DEF NotYet, Forward
      <4>2. phase[o] # "tasks" /\ reqtab[o] = <<>>
        BY <3>1, <4>1 DEF ThreadInv, StepsInv, SendInv
      <4> QED
        BY <3>1, <4>1, <4>2, NothingPending
    <3> QED
      BY <3>2, <3>3, <3>4, NowFacts
  <2>8. ASSUME NEW x \in RecvsOf(p) PROVE recvb[x] = <<>> /\ (Backward(p) => x \notin sending)
    <3>1. x \in FanIns /\ Own[x[2]] = p
      BY RecvFacts
    <3>2. CASE Now = "forward"
      <4>1. ~ Backward(p)
        BY <3>2 DEF Now
      <4>2. recvb[x] = <<>>
        BY <3>1, <3>2 DEF SendInv
      <4> QED
        BY <4>1, <4>2
    <3>3. CASE Now = "backward"
      <4>1. Sender(x) = p /\ reqtab[p] = <<>> /\ phase[p] # "tasks"
        BY <3>1, <3>3, RemoteFacts DEF SendInv
      <4>2. ~ Pending(x) /\ x \notin sending
        BY <3>1, <4>1, NothingPending
      <4> QED
        BY <3>1, <4>2 DEF SendInv
    <3> QED
      BY <3>2, <3>3, NowFacts
  <2> QED
    BY <2>3, <2>4, <2>5, <2>6, <2>7, <2>8
<1> QED
  BY <1>1, SolveInvariant, PTL

-----------------------------------------------------------------------------
(* The two steps implement TriangularSolve.                                *)

(* Contributions that were due have been applied.                          *)
LEMMA Applied ==
    ASSUME SolveInv, SolveTypes', UNCHANGED solved, NEW S \in SUBSET Edges,
           got' = [got EXCEPT ![Now] = [e \in Edges |-> IF e \in S THEN 1 ELSE got[Now][e]]],
           \A e \in S : TS!Due(Now, e)
    PROVE  TS!TSNext
<1> USE DEF SolveInv
<1>1. Now \in Steps /\ TS!Steps = Steps
  BY NowFacts DEF TS!Steps, Steps
<1>2. got' \in [TS!Steps -> [Edges -> {0, 1}]]
  BY <1>1 DEF SolveTypes
<1>3. got \in [Steps -> [Edges -> {0, 1}]]
  BY DEF ThreadInv, SolveTypes
<1>4. \A e \in Edges : got'[Now][e] = IF e \in S THEN 1 ELSE got[Now][e]
  BY <1>1, <1>3
<1>5. \A e \in Edges : got'[Now][e] = got[Now][e] \/ (TS!Due(Now, e) /\ got'[Now][e] = 1)
  BY <1>4
<1>6. \A r \in TS!Steps \ {Now} : got'[r] = got[r]
  BY <1>1, <1>3
<1>7. TS!Apply(Now)
  BY <1>2, <1>5, <1>6 DEF TS!Apply
<1> QED
  BY <1>1, <1>7 DEF TS!TSNext

(* A column block is solved after every contribution to it.                *)
LEMMA SolveImplements ==
    ASSUME SolveInv, NEW t \in Threads, Solve(t)
    PROVE  TS!TSNext \/ UNCHANGED <<solved, got>>
<1> USE DEF SolveInv
<1>1. PICK x \in Local :
        /\ TakeTask(t, x, Tasks(t))
        /\ solved' = IF x \in FanIns THEN solved ELSE [solved EXCEPT ![step[x[1]]][x[2]] = @ + 1]
  BY DEF Solve
<1>2. UNCHANGED got
  BY DEF Solve
<1>3. CASE x \in FanIns
  BY <1>1, <1>2, <1>3
<1>4. CASE x \notin FanIns
  <2> DEFINE c == x[2]
  <2>1. /\ x[1] = ProcOf(t) /\ step[ProcOf(t)] = Now /\ ~ NotYet(ProcOf(t))
        /\ x = <<Own[c], c>> /\ solved[Now][c] = 0 /\ ctrbcnt[x] = 0
    BY <1>1, <1>4, TakenTask
  <2>2. c \in Cblks /\ Now \in Steps /\ TS!Steps = Steps
    BY EdgeFacts, NowFacts DEF TS!Steps, Steps
  <2>3. solved' = [solved EXCEPT ![Now][c] = 1]
    <3>1. solved' = [solved EXCEPT ![Now][c] = @ + 1]
      BY <1>1, <1>4, <2>1
    <3>2. solved' = [solved EXCEPT ![Now] = [solved[Now] EXCEPT ![c] = solved[Now][c] + 1]]
      BY <3>1
    <3> QED
      BY <2>1, <3>2
  <2>4. (\A e \in LeftEdges : Home(e) # x) /\ Awaited(x) = {}
    <3> DEFINE L == {e \in LeftEdges : Home(e) = x}
    <3>1. Cardinality(L) + Cardinality(Awaited(x)) = 0
      BY <2>1 DEF CounterInv, Counter
    <3>2. IsFiniteSet(L) /\ Cardinality(L) \in Nat
      <4>1. L \subseteq Edges
        BY EdgesNested
      <4> QED
        BY <4>1, EdgesFinite
    <3>3. IsFiniteSet(Awaited(x)) /\ Cardinality(Awaited(x)) \in Nat
      <4>1. Awaited(x) \subseteq FanIns
        BY RecvFacts DEF Awaited
      <4> QED
        BY <4>1, FanInsFinite
    <3> HIDE DEF L
    <3>4. Cardinality(L) = 0 /\ Cardinality(Awaited(x)) = 0
      BY <3>1, <3>2, <3>3
    <3>5. L = {} /\ Awaited(x) = {}
      BY <3>2, <3>3, <3>4, FS_EmptySet
    <3> QED
      BY <3>5 DEF L
  <2>5. ASSUME NEW e \in Edges, TS!To(Now, e) = c PROVE got[Now][e] = 1
    <3>1. Home(e) = <<Own[Src[e]], c>> /\ (Home(e) = x => e \notin FreshEdges)
      BY <2>4, <2>5, NowFacts, EdgesNested DEF TS!To, Home
    <3>2. CASE Home(e) = x
      BY <1>4, <3>1, <3>2 DEF GotInv
    <3>3. CASE Home(e) # x
      <4> DEFINE y == Home(e)
      <4>1. Now = "forward" /\ Own[Src[e]] # Own[c] /\ Dst[e] = c
        BY <2>1, <2>5, <3>1, <3>3, NowFacts DEF TS!To
      <4>2. y \in FanIns
        BY <4>1, EdgeFacts
      <4>3. y \in RecvsTo(c)
        BY <3>1, <4>2, RecvFacts
      <4>4. ~ Coming(y) /\ ~ Taking(y)
        BY <1>4, <2>4, <4>1, <4>3 DEF Awaited
      <4>5. ~ TakenAt(y, "add")
        BY <4>4 DEF Taking, TakenAt
      <4> QED
        BY <4>2, <4>4, <4>5 DEF GotInv
    <3> QED
      BY <3>2, <3>3
  <2>6. Now = "backward" => solved["forward"][c] = 1
    BY <2>2 DEF ThreadInv, StepsInv
  <2>7. TS!Solve(Now, c)
    BY <1>2, <2>1, <2>3, <2>5, <2>6 DEF TS!Solve
  <2> QED
    BY <2>2, <2>7 DEF TS!TSNext
<1> QED
  BY <1>3, <1>4

(* A block is applied with a solution that is ready.                       *)
LEMMA UpdateImplements ==
    ASSUME SolveInv, SolveInv', NEW t \in Threads, Update(t)
    PROVE  TS!TSNext \/ UNCHANGED <<solved, got>>
<1> USE DEF SolveInv
<1> DEFINE e == NextEdge(t)
<1>1. UNCHANGED solved /\ pc[t] \in {"update", "gemm"} /\ todo[t] # {} /\ tosend[t] = {}
  BY DEF Update
<1>2. CASE Target(t) \in FanIns
  BY <1>1, <1>2 DEF Update
<1>3. CASE Target(t) \notin FanIns
  <2>1. /\ e \in Edges /\ pc[t] \in Working /\ TaskOf(e) = cur[t] /\ Target(t) = Home(e)
        /\ step[ProcOf(t)] = Now /\ e \in FreshEdges
    BY <1>1, AtEdge
  <2>2. Solution(t) = {<<Now, cur[t][2]>>}
    BY <2>1, SolutionFacts
  <2>3. got' = [got EXCEPT ![Now][e] = @ + 1]
    <3>1. got' = IF <<step[ProcOf(t)], cur[t][2]>> \in Solution(t)
                 THEN [got EXCEPT ![step[ProcOf(t)]][e] = @ + 1] ELSE got
      BY <1>3 DEF Update
    <3> QED
      BY <2>1, <2>2, <3>1
  <2>4. got[Now][e] = 0
    BY <1>3, <2>1 DEF GotInv
  <2>5. got' = [got EXCEPT ![Now] = [f \in Edges |-> IF f \in {e} THEN 1 ELSE got[Now][f]]]
    <3>1. got' = [got EXCEPT ![Now] = [got[Now] EXCEPT ![e] = got[Now][e] + 1]]
      BY <2>3
    <3>2. got[Now] \in [Edges -> {0, 1}]
      BY NowFacts DEF ThreadInv, SolveTypes
    <3>3. [got[Now] EXCEPT ![e] = 1] = [f \in Edges |-> IF f \in {e} THEN 1 ELSE got[Now][f]]
      BY <2>1, <3>2
    <3>4. got[Now][e] + 1 = 1
      BY <2>4
    <3> HIDE DEF e
    <3>5. got' = [got EXCEPT ![Now] = [got[Now] EXCEPT ![e] = 1]]
      BY <3>1, <3>4
    <3> QED
      BY <3>3, <3>5
  <2>6. solved[Now] \in [Cblks -> {0, 1}]
    BY NowFacts DEF ThreadInv, SolveTypes
  <2>7. solved[Now][TS!From(Now, e)] = 1
    <3>1. TS!From(Now, e) = cur[t][2]
      BY <2>1, NowFacts DEF TS!From, TaskOf
    <3>2. CASE cur[t] \notin FanIns
      BY <2>1, <3>1, <3>2, SolutionFacts
    <3>3. CASE cur[t] \in FanIns
      <4>1. Now = "backward" /\ ~ UnsentSolution(cur[t]) /\ cur[t] \in Local
        BY <2>1, <3>3, SolutionFacts
      <4>2. solved[Now][cur[t][2]] # 0 /\ cur[t][2] \in Cblks
        BY <4>1, EdgeFacts DEF UnsentSolution
      <4> QED
        BY <2>6, <3>1, <4>2
    <3> QED
      BY <3>2, <3>3
  <2>8. Now = "backward" => solved["forward"][TS!To(Now, e)] = 1
    BY <2>1, EdgeFacts DEF TS!To, ThreadInv, StepsInv
  <2>9. TS!Due(Now, e)
    BY <2>4, <2>7, <2>8 DEF TS!Due
  <2>10. SolveTypes' /\ {e} \in SUBSET Edges /\ \A f \in {e} : TS!Due(Now, f)
    BY <2>1, <2>9 DEF ThreadInv
  <2> QED
    BY <1>1, <2>5, <2>10, Applied
<1> QED
  BY <1>2, <1>3

(* A message brings contributions of column blocks that are solved.        *)
LEMMA AddImplements ==
    ASSUME SolveInv, SolveInv', NEW t \in Threads, Add(t)
    PROVE  TS!TSNext
<1> USE DEF SolveInv
<1>1. UNCHANGED solved /\ pc[t] = "add"
  BY DEF Add
<1>2. Now = "forward"
  BY <1>1 DEF ThreadInv, Placed
<1>3. held[t] # NoMsg
  BY <1>1 DEF MessageInv, Holding
<1>4. PICK x \in FanIns : held[t] = Msg(x) /\ ~ Coming(x) /\ ~ Unsent(x) /\ \A l : pc[t] = l => TakenAt(x, l)
  BY <1>3, HeldMessage
<1>5. TakenAt(x, "add") /\ x \in Local /\ Contribs(x) \subseteq Edges
  BY <1>1, <1>4, EdgeFacts, FanInsLocal
<1>6. \A e \in Edges : e \in Contribs(x) <=> <<"forward", e>> \in held[t].data
  <2>1. held[t].data = {<<"forward", e>> : e \in Contribs(x)}
    BY <1>2, <1>4, RemoteFacts DEF Data
  <2> QED
    BY <2>1
<1>7. \A e \in Contribs(x) : Home(e) = x /\ got["forward"][e] = 0
  <2>1. \A e \in Contribs(x) : Home(e) = x
    BY <1>2, <1>5, EdgeFacts
  <2> QED
    BY <1>2, <1>5, <2>1 DEF GotInv
<1>8. got' = [got EXCEPT ![Now] = [e \in Edges |-> IF e \in Contribs(x) THEN 1 ELSE got[Now][e]]]
  <2> DEFINE g == [e \in Edges |-> got["forward"][e] + IF <<"forward", e>> \in held[t].data THEN 1 ELSE 0]
             h == [e \in Edges |-> IF e \in Contribs(x) THEN 1 ELSE got["forward"][e]]
  <2>1. got' = [got EXCEPT !["forward"] = g]
    BY DEF Add
  <2>2. got["forward"] \in [Edges -> {0, 1}]
    BY DEF ThreadInv, SolveTypes, Steps
  <2>3. \A e \in Edges : got["forward"][e] + (IF <<"forward", e>> \in held[t].data THEN 1 ELSE 0)
                            = IF e \in Contribs(x) THEN 1 ELSE got["forward"][e]
    <3> SUFFICES ASSUME NEW e \in Edges
                 PROVE  got["forward"][e] + (IF <<"forward", e>> \in held[t].data THEN 1 ELSE 0)
                            = IF e \in Contribs(x) THEN 1 ELSE got["forward"][e]
      OBVIOUS
    <3>1. got["forward"][e] \in {0, 1}
      BY <2>2
    <3>2. CASE e \in Contribs(x)
      <4>1. <<"forward", e>> \in held[t].data /\ got["forward"][e] = 0
        BY <1>6, <1>7, <3>2
      <4> QED
        BY <3>2, <4>1
    <3>3. CASE e \notin Contribs(x)
      <4>1. <<"forward", e>> \notin held[t].data
        BY <1>6, <3>3
      <4> QED
        BY <3>1, <3>3, <4>1
    <3> QED
      BY <3>2, <3>3
  <2>4. g = h
    BY <2>3
  <2> QED
    BY <1>2, <2>1, <2>4
<1>9. ASSUME NEW e \in Contribs(x) PROVE TS!Due(Now, e)
  <2>1. e \in Edges /\ e \notin UnsentEdges
    BY <1>2, <1>4, <1>5, <1>9 DEF Unsent
  <2>2. TaskOf(e) \notin NewTasks
    BY <2>1 DEF UnsentEdges, EdgesBefore
  <2>3. TaskOf(e) = <<Own[Src[e]], Src[e]>> /\ TaskOf(e) \in Local /\ TaskOf(e) \notin FanIns
    BY <1>2, <2>1, EdgeFacts DEF TaskOf
  <2>4. solved["forward"][Src[e]] # 0
    BY <1>2, <2>2, <2>3 DEF NewTasks, Ahead
  <2>5. solved["forward"][Src[e]] = 1
    <3>1. solved["forward"] \in [Cblks -> {0, 1}] /\ Src[e] \in Cblks
      BY <2>1, EdgeFacts DEF ThreadInv, SolveTypes, Steps
    <3> QED
      BY <2>4, <3>1
  <2> QED
    BY <1>2, <1>7, <1>9, <2>5 DEF TS!Due, TS!From
<1>10. SolveTypes' /\ Contribs(x) \in SUBSET Edges
  BY <1>5 DEF ThreadInv
<1> QED
  BY <1>1, <1>8, <1>9, <1>10, Applied

(* Every other step leaves what was solved and applied as it is.           *)
LEMMA NextImplements ==
    ASSUME SolveInv, SolveInv', [Next]_vars
    PROVE  TS!TSNext \/ UNCHANGED <<solved, got>>
<1>1. ASSUME NEW t \in Threads, Work(t) PROVE TS!TSNext \/ UNCHANGED <<solved, got>>
  <2>1. CASE Solve(t)
    BY <2>1, SolveImplements
  <2>2. CASE Update(t)
    BY <2>2, UpdateImplements
  <2>3. CASE Idle(t, Tasks(t)) /\ UNCHANGED solveVars
    BY <2>3 DEF solveVars
  <2> QED
    BY <1>1, <2>1, <2>2, <2>3
    DEF Work, solveVars, FindNoBuffer, Alloc, Release, SendFanin, SendSolution, RegisterSent, EndSolve
<1>2. ASSUME NEW t \in Threads, Communicate(t) PROVE TS!TSNext \/ UNCHANGED <<solved, got>>
  <2>1. CASE Add(t)
    BY <2>1, AddImplements
  <2> QED
    BY <1>2, <2>1 DEF Communicate, solveVars, HandleRecv, Dec, Store, HandleSend, FreeSent
<1>3. ASSUME Transport PROVE UNCHANGED <<solved, got>>
  BY <1>3 DEF Transport, solveVars
<1>4. ASSUME NEW p \in Procs, Main(p) PROVE UNCHANGED <<solved, got>>
  BY <1>4 DEF Main, Start, EndTasks, Cleanup, FreeSent, Exit, LeaveBarrier
<1>5. ASSUME Finished \/ UNCHANGED vars PROVE UNCHANGED <<solved, got>>
  BY <1>5 DEF Finished, vars, solveVars
<1> QED
  BY <1>1, <1>2, <1>3, <1>4, <1>5 DEF Next

(* The two distributed solves implement TriangularSolve: a column block is *)
(* solved once in each step, after every contribution to it, its own and   *)
(* those that the messages bring, and backward after its forward solve.    *)
THEOREM ImplementsTriangularSolveAlways == Spec => ImplementsTriangularSolve
<1>1. Init => TS!TSInit
  BY DEF Init, TS!TSInit, TS!Steps, Steps
<1>2. SolveInv /\ SolveInv' /\ [Next]_vars => [TS!TSNext]_(TS!solveVars)
  BY NextImplements DEF TS!solveVars
<1> QED
  BY <1>1, <1>2, SolveInvariant, PTL DEF Spec, ImplementsTriangularSolve, TS!TSSpec

-----------------------------------------------------------------------------
(* The buffers of the emissions.                                           *)

(* What MPI is sending is complete: backward its column block is solved    *)
(* and none of its blocks is left.                                         *)
LEMMA SendingFacts ==
    ASSUME SolveInv, NEW x \in sending
    PROVE  /\ x \in FanIns /\ ~ Unsent(x) /\ Own[x[2]] \in Procs
           /\ Forward(Own[x[2]]) <=> Now = "forward"
           /\ Now = "backward" => /\ solved["backward"][x[2]] = 1
                                  /\ \A e \in OutOf(x[2]) : e \in Edges /\ got["backward"][e] = 1
<1> USE DEF SolveInv
<1> DEFINE o == Own[x[2]]
<1>1. x \in FanIns /\ o \in Procs /\ x[2] \in Cblks
  BY FanInFacts DEF EngineInv, EngineTypes
<1>2. ~ Unsent(x)
  BY <1>1 DEF EngineInv, SentTracked, SendInv
<1>3. CASE Now = "forward"
  <2>1. ~ Backward(o) /\ step[o] \in Steps
    BY <1>1, <1>3 DEF Now, ThreadInv, SolveTypes
  <2> QED
    BY <1>1, <1>2, <1>3, <2>1 DEF Forward, Backward, Steps
<1>4. CASE Now = "backward"
  <2>1. ~ Forward(o)
    <3> SUFFICES ASSUME Forward(o) PROVE FALSE
      OBVIOUS
    <3>1. step[o] # Now /\ NotYet(o) /\ Sender(x) = o
      BY <1>1, <1>4, RemoteFacts DEF Forward, NotYet
    <3>2. phase[o] # "tasks" /\ reqtab[o] = <<>>
      BY <1>1, <3>1 DEF ThreadInv, StepsInv, SendInv
    <3> QED
      BY <1>1, <3>1, <3>2, NothingPending
  <2>2. solved["backward"][x[2]] = 1
    <3>1. solved["backward"][x[2]] # 0
      BY <1>2, <1>4 DEF Unsent, UnsentSolution
    <3>2. solved["backward"] \in [Cblks -> {0, 1}]
      BY DEF ThreadInv, SolveTypes, Steps
    <3> QED
      BY <1>1, <3>1, <3>2
  <2>3. ASSUME NEW e \in OutOf(x[2]) PROVE e \in Edges /\ got["backward"][e] = 1
    <3>1. <<o, x[2]>> \in Local \ FanIns /\ e \in Edges
      BY <1>1, FanInsLocal DEF OutOf
    <3>2. Home(e) = <<o, x[2]>>
      BY <1>4 DEF Home, OutOf
    <3>3. e \notin LeftEdges
      BY <1>1, <1>4, <2>2, <3>2 DEF ReadyInv
    <3>4. e \notin FreshEdges
      BY <3>3, EdgesNested
    <3> QED
      BY <1>4, <3>1, <3>2, <3>4 DEF GotInv
  <2> QED
    BY <1>1, <1>2, <1>4, <2>1, <2>2, <2>3
<1> QED
  BY <1>3, <1>4, NowFacts

(* The same, as a state predicate.                                         *)
SendingDone ==
    \A x \in sending :
        /\ Forward(Own[x[2]]) <=> Now = "forward"
        /\ Now = "backward" => /\ solved["backward"][x[2]] = 1
                               /\ \A e \in OutOf(x[2]) : got["backward"][e] = 1

LEMMA SendingIsDone == SolveInv => SendingDone
BY SendingFacts DEF SendingDone

(* An emission whose buffer is freed is completed.                         *)
LEMMA HandledIsSent ==
    ASSUME EngineInv, NEW t \in Threads, Handles(t), Handled(t) # NoIdx
    PROVE  Handled(t) \notin sending
<1> DEFINE p == ProcOf(t)
           i == Index(t)
<1>1. i \in indexes[t] /\ p \in Procs /\ i \in 1 .. Len(reqtab[p]) /\ reqtab[p][i].idx = Handled(t)
  BY HandledFacts, ThreadFacts DEF Handles, Handled
<1>2. ~ reqtab[p][i].live
  BY <1>1 DEF EngineInv, SentDead
<1> SUFFICES ASSUME Handled(t) \in sending PROVE FALSE
  OBVIOUS
<1>3. CASE \E q \in Procs : \E j \in 1 .. Len(reqtab[q]) : reqtab[q][j].live /\ reqtab[q][j].idx = Handled(t)
  <2>1. PICK q \in Procs : \E j \in 1 .. Len(reqtab[q]) : reqtab[q][j].live /\ reqtab[q][j].idx = Handled(t)
    BY <1>3
  <2>2. PICK j \in 1 .. Len(reqtab[q]) : reqtab[q][j].live /\ reqtab[q][j].idx = Handled(t)
    BY <2>1
  <2>3. q = p /\ j = i
    BY <1>1, <2>2, OnceInTables DEF EngineInv
  <2> QED
    BY <1>2, <2>2, <2>3
<1>4. CASE \E u \in Threads : posted[u] = Handled(t)
  BY <1>1, <1>4 DEF EngineInv, PostedOnce
<1> QED
  BY <1>3, <1>4 DEF EngineInv, SentTracked

(* A thread that writes a fan-in has not sent it.                          *)
LEMMA WrittenIsUnsent ==
    ASSUME SolveInv, NEW t \in Threads, pc[t] \in {"update", "alloc", "gemm"}, todo[t] # {}, tosend[t] = {},
           Target(t) \in FanIns
    PROVE  Target(t) \notin sending
<1>1. /\ NextEdge(t) \in UnsentEdges /\ Now = "forward" /\ NextEdge(t) \in Contribs(Target(t))
  BY AtEdge
<1>2. Unsent(Target(t))
  BY <1>1 DEF Unsent
<1> QED
  BY <1>2, SendingFacts

LEMMA BufferKept ==
    ASSUME SolveInv, [Next]_vars, NEW x \in sending
    PROVE  /\ Now = "forward" => faninb'[x] = faninb[x]
           /\ Now = "backward" => recvb'[x] = recvb[x]
<1> USE DEF SolveInv
<1> DEFINE Kept == (Now = "forward" => faninb'[x] = faninb[x]) /\ (Now = "backward" => recvb'[x] = recvb[x])
<1>1. x \in FanIns /\ ~ Unsent(x) /\ Now # "backward" <=> x \in FanIns /\ ~ Unsent(x) /\ Now = "forward"
  BY NowFacts
<1>2. faninb = [y \in FanIns |-> faninb[y]] /\ recvb = [y \in FanIns |-> recvb[y]] /\ x \in FanIns /\ ~ Unsent(x)
  BY SendingFacts DEF ThreadInv, SolveTypes
<1>3. ASSUME NEW t \in Threads, Work(t) PROVE Kept
  <2>1. CASE Alloc(t)
    <3>1. pc[t] = "alloc" /\ todo[t] # {} /\ tosend[t] = {} /\ Target(t) \in FanIns /\ UNCHANGED recvb
      BY <2>1 DEF Alloc, ThreadInv, AtTask
    <3>2. x # Target(t)
      BY <3>1, WrittenIsUnsent
    <3>3. faninb'[x] = faninb[x]
      BY <1>2, <2>1, <3>2 DEF Alloc
    <3> QED
      BY <3>1, <3>3
  <2>2. CASE Update(t)
    <3>1. pc[t] \in {"update", "gemm"} /\ todo[t] # {} /\ tosend[t] = {} /\ UNCHANGED recvb
      BY <2>2 DEF Update
    <3>2. CASE Target(t) \in FanIns
      <4>1. x # Target(t)
        BY <3>1, <3>2, WrittenIsUnsent
      <4>2. faninb'[x] = faninb[x]
        BY <1>2, <2>2, <3>2, <4>1 DEF Update
      <4> QED
        BY <3>1, <4>2
    <3>3. CASE Target(t) \notin FanIns
      <4>1. UNCHANGED faninb
        BY <2>2, <3>3 DEF Update
      <4> QED
        BY <3>1, <4>1
    <3> QED
      BY <3>2, <3>3
  <2>3. CASE SendSolution(t)
    <3>1. pc[t] = "update" /\ UNCHANGED faninb
      BY <2>3 DEF SendSolution
    <3>2. PICK y \in tosend[t] : recvb' = IF CopySent THEN [recvb EXCEPT ![y] = <<Solution(t)>>] ELSE recvb
      BY <2>3 DEF SendSolution
    <3>3. posted[t] = NoIdx /\ y \in FanIns /\ Now = "backward"
      BY <3>1, SendingTask DEF ThreadInv, AtTask
    <3>4. Unsent(y)
      BY <3>3, FanInFacts, NowFacts DEF Unsent, UnsentSolution
    <3>5. recvb'[x] = recvb[x]
      BY <1>2, <3>2, <3>4
    <3> QED
      BY <3>1, <3>5
  <2>4. CASE EndSolve(t)
    <3>1. pc[t] = "update" /\ UNCHANGED recvb
      BY <2>4 DEF EndSolve
    <3>2. cur[t] \in FanIns => Now = "backward"
      BY <3>1 DEF ThreadInv, AtTask, Working
    <3>3. Now = "forward" => UNCHANGED faninb
      BY <2>4, <3>2 DEF EndSolve
    <3> QED
      BY <3>1, <3>3
  <2>5. CASE Idle(t, Tasks(t)) /\ UNCHANGED solveVars
    BY <2>5 DEF solveVars
  <2> QED
    BY <1>3, <2>1, <2>2, <2>3, <2>4, <2>5
    DEF Work, solveVars, Solve, FindNoBuffer, Release, SendFanin, RegisterSent
<1>4. ASSUME NEW t \in Threads, Communicate(t) PROVE Kept
  <2>1. CASE Store(t)
    <3>1. pc[t] = "store" /\ UNCHANGED recvb
      BY <2>1 DEF Store
    <3>2. Now = "backward"
      BY <3>1 DEF ThreadInv, Placed
    <3> QED
      BY <3>1, <3>2
  <2>2. CASE HandleSend(t)
    <3>1. Handled(t) # x
      BY <2>2, HandledIsSent DEF HandleSend, TakeSent
    <3>2. faninb'[x] = faninb[x] /\ recvb'[x] = recvb[x]
      BY <1>2, <2>2, <3>1 DEF HandleSend, FreeSent
    <3> QED
      BY <3>2
  <2> QED
    BY <1>4, <2>1, <2>2 DEF Communicate, solveVars, HandleRecv, Add, Dec
<1>5. ASSUME Transport PROVE Kept
  BY <1>5 DEF Transport, solveVars
<1>6. ASSUME NEW p \in Procs, Main(p) PROVE Kept
  <2>1. CASE Cleanup(p)
    <3>1. Head(reqtab[p]).idx # x
      BY <2>1 DEF Cleanup, WaitSent
    <3>2. faninb'[x] = faninb[x] /\ recvb'[x] = recvb[x]
      BY <1>2, <2>1, <3>1 DEF Cleanup, FreeSent
    <3> QED
      BY <3>2
  <2> QED
    BY <1>6, <2>1 DEF Main, Start, EndTasks, Exit, LeaveBarrier
<1>7. ASSUME Finished \/ UNCHANGED vars PROVE Kept
  BY <1>7 DEF Finished, vars, solveVars
<1> QED
  BY <1>3, <1>4, <1>5, <1>6, <1>7 DEF Next

(* MPI sends nothing across the barrier.                                   *)
LEMMA SendingNow ==
    ASSUME SolveInv, [Next]_vars, sending # {}
    PROVE  Now' = Now
<1> USE DEF SolveInv
<1>1. CASE UNCHANGED step
  BY <1>1, NowSame
<1>2. ASSUME NEW p \in Procs, LeaveBarrier(p) PROVE Now' = Now
  <2>1. PICK x : x \in sending
    OBVIOUS
  <2>2. x \in FanIns /\ Sender(x) \in Procs
    BY <2>1, SendingFacts, RemoteFacts
  <2>3. Now = "backward"
    <3> SUFFICES ASSUME Now = "forward" PROVE FALSE
      BY NowFacts
    <3>1. \A q \in Procs : ~ Backward(q) /\ step[q] = "forward"
      BY DEF Now, Backward, ThreadInv, SolveTypes, Steps
    <3>2. phase[Sender(x)] = "barrier" /\ ~ NotYet(Sender(x))
      BY <1>2, <2>2, <3>1 DEF LeaveBarrier, NotYet
    <3> QED
      BY <2>1, <2>2, <3>2, NothingLeft
  <2>4. \E q \in Procs : Backward(q) /\ q # p
    BY <1>2, <2>3 DEF Now, LeaveBarrier, Forward, Backward
  <2>5. \E q \in Procs : step'[q] = "backward"
    BY <1>2, <2>4 DEF LeaveBarrier, Backward, ThreadInv, SolveTypes
  <2> QED
    BY <2>3, <2>5 DEF Now, Backward
<1>3. ASSUME NEW t \in Threads, Work(t) PROVE UNCHANGED step
  BY <1>3 DEF Work, solveVars, Solve, FindNoBuffer, Alloc, Update, Release, SendFanin, SendSolution,
     RegisterSent, EndSolve
<1>4. ASSUME NEW t \in Threads, Communicate(t) PROVE UNCHANGED step
  BY <1>4 DEF Communicate, solveVars, HandleRecv, Add, Dec, Store, HandleSend, FreeSent
<1>5. ASSUME Transport PROVE UNCHANGED step
  BY <1>5 DEF Transport, solveVars
<1>6. ASSUME NEW p \in Procs, Main(p) PROVE UNCHANGED step \/ LeaveBarrier(p)
  BY <1>6 DEF Main, Start, EndTasks, Cleanup, FreeSent, Exit
<1>7. ASSUME Finished \/ UNCHANGED vars PROVE UNCHANGED step
  BY <1>7 DEF Finished, vars, solveVars
<1> QED
  BY <1>1, <1>2, <1>3, <1>4, <1>5, <1>6, <1>7 DEF Next

(* Nobody writes or frees what MPI may still read: the fan-in of           *)
(* cpucblk_zisend_rhs_fwd, the solution, or its copy, of                   *)
(* cpucblk_zisend_rhs_bwd, stay as they are until MPI has completed the    *)
(* emission.                                                               *)
THEOREM SentUnchangedAlways == Spec => SentUnchanged
<1>1. SolveInv /\ SolveInv' /\ [Next]_vars =>
        [\A x \in sending \cap sending' : SentBuffer(x)' = SentBuffer(x)]_vars
  <2> SUFFICES ASSUME SolveInv, SolveInv', [Next]_vars, NEW x \in sending, x \in sending'
               PROVE  SentBuffer(x)' = SentBuffer(x)
    OBVIOUS
  <2>1. Now' = Now
    BY SendingNow
  <2>2. /\ x \in FanIns /\ (Forward(Own[x[2]]) <=> Now = "forward")
        /\ Now = "backward" => /\ solved["backward"][x[2]] = 1
                               /\ \A e \in OutOf(x[2]) : got["backward"][e] = 1
    BY SendingFacts
  <2>3. /\ Forward(Own[x[2]])' <=> Now' = "forward"
        /\ Now' = "backward" => /\ solved'["backward"][x[2]] = 1
                                /\ \A e \in OutOf(x[2]) : got'["backward"][e] = 1
    <3>1. SendingDone'
      <4>1. SolveInv' => SendingDone'
        BY SendingIsDone, PTL
      <4> QED
        BY <4>1
    <3> QED
      BY <3>1 DEF SendingDone
  <2>4. (Now = "forward" => faninb'[x] = faninb[x]) /\ (Now = "backward" => recvb'[x] = recvb[x])
    BY BufferKept
  <2>5. CASE Now = "forward"
    BY <2>1, <2>2, <2>3, <2>4, <2>5 DEF SentBuffer
  <2>6. CASE Now = "backward"
    <3>1. ~ Forward(Own[x[2]]) /\ ~ Forward(Own[x[2]])' /\ recvb'[x] = recvb[x]
      BY <2>1, <2>2, <2>3, <2>4, <2>6
    <3>2. /\ solved'["backward"][x[2]] = solved["backward"][x[2]]
          /\ \A e \in OutOf(x[2]) : got'["backward"][e] = got["backward"][e]
      BY <2>1, <2>2, <2>3, <2>6
    <3>3. {<<e, got'["backward"][e]>> : e \in OutOf(x[2])} = {<<e, got["backward"][e]>> : e \in OutOf(x[2])}
      BY <3>2
    <3> QED
      BY <3>1, <3>2, <3>3 DEF SentBuffer
  <2> QED
    BY <2>5, <2>6, NowFacts
<1> QED
  BY <1>1, SolveInvariant, PTL DEF Spec, SentUnchanged
=============================================================================
