-------------------------- MODULE DistFactoProofs --------------------------
(***************************************************************************)
(* Proofs about DistFacto, for any number of processes, of threads and of  *)
(* column blocks: one thread of a process communicates and no request is   *)
(* lost, a column block is computed once after every contribution to it,   *)
(* and a process leaves the factorization with nothing left.               *)
(*                                                                         *)
(* The invariant follows a contribution through the loop of the thread     *)
(* that computes it (FreshEdges, LeftEdges, UnsentEdges), and a fan-in     *)
(* through the network (Coming, Taking): the counters of the code are the  *)
(* cardinalities of what has not passed yet.                               *)
(***************************************************************************)
EXTENDS DistFacto, CommEngineProofs

-----------------------------------------------------------------------------
(* The threads follow their lists.                                         *)

Working == {"update", "gemm", "release", "isend", "register"}
Looping == {"wait", "elect", "snapshot", "test", "handle", "leave", "add", "dec"}

StaticTypes ==
    /\ pc = [t \in Threads |-> pc[t]]
    /\ pos \in [Threads -> Nat]
    /\ todo \in [Threads -> SUBSET Edges]
    /\ runs \in [Cblks -> Nat]
    /\ phase \in [Procs -> {"start", "tasks", "cleanup", "exit"}]
    /\ queue \in [Threads -> SUBSET Local]
    /\ taskcnt \in [Procs -> Nat] /\ done \in [Threads -> Nat]
    /\ cur \in [Threads -> Local \cup {NoIdx}]

(* Where a thread is in its list, and in the phases of its process.        *)
Placed(t) ==
    /\ pc[t] \in Working \cup Looping \cup {"idle", "end"}
    /\ pos[t] \in 1 .. Len(Order[t]) + 1
    /\ pc[t] = "idle" <=> phase[ProcOf(t)] = "start"
    /\ pc[t] = "idle" => pos[t] = 1
    /\ pc[t] = "end" => pos[t] = Len(Order[t]) + 1
    /\ pc[t] \in Working \cup Looping => pos[t] <= Len(Order[t])
    /\ phase[ProcOf(t)] \in {"cleanup", "exit"} => pc[t] = "end"

(* What is left of its task.                                               *)
AtTask(t) ==
    /\ pc[t] \in Working => todo[t] \subseteq OutOf(Order[t][pos[t]])
    /\ pc[t] \notin Working => todo[t] = {}
    /\ pc[t] \in Working \ {"update"} => todo[t] # {}
    /\ pc[t] \in {"gemm", "isend", "register"} => Target(t) \in FanIns

(* What it has computed.                                                   *)
RunsInOrder(t) ==
    \A i \in 1 .. Len(Order[t]) :
        runs[Order[t][i]] = IF i < pos[t] \/ (i = pos[t] /\ pc[t] \in Working) THEN 1 ELSE 0

StaticInv == StaticTypes /\ \A t \in Threads : Placed(t) /\ AtTask(t) /\ RunsInOrder(t)

-----------------------------------------------------------------------------
(* The contributions, and the fan-ins they are summed up in.               *)

(* The contributions that have not passed the labels of L.                 *)
EdgesBefore(L) ==
    {e \in Edges : \/ runs[Src[e]] = 0
                   \/ \E t \in Threads : e \in todo[t] /\ (e # NextEdge(t) \/ pc[t] \in L)}

FreshEdges  == EdgesBefore({"update", "gemm"})                        \* not computed
LeftEdges   == EdgesBefore({"update", "gemm", "release"})             \* not counted
UnsentEdges == EdgesBefore({"update", "gemm", "release", "isend"})    \* nor sent

Contribs(x) == ProcEdges(x[1], x[2])
Unsent(x) == Contribs(x) \cap UnsentEdges # {}

(* What a fan-in holds.                                                    *)
Content(x) == IF fanin[x] = <<>> THEN {} ELSE fanin[x][1]

FanInInv ==
    /\ fanin \in [FanIns -> {<<>>} \cup {<<E>> : E \in SUBSET Edges}]
    /\ \A t \in Threads : pc[t] = "gemm" => fanin[Target(t)] # <<>>
    /\ \A x \in FanIns : Unsent(x) => Content(x) = Contribs(x) \ FreshEdges
    (* Only the last contribution is sent.                                 *)
    /\ \A x \in FanIns : \A e \in Contribs(x) \cap UnsentEdges : \A f \in Contribs(x) \cap UnsentEdges :
          e \notin LeftEdges => f = e

(* A fan-in is sent once, and freed once it was sent.                      *)
SendInv ==
    /\ \A t \in Threads : posted[t] = IF pc[t] = "register" THEN Target(t) ELSE NoIdx
    /\ \A p \in Procs : \A i \in 1 .. Len(reqtab[p]) : reqtab[p][i].idx \in FanInsOf(p) \cup {NoIdx}
    /\ \A x \in FanIns : Unsent(x) =>
          /\ \A p \in Procs : \A i \in 1 .. Len(reqtab[p]) : reqtab[p][i].idx # x
          /\ \A t \in Threads : posted[t] # x
    /\ \A x \in FanIns : fanin[x] # <<>> => Unsent(x) \/ Pending(x)
    /\ \A p \in Procs : IF phase[p] = "start" THEN outgoing[p] = 0
                        ELSE outgoing[p] >= Cardinality({x \in FanInsOf(p) : Unsent(x) \/ Pending(x)})
    /\ \A p \in Procs : phase[p] \in {"start", "exit"} => reqtab[p] = <<>>

-----------------------------------------------------------------------------
(* The messages.                                                           *)

Msg(x) == [from |-> x[1], tag |-> x[2], data |-> Contribs(x)]
Msgs == {Msg(x) : x \in FanIns}
Channel(x) == net[<<x[1], Own[x[2]]>>]
InNet(x) == \E i \in 1 .. Len(Channel(x)) : Channel(x)[i] = Msg(x)
InBuffer(x) == recvreq[Own[x[2]]] \in {"done", "inactive"} /\ rcoeftab[Own[x[2]]] = Msg(x)

(* A message that the owner has not taken; one that a thread holds, and    *)
(* has not added yet.                                                      *)
Coming(x) == Unsent(x) \/ InNet(x) \/ InBuffer(x)
Taking(x) == \E t \in Threads : held[t] = Msg(x)
Adding(x) == \E t \in Threads : pc[t] = "add" /\ held[t] = Msg(x)

(* A message holds the sum of all the contributions of its process.        *)
MessageInv ==
    /\ \A t \in Threads : held[t] # NoMsg <=> pc[t] \in {"add", "dec"}
    /\ \A q, p \in Procs :
          /\ net[<<q, p>>] \in Seq(Msgs)
          /\ \A i \in 1 .. Len(net[<<q, p>>]) :
                \E x \in RecvsOf(p) : x[1] = q /\ net[<<q, p>>][i] = Msg(x)
    /\ \A p \in Procs : recvreq[p] \in {"done", "inactive"} => \E x \in RecvsOf(p) : rcoeftab[p] = Msg(x)
    /\ \A t \in Threads : held[t] # NoMsg => \E x \in RecvsOf(ProcOf(t)) : held[t] = Msg(x)

(* It is in one place at a time.                                           *)
OnePlaceInv ==
    \A x \in FanIns :
        /\ Unsent(x) => ~ InNet(x) /\ ~ InBuffer(x) /\ ~ Taking(x)
        /\ InNet(x) => ~ InBuffer(x) /\ ~ Taking(x)
        /\ InBuffer(x) => ~ Taking(x)
        /\ \A i, j \in 1 .. Len(Channel(x)) : Channel(x)[i] = Msg(x) /\ Channel(x)[j] = Msg(x) => i = j

-----------------------------------------------------------------------------
(* The counters.                                                           *)

IncomingInv ==
    \A p \in Procs :
        IF phase[p] = "start" THEN incoming[p] = 0 /\ \A x \in RecvsOf(p) : Coming(x)
        ELSE incoming[p] = Cardinality({x \in RecvsOf(p) : Coming(x)})

Counter(x) ==
    Cardinality(Contribs(x) \cap LeftEdges) +
    IF x \in FanIns THEN 0 ELSE Cardinality({y \in RecvsTo(x[2]) : Coming(y) \/ Taking(y)})

CounterInv ==
    /\ ctrbcnt \in [Local -> Nat]
    /\ \A x \in Local : ctrbcnt[x] = IF phase[x[1]] = "start" THEN 0 ELSE Counter(x)

(* A contribution is added once: by its process, or with the message.      *)
GotInv ==
    /\ got \in [Edges -> Nat]
    /\ \A e \in Edges : Own[Src[e]] = Own[Dst[e]] => got[e] = IF e \in FreshEdges THEN 0 ELSE 1
    /\ \A x \in FanIns : \A e \in Contribs(x) :
          got[e] = IF Coming(x) \/ Adding(x) THEN 0 ELSE 1

(* A column block is computed when nothing is left for it.                 *)
ReadyInv ==
    \A c \in Cblks : runs[c] > 0 =>
        /\ Contribs(<<Own[c], c>>) \cap LeftEdges = {}
        /\ \A y \in RecvsTo(c) : ~ Coming(y) /\ ~ Taking(y)

FactoInv ==
    /\ StaticInv /\ EngineInv /\ FanInInv /\ SendInv /\ MessageInv /\ OnePlaceInv
    /\ IncomingInv /\ CounterInv /\ GotInv /\ ReadyInv

-----------------------------------------------------------------------------
(* The structure.                                                          *)

(* The column block, or the fan-in, that a contribution goes to.           *)
Home(e) == <<Own[Src[e]], Dst[e]>>

LEMMA EdgeFacts ==
    /\ Edges \subseteq Int
    /\ \A e \in Edges : /\ Src[e] \in Cblks /\ Dst[e] \in Cblks /\ Home(e) \in Local
                        /\ Home(e) \in FanIns <=> Own[Src[e]] # Own[Dst[e]]
    /\ \A x \in Local : \A e \in Edges : e \in Contribs(x) <=> x = Home(e)
    /\ \A x \in Local : x \in FanIns \/ (x = <<Own[x[2]], x[2]>> /\ x[2] \in Cblks)
    /\ \A x : Contribs(x) \subseteq Edges
<1>1. /\ Edges \subseteq Int /\ Src \in [Edges -> Cblks] /\ Dst \in [Edges -> Cblks]
      /\ Own \in [Cblks -> Procs]
  BY StructureAssumption
<1>2. \A x \in Local : x = <<x[1], x[2]>> /\ (x \in FanIns \/ (x = <<Own[x[2]], x[2]>> /\ x[2] \in Cblks))
  BY FanInFacts DEF Local
<1>3. ASSUME NEW e \in Edges
      PROVE  /\ Src[e] \in Cblks /\ Dst[e] \in Cblks /\ Home(e) \in Local
             /\ Home(e) \in FanIns <=> Own[Src[e]] # Own[Dst[e]]
  <2>1. Src[e] \in Cblks /\ Dst[e] \in Cblks /\ Own[Src[e]] \in Procs
    BY <1>1
  <2>2. e \in ProcEdges(Own[Src[e]], Dst[e])
    BY DEF ProcEdges
  <2>3. Home(e) \in FanIns <=> Own[Src[e]] # Own[Dst[e]]
    BY <2>1, <2>2 DEF Home, FanIns
  <2>4. Home(e) \in Local
    BY <2>1, <2>3 DEF Home, Local
  <2> QED
    BY <2>1, <2>3, <2>4
<1>4. \A x \in Local : \A e \in Edges : e \in Contribs(x) <=> x = Home(e)
  BY <1>2 DEF Contribs, ProcEdges, Home
<1>5. \A x : Contribs(x) \subseteq Edges
  BY DEF Contribs, ProcEdges
<1> QED
  BY <1>1, <1>2, <1>3, <1>4, <1>5

(* The contribution a thread is at.                                        *)
LEMMA NextEdgeFacts ==
    ASSUME StaticInv, NEW t \in Threads, todo[t] # {}
    PROVE  /\ NextEdge(t) \in todo[t] /\ NextEdge(t) \in Edges
           /\ pc[t] \in Working /\ pos[t] \in 1 .. Len(Order[t])
           /\ \A e \in todo[t] : Src[e] = Order[t][pos[t]] /\ runs[Src[e]] = 1 /\ Own[Src[e]] = ProcOf(t)
           /\ Target(t) = Home(NextEdge(t)) /\ Target(t) \in Local
           /\ NextEdge(t) \in Contribs(Target(t))
<1>1. pc[t] \in Working
  BY DEF StaticInv, AtTask
<1>2. todo[t] \subseteq Edges /\ todo[t] \subseteq OutOf(Order[t][pos[t]])
  BY <1>1 DEF StaticInv, StaticTypes, AtTask
<1>3. NextEdge(t) \in todo[t]
  <2>1. todo[t] \subseteq Int /\ IsFiniteSet(todo[t])
    BY <1>2, EdgeFacts, EdgesFinite
  <2> QED
    BY <2>1, MinOfFinite DEF NextEdge
<1>4. pos[t] \in 1 .. Len(Order[t])
  BY <1>1, OrderFacts DEF StaticInv, Placed
<1>5. \A e \in todo[t] : Src[e] = Order[t][pos[t]] /\ runs[Src[e]] = 1 /\ Own[Src[e]] = ProcOf(t)
  <2>1. \A e \in todo[t] : Src[e] = Order[t][pos[t]]
    BY <1>2 DEF OutOf
  <2>2. runs[Order[t][pos[t]]] = 1
    BY <1>1, <1>4 DEF StaticInv, RunsInOrder
  <2> QED
    BY <1>4, <2>1, <2>2, OrderFacts
<1>6. Target(t) = Home(NextEdge(t))
  BY <1>3, <1>5 DEF Target, Home
<1> QED
  BY <1>1, <1>2, <1>3, <1>4, <1>5, <1>6, EdgeFacts

(* A contribution is in the task of one thread.                            *)
LEMMA OneTask ==
    ASSUME StaticInv, NEW t \in Threads, NEW u \in Threads, NEW e, e \in todo[t], e \in todo[u]
    PROVE  t = u
<1>1. Order[t][pos[t]] = Order[u][pos[u]]
  BY NextEdgeFacts
<1> QED
  BY <1>1, NextEdgeFacts, OrderFacts

-----------------------------------------------------------------------------
(* The threads follow their lists: one lemma for each kind of step.        *)

staticVars == <<pos, todo, runs, phase, queue, taskcnt, done, cur>>

LEMMA StaticSame == ASSUME StaticInv, UNCHANGED <<pc, staticVars>> PROVE StaticInv'
BY DEF staticVars, StaticInv, StaticTypes, Placed, AtTask, RunsInOrder, Target, NextEdge

(* A thread goes on within its task, or while it waits for the next one.   *)
LEMMA StaticGoto ==
    ASSUME StaticInv, UNCHANGED staticVars, NEW t \in Threads, NEW l, Goto(t, l),
           \/ pc[t] \in Looping /\ l \in Looping
           \/ /\ pc[t] \in Working /\ l \in Working /\ todo[t] # {}
              /\ l \in {"gemm", "isend", "register"} => Target(t) \in FanIns
    PROVE  StaticInv'
<1>1. pc'[t] = l /\ \A u \in Threads : u # t => pc'[u] = pc[u]
  BY DEF StaticInv, StaticTypes, Goto
<1>2. pc' = [u \in Threads |-> pc'[u]]
  BY DEF StaticInv, StaticTypes, Goto
<1>3. StaticTypes'
  BY <1>2 DEF StaticInv, StaticTypes, staticVars
<1>4. ASSUME NEW u \in Threads PROVE (Placed(u) /\ AtTask(u) /\ RunsInOrder(u))'
  <2>1. CASE u = t
    <3>1. Placed(t) /\ AtTask(t) /\ RunsInOrder(t)
      BY DEF StaticInv
    <3>2. Placed(t)'
      BY <1>1, <3>1 DEF staticVars, Placed, Working, Looping
    <3>3. AtTask(t)'
      <4>1. Target(t)' = Target(t)
        BY DEF Target, NextEdge, staticVars
      <4> QED
        BY <1>1, <3>1, <4>1 DEF staticVars, AtTask, Working, Looping
    <3>4. RunsInOrder(t)'
      BY <1>1, <3>1 DEF staticVars, RunsInOrder, Working, Looping
    <3> QED
      BY <2>1, <3>2, <3>3, <3>4
  <2>2. CASE u # t
    BY <1>1, <2>2 DEF staticVars, StaticInv, Placed, AtTask, RunsInOrder, Target, NextEdge
  <2> QED
    BY <2>1, <2>2
<1> QED
  BY <1>3, <1>4 DEF StaticInv

(* A contribution leaves its task.                                         *)
LEMMA StaticDrop ==
    ASSUME StaticInv, UNCHANGED <<pos, runs, phase, queue, taskcnt, done, cur>>,
           NEW t \in Threads, NEW e, Goto(t, "update"), pc[t] \in Working,
           todo' = [todo EXCEPT ![t] = @ \ {e}]
    PROVE  StaticInv'
<1>1. pc'[t] = "update" /\ \A u \in Threads : u # t => pc'[u] = pc[u]
  BY DEF StaticInv, StaticTypes, Goto
<1>2. pc' = [u \in Threads |-> pc'[u]]
  BY DEF StaticInv, StaticTypes, Goto
<1>3. /\ todo'[t] = todo[t] \ {e} /\ \A u \in Threads : u # t => todo'[u] = todo[u]
      /\ todo' \in [Threads -> SUBSET Edges]
  BY DEF StaticInv, StaticTypes
<1>4. StaticTypes'
  BY <1>2, <1>3 DEF StaticInv, StaticTypes
<1>5. ASSUME NEW u \in Threads PROVE (Placed(u) /\ AtTask(u) /\ RunsInOrder(u))'
  <2>1. CASE u = t
    BY <1>1, <1>3, <2>1 DEF StaticInv, Placed, AtTask, RunsInOrder, Working, Looping
  <2>2. CASE u # t
    BY <1>1, <1>3, <2>2 DEF StaticInv, Placed, AtTask, RunsInOrder, Target, NextEdge
  <2> QED
    BY <2>1, <2>2
<1> QED
  BY <1>4, <1>5 DEF StaticInv

(* A thread computes the next column block of its list.                    *)
LEMMA ComputeStep ==
    ASSUME StaticInv, NEW t \in Threads, Compute(t)
    PROVE  /\ pc[t] = "wait" /\ pc'[t] = "update" /\ pos[t] \in 1 .. Len(Order[t])
           /\ \A u \in Threads : u # t => pc'[u] = pc[u] /\ todo'[u] = todo[u]
           /\ todo[t] = {} /\ todo'[t] = OutOf(Order[t][pos[t]])
           /\ runs[Order[t][pos[t]]] = 0 /\ runs'[Order[t][pos[t]]] = 1
           /\ \A c \in Cblks : c # Order[t][pos[t]] => runs'[c] = runs[c]
           /\ <<ProcOf(t), Order[t][pos[t]]>> \in Local \ FanIns
           /\ ctrbcnt[<<ProcOf(t), Order[t][pos[t]]>>] <= 0
           /\ UNCHANGED <<engineVars, ctrbcnt, pos, queue, taskcnt, done, got, fanin, phase>>
           /\ StaticInv'
<1> DEFINE c == Order[t][pos[t]]
<1>1. PICK x \in Local : /\ TakeTask(t, x, Order[t])
                         /\ runs' = [runs EXCEPT ![x[2]] = @ + 1]
                         /\ todo' = [todo EXCEPT ![t] = OutOf(x[2])]
  BY DEF Compute
<1>2. pc[t] \notin {"pop", "popAgain", "steal"}
  BY DEF StaticInv, Placed, Working, Looping
<1>3. TakeNext(t, x, Order[t])
  BY <1>1, <1>2 DEF TakeTask, PopOwn, Steal
<1>4. /\ pc[t] = "wait" /\ x = <<ProcOf(t), c>> /\ x[2] = c /\ ctrbcnt[x] <= 0
      /\ UNCHANGED queue
  BY <1>3 DEF TakeNext
<1>5. UNCHANGED <<engineVars, ctrbcnt, pos, taskcnt, done, got, fanin, phase>>
  BY <1>1 DEF TakeTask, Compute
<1>6. pos[t] \in 1 .. Len(Order[t]) /\ c \in Cblks /\ Own[c] = ProcOf(t)
  <2>1. pos[t] \in 1 .. Len(Order[t])
    BY <1>4, OrderFacts DEF StaticInv, Placed, Working, Looping
  <2> QED
    BY <2>1, OrderFacts
<1>7. todo[t] = {} /\ runs[c] = 0
  BY <1>4, <1>6 DEF StaticInv, AtTask, RunsInOrder, Working
<1>8. runs'[c] = 1 /\ \A d \in Cblks : d # c => runs'[d] = runs[d]
  BY <1>1, <1>4, <1>6, <1>7 DEF StaticInv, StaticTypes
<1>9. todo'[t] = OutOf(c) /\ \A u \in Threads : u # t => todo'[u] = todo[u]
  BY <1>1, <1>4 DEF StaticInv, StaticTypes
<1>10. pc'[t] = "update" /\ \A u \in Threads : u # t => pc'[u] = pc[u]
  BY DEF StaticInv, StaticTypes, Compute, Goto
<1>11. StaticTypes'
  <2>1. pc' = [u \in Threads |-> pc'[u]]
    BY DEF StaticInv, StaticTypes, Compute, Goto
  <2>2. runs' \in [Cblks -> Nat]
    BY <1>1, <1>4, <1>6 DEF StaticInv, StaticTypes
  <2>3. todo' \in [Threads -> SUBSET Edges]
    BY <1>1, <1>4 DEF StaticInv, StaticTypes, OutOf
  <2>4. cur' \in [Threads -> Local \cup {NoIdx}]
    BY <1>1 DEF StaticInv, StaticTypes, TakeTask
  <2> QED
    BY <1>4, <1>5, <2>1, <2>2, <2>3, <2>4 DEF StaticInv, StaticTypes
<1>12. ASSUME NEW u \in Threads PROVE (Placed(u) /\ AtTask(u) /\ RunsInOrder(u))'
  <2>1. Placed(u) /\ AtTask(u) /\ RunsInOrder(u)
    BY DEF StaticInv
  <2>2. CASE u = t
    <3>1. Placed(t)'
      BY <1>4, <1>5, <1>10, <2>1, <2>2 DEF Placed, Working, Looping
    <3>2. AtTask(t)'
      BY <1>5, <1>9, <1>10 DEF AtTask, Working
    <3>3. \A i \in 1 .. Len(Order[t]) : runs'[Order[t][i]] = IF i = pos[t] THEN 1 ELSE runs[Order[t][i]]
      BY <1>6, <1>8, OrderFacts
    <3>4. RunsInOrder(t)'
      <4>1. RunsInOrder(t)
        BY <2>1, <2>2
      <4> QED
        BY <1>4, <1>5, <1>6, <1>10, <3>3, <4>1 DEF RunsInOrder, Working
    <3> QED
      BY <2>2, <3>1, <3>2, <3>4
  <2>3. CASE u # t
    <3>1. Placed(u)' /\ AtTask(u)'
      BY <1>5, <1>9, <1>10, <2>1, <2>3 DEF Placed, AtTask, Target, NextEdge
    <3>2. \A i \in 1 .. Len(Order[u]) : runs'[Order[u][i]] = runs[Order[u][i]]
      BY <1>6, <1>8, <2>3, OrderFacts
    <3>3. RunsInOrder(u)'
      BY <1>5, <1>10, <2>1, <2>3, <3>2 DEF RunsInOrder
    <3> QED
      BY <3>1, <3>3
  <2> QED
    BY <2>2, <2>3
<1>13. StaticInv'
  BY <1>11, <1>12 DEF StaticInv
<1>14. <<ProcOf(t), c>> \in Local \ FanIns
  BY <1>6, FanInsLocal
<1> QED
  BY <1>4, <1>5, <1>6, <1>7, <1>8, <1>9, <1>10, <1>13, <1>14

(* It has computed it.                                                     *)
LEMMA NextTaskStep ==
    ASSUME StaticInv, NEW t \in Threads, NextTask(t)
    PROVE  /\ pc[t] = "update" /\ todo[t] = {} /\ pc'[t] \in {"wait", "end"}
           /\ \A u \in Threads : u # t => pc'[u] = pc[u]
           /\ UNCHANGED <<engineVars, ctrbcnt, queue, taskcnt, done, cur, factoVars>>
           /\ StaticInv'
<1>1. /\ pc[t] = "update" /\ todo[t] = {} /\ pos' = [pos EXCEPT ![t] = @ + 1]
      /\ Goto(t, Fetch(t, pos[t] + 1))
      /\ UNCHANGED <<engineVars, ctrbcnt, queue, taskcnt, done, cur, factoVars>>
  BY StaticAssumption DEF NextTask, EndTask
<1>2. /\ pc'[t] = Fetch(t, pos[t] + 1) /\ \A u \in Threads : u # t => pc'[u] = pc[u]
      /\ pc' = [u \in Threads |-> pc'[u]]
  BY <1>1 DEF StaticInv, StaticTypes, Goto
<1>3. /\ pos' \in [Threads -> Nat] /\ pos'[t] = pos[t] + 1
      /\ \A u \in Threads : u # t => pos'[u] = pos[u]
  BY <1>1 DEF StaticInv, StaticTypes
<1>4. StaticTypes'
  BY <1>1, <1>2, <1>3 DEF StaticInv, StaticTypes, factoVars
<1>5. ASSUME NEW u \in Threads PROVE (Placed(u) /\ AtTask(u) /\ RunsInOrder(u))'
  <2>1. Placed(u) /\ AtTask(u) /\ RunsInOrder(u)
    BY DEF StaticInv
  <2>2. CASE u = t
    <3>1. Len(Order[t]) \in Nat /\ pos[t] \in 1 .. Len(Order[t])
      BY <1>1, <2>1, <2>2, OrderFacts DEF Placed, Working
    <3>2. Placed(t)'
      BY <1>1, <1>2, <1>3, <2>1, <2>2, <3>1 DEF Placed, Fetch, Working, Looping, factoVars
    <3>3. AtTask(t)'
      BY <1>1, <1>2 DEF AtTask, Fetch, Working, factoVars
    <3>4. RunsInOrder(t)'
      BY <1>1, <1>2, <1>3, <2>1, <2>2, <3>1 DEF RunsInOrder, Fetch, Working, factoVars
    <3> QED
      BY <2>2, <3>2, <3>3, <3>4
  <2>3. CASE u # t
    BY <1>1, <1>2, <1>3, <2>1, <2>3 DEF Placed, AtTask, RunsInOrder, Target, NextEdge, factoVars
  <2> QED
    BY <2>2, <2>3
<1>6. pc'[t] \in {"wait", "end"}
  BY <1>2 DEF Fetch
<1> QED
  BY <1>1, <1>2, <1>4, <1>5, <1>6 DEF StaticInv

(* A process starts: its threads go to the first tasks of their lists.     *)
LEMMA StartStep ==
    ASSUME StaticInv, NEW p \in Procs, Start(p)
    PROVE  /\ phase[p] = "start" /\ phase'[p] = "tasks"
           /\ \A q \in Procs : q # p => phase'[q] = phase[q]
           /\ \A t \in ThreadsOf(p) : pc[t] = "idle" /\ pc'[t] \in {"wait", "end"}
           /\ \A t \in Threads : ProcOf(t) # p => pc'[t] = pc[t]
           /\ pc' = [t \in Threads |-> pc'[t]]
           /\ ctrbcnt' = [x \in Local |-> IF x[1] = p THEN BrowNbr(x) ELSE ctrbcnt[x]]
           /\ OpenRequests(p, RecvNbr(p), FaninNbr(p))
           /\ UNCHANGED <<todo, runs, got, fanin>>
           /\ StaticInv'
<1>1. /\ phase[p] = "start" /\ phase' = [phase EXCEPT ![p] = "tasks"]
      /\ UNCHANGED <<todo, runs, got, fanin>>
      /\ StartThreads(p, [x \in Local |-> BrowNbr(x)], [t \in Threads |-> FirstTasks(t)], TaskNbr(p))
      /\ OpenRequests(p, RecvNbr(p), FaninNbr(p))
  BY DEF Start
<1>2. phase'[p] = "tasks" /\ (\A q \in Procs : q # p => phase'[q] = phase[q])
      /\ phase' \in [Procs -> {"start", "tasks", "cleanup", "exit"}]
  BY <1>1 DEF StaticInv, StaticTypes
<1>3. /\ pos' = [t \in Threads |-> IF ProcOf(t) = p THEN 1 ELSE pos[t]]
      /\ queue' = [t \in Threads |-> queue[t]]
      /\ taskcnt' = [taskcnt EXCEPT ![p] = 0]
      /\ done' = [t \in Threads |-> IF ProcOf(t) = p THEN 0 ELSE done[t]]
      /\ pc' = [t \in Threads |-> IF ProcOf(t) # p THEN pc[t] ELSE Fetch(t, 1)]
      /\ UNCHANGED cur
  BY <1>1, StaticAssumption DEF StartThreads
<1>4. ctrbcnt' = [x \in Local |-> IF x[1] = p THEN BrowNbr(x) ELSE ctrbcnt[x]]
  BY <1>1 DEF StartThreads
<1>5. /\ \A t \in ThreadsOf(p) : pc[t] = "idle" /\ pc'[t] \in {"wait", "end"} /\ pc'[t] = Fetch(t, 1)
      /\ \A t \in Threads : ProcOf(t) # p => pc'[t] = pc[t]
      /\ pc' = [t \in Threads |-> pc'[t]]
  <2>1. \A t \in ThreadsOf(p) : pc[t] = "idle"
    BY <1>1, ThreadFacts DEF StaticInv, Placed
  <2> QED
    BY <1>3, <2>1, ThreadFacts DEF Fetch
<1>6. StaticTypes'
  <2>1. pos' \in [Threads -> Nat] /\ done' \in [Threads -> Nat] /\ taskcnt' \in [Procs -> Nat]
    BY <1>3 DEF StaticInv, StaticTypes
  <2>2. queue' \in [Threads -> SUBSET Local]
    BY <1>3 DEF StaticInv, StaticTypes
  <2> QED
    BY <1>1, <1>2, <1>3, <1>5, <2>1, <2>2 DEF StaticInv, StaticTypes
<1>7. ASSUME NEW t \in Threads PROVE (Placed(t) /\ AtTask(t) /\ RunsInOrder(t))'
  <2>1. Placed(t) /\ AtTask(t) /\ RunsInOrder(t) /\ Len(Order[t]) \in Nat
    BY OrderFacts DEF StaticInv
  <2>2. CASE ProcOf(t) = p
    <3>1. pc[t] = "idle" /\ pos[t] = 1 /\ pos'[t] = 1 /\ pc'[t] = Fetch(t, 1)
      BY <1>3, <1>5, <2>1, <2>2, ThreadFacts DEF Placed
    <3>2. Placed(t)'
      BY <1>1, <1>2, <2>1, <2>2, <3>1 DEF Placed, Fetch, Working, Looping
    <3>3. AtTask(t)'
      BY <1>1, <2>1, <3>1 DEF AtTask, Fetch, Working
    <3>4. RunsInOrder(t)'
      BY <1>1, <2>1, <3>1 DEF RunsInOrder, Fetch, Working
    <3> QED
      BY <3>2, <3>3, <3>4
  <2>3. CASE ProcOf(t) # p
    <3>1. pc'[t] = pc[t] /\ pos'[t] = pos[t] /\ phase'[ProcOf(t)] = phase[ProcOf(t)]
      BY <1>2, <1>3, <1>5, <2>3, ThreadFacts
    <3> QED
      BY <1>1, <2>1, <3>1 DEF Placed, AtTask, RunsInOrder, Target, NextEdge
  <2> QED
    BY <2>2, <2>3
<1> QED
  BY <1>1, <1>2, <1>4, <1>5, <1>6, <1>7 DEF StaticInv

(* A process is done with its tasks; it leaves.                            *)
LEMMA PhaseStep ==
    ASSUME StaticInv, NEW p \in Procs, NEW f \in {"cleanup", "exit"},
           phase' = [phase EXCEPT ![p] = f], phase[p] \in {"tasks", "cleanup"},
           \A t \in ThreadsOf(p) : pc[t] = "end",
           UNCHANGED <<pc, pos, todo, runs, queue, taskcnt, done, cur>>
    PROVE  /\ StaticInv'
           /\ phase'[p] = f /\ \A q \in Procs : q # p => phase'[q] = phase[q]
<1>1. /\ phase'[p] = f /\ \A q \in Procs : q # p => phase'[q] = phase[q]
      /\ phase' \in [Procs -> {"start", "tasks", "cleanup", "exit"}]
  BY DEF StaticInv, StaticTypes
<1>2. StaticTypes'
  BY <1>1 DEF StaticInv, StaticTypes
<1>3. ASSUME NEW t \in Threads PROVE (Placed(t) /\ AtTask(t) /\ RunsInOrder(t))'
  <2>1. Placed(t) /\ AtTask(t) /\ RunsInOrder(t) /\ ProcOf(t) \in Procs
    BY ThreadFacts DEF StaticInv
  <2>2. Placed(t)'
    <3>1. CASE ProcOf(t) = p
      <4>1. pc[t] = "end"
        BY <3>1, ThreadFacts
      <4> QED
        BY <1>1, <2>1, <3>1, <4>1 DEF Placed
    <3>2. CASE ProcOf(t) # p
      BY <1>1, <2>1, <3>2 DEF Placed
    <3> QED
      BY <3>1, <3>2
  <2> QED
    BY <2>1, <2>2 DEF AtTask, RunsInOrder, Target, NextEdge
<1> QED
  BY <1>1, <1>2, <1>3 DEF StaticInv

-----------------------------------------------------------------------------
(* The contributions that have not passed some labels, step by step.       *)

LEMMA EdgesBeforeFacts ==
    ASSUME StaticInv, NEW t \in Threads, todo[t] # {}, NEW L
    PROVE  NextEdge(t) \in EdgesBefore(L) <=> pc[t] \in L
<1>1. /\ NextEdge(t) \in todo[t] /\ NextEdge(t) \in Edges
      /\ runs[Src[NextEdge(t)]] = 1
  BY NextEdgeFacts
<1>2. \A u \in Threads : NextEdge(t) \in todo[u] => u = t
  BY <1>1, OneTask
<1> QED
  BY <1>1, <1>2 DEF EdgesBefore

LEMMA EdgesNested ==
    /\ FreshEdges \subseteq LeftEdges /\ LeftEdges \subseteq UnsentEdges /\ UnsentEdges \subseteq Edges
BY DEF FreshEdges, LeftEdges, UnsentEdges, EdgesBefore

LEMMA EdgesSame ==
    ASSUME UNCHANGED <<todo, runs>>, NEW L,
           \A t \in Threads : todo[t] # {} => (pc'[t] \in L <=> pc[t] \in L)
    PROVE  EdgesBefore(L)' = EdgesBefore(L)
<1>1. \A t \in Threads : NextEdge(t)' = NextEdge(t)
  BY DEF NextEdge
<1> QED
  BY <1>1 DEF EdgesBefore

(* A thread passes the labels of L with a contribution.                    *)
LEMMA EdgesPass ==
    ASSUME StaticInv, UNCHANGED <<todo, runs>>, NEW L, NEW t \in Threads, todo[t] # {},
           \A u \in Threads : u # t => pc'[u] = pc[u], pc'[t] \notin L
    PROVE  EdgesBefore(L)' = EdgesBefore(L) \ {NextEdge(t)}
<1>1. NextEdge(t) \in todo[t] /\ runs[Src[NextEdge(t)]] = 1
  BY NextEdgeFacts
<1>2. \A u \in Threads : NextEdge(u)' = NextEdge(u)
  BY DEF NextEdge
<1>3. \A u \in Threads : NextEdge(t) \in todo[u] => u = t
  BY <1>1, OneTask
<1>4. ASSUME NEW e \in Edges
      PROVE  e \in EdgesBefore(L)' <=> e \in EdgesBefore(L) /\ e # NextEdge(t)
  <2>1. CASE e = NextEdge(t)
    BY <1>1, <1>2, <1>3, <2>1 DEF EdgesBefore
  <2>2. CASE e # NextEdge(t)
    <3>1. \A u \in Threads : e \in todo'[u] /\ (e # NextEdge(u)' \/ pc'[u] \in L)
                              <=> e \in todo[u] /\ (e # NextEdge(u) \/ pc[u] \in L)
      BY <1>2, <2>2
    <3> QED
      BY <2>2, <3>1 DEF EdgesBefore
  <2> QED
    BY <2>1, <2>2
<1> QED
  BY <1>4 DEF EdgesBefore

(* A contribution leaves the task of a thread.                             *)
LEMMA EdgesDrop ==
    ASSUME StaticInv, UNCHANGED runs, NEW L, NEW t \in Threads, todo[t] # {},
           todo' = [todo EXCEPT ![t] = @ \ {NextEdge(t)}],
           \A u \in Threads : u # t => pc'[u] = pc[u], pc'[t] \in L
    PROVE  EdgesBefore(L)' = EdgesBefore(L) \ {NextEdge(t)}
<1>1. NextEdge(t) \in todo[t] /\ runs[Src[NextEdge(t)]] = 1
  BY NextEdgeFacts
<1>2. /\ todo'[t] = todo[t] \ {NextEdge(t)}
      /\ \A u \in Threads : u # t => todo'[u] = todo[u] /\ NextEdge(u)' = NextEdge(u)
  BY DEF StaticInv, StaticTypes, NextEdge
<1>3. \A u \in Threads : NextEdge(t) \in todo[u] => u = t
  BY <1>1, OneTask
<1>4. ASSUME NEW e \in Edges
      PROVE  e \in EdgesBefore(L)' <=> e \in EdgesBefore(L) /\ e # NextEdge(t)
  <2>1. CASE e = NextEdge(t)
    BY <1>1, <1>2, <1>3, <2>1 DEF EdgesBefore
  <2>2. CASE e # NextEdge(t)
    <3>1. \A u \in Threads : e \in todo'[u] /\ (e # NextEdge(u)' \/ pc'[u] \in L)
                              <=> e \in todo[u] /\ (e # NextEdge(u) \/ pc[u] \in L)
      BY <1>2, <2>2
    <3> QED
      BY <2>2, <3>1 DEF EdgesBefore
  <2> QED
    BY <2>1, <2>2
<1> QED
  BY <1>4 DEF EdgesBefore

(* A task begins: what waited for its computation waits for its thread.    *)
LEMMA EdgesCompute ==
    ASSUME StaticInv, NEW t \in Threads, Compute(t), NEW L, "update" \in L
    PROVE  EdgesBefore(L)' = EdgesBefore(L)
<1> DEFINE c == Order[t][pos[t]]
<1>1. /\ pc'[t] = "update" /\ todo[t] = {} /\ todo'[t] = OutOf(c)
      /\ \A u \in Threads : u # t => pc'[u] = pc[u] /\ todo'[u] = todo[u]
      /\ runs[c] = 0 /\ runs'[c] = 1 /\ \A d \in Cblks : d # c => runs'[d] = runs[d]
  BY ComputeStep
<1> HIDE DEF c
<1>2. \A u \in Threads : \A e \in todo[u] : runs[Src[e]] = 1
  BY NextEdgeFacts
<1>3. \A u \in Threads : u # t => NextEdge(u)' = NextEdge(u)
  BY <1>1 DEF NextEdge
<1>4. ASSUME NEW e \in Edges PROVE e \in EdgesBefore(L)' <=> e \in EdgesBefore(L)
  <2>1. Src[e] \in Cblks
    BY EdgeFacts
  <2>2. CASE Src[e] = c
    <3>1. e \in todo'[t]
      BY <1>1, <2>2 DEF OutOf
    <3> QED
      BY <1>1, <2>2, <3>1 DEF EdgesBefore
  <2>3. CASE Src[e] # c
    <3>1. runs'[Src[e]] = runs[Src[e]]
      BY <1>1, <2>1, <2>3
    <3>2. e \notin todo[t] /\ e \notin todo'[t]
      BY <1>1, <2>3 DEF OutOf
    <3>3. \A u \in Threads : e \in todo'[u] /\ (e # NextEdge(u)' \/ pc'[u] \in L)
                              <=> e \in todo[u] /\ (e # NextEdge(u) \/ pc[u] \in L)
      BY <1>1, <1>3, <3>2
    <3> QED
      BY <3>1, <3>3 DEF EdgesBefore
  <2> QED
    BY <2>2, <2>3
<1> QED
  BY <1>4 DEF EdgesBefore

(* The contributions stay where they are.                                  *)
EdgesKept == FreshEdges' = FreshEdges /\ LeftEdges' = LeftEdges /\ UnsentEdges' = UnsentEdges

(* The thread of a task is not at a label outside of it.                   *)
LEMMA EdgesKeptOutside ==
    ASSUME StaticInv, UNCHANGED <<todo, runs>>,
           \A t \in Threads : pc'[t] = pc[t] \/ pc[t] \notin Working \/ todo[t] = {}
    PROVE  EdgesKept
<1>1. \A t \in Threads : todo[t] # {} => pc'[t] = pc[t]
  BY DEF StaticInv, AtTask
<1> QED
  BY <1>1, EdgesSame DEF EdgesKept, FreshEdges, LeftEdges, UnsentEdges


-----------------------------------------------------------------------------
(* The messages, and what a step that moves none of them leaves as it was. *)

LEMMA MsgFacts ==
    /\ \A x \in FanIns : Msg(x).tag = x[2] /\ Msg(x).data = Contribs(x) /\ Msg(x) # NoMsg
    /\ \A x \in FanIns : Msg(x) \in Msgs
    /\ \A x, y \in FanIns : Msg(x) = Msg(y) => x = y
<1>1. \A x \in FanIns : Msg(x).tag = x[2] /\ Msg(x).data = Contribs(x) /\ Msg(x) # NoMsg
  BY FanInFacts, ThreadFacts DEF Msg, NoMsg
<1>2. \A x, y \in FanIns : Msg(x) = Msg(y) => x = y
  BY FanInFacts DEF Msg
<1>3. \A x \in FanIns : Msg(x) \in Msgs
  BY DEF Msgs
<1> QED
  BY <1>1, <1>2, <1>3

(* A message is held by one thread, of its owner.                          *)
LEMMA OneTaker ==
    ASSUME EngineInv, MessageInv, NEW t \in Threads, NEW u \in Threads,
           NEW x \in FanIns, held[t] = Msg(x)
    PROVE  /\ ProcOf(t) = Own[x[2]] /\ commtid[ProcOf(t)] = t
           /\ held[u] = Msg(x) => u = t
<1>1. ASSUME NEW v \in Threads, held[v] = Msg(x)
      PROVE  ProcOf(v) = Own[x[2]] /\ commtid[ProcOf(v)] = v
  <2>1. held[v] # NoMsg
    BY <1>1, MsgFacts
  <2>2. PICK y \in RecvsOf(ProcOf(v)) : held[v] = Msg(y)
    BY <2>1 DEF MessageInv
  <2>3. y = x
    BY <1>1, <2>2, MsgFacts, RecvFacts
  <2> QED
    BY <2>1, <2>2, <2>3, RecvFacts DEF EngineInv, CommTid, Elected
<1> QED
  BY <1>1

BufferFull(p) == recvreq[p] \in {"done", "inactive"}
MessagesKept == UNCHANGED <<net, rcoeftab, held>> /\ \A p \in Procs : BufferFull(p)' <=> BufferFull(p)
LabelsKept == \A t \in Threads : /\ pc'[t] = "add" <=> pc[t] = "add"
                                 /\ pc'[t] = "dec" <=> pc[t] = "dec"
PhasesKept == \A p \in Procs : phase'[p] = "start" <=> phase[p] = "start"
ComingKept == \A x \in FanIns : (Coming(x)' <=> Coming(x)) /\ (Taking(x)' <=> Taking(x))

LEMMA MessageSame ==
    ASSUME MessageInv, OnePlaceInv, MessagesKept, LabelsKept,
           \A x \in FanIns : Unsent(x)' <=> Unsent(x)
    PROVE  MessageInv' /\ OnePlaceInv' /\ ComingKept
<1>1. MessageInv'
  BY DEF MessageInv, MessagesKept, LabelsKept, BufferFull
<1>2. ASSUME NEW x \in FanIns
      PROVE  (InNet(x)' <=> InNet(x)) /\ (InBuffer(x)' <=> InBuffer(x)) /\ (Taking(x)' <=> Taking(x))
  <2>1. Own[x[2]] \in Procs
    BY FanInFacts
  <2> QED
    BY <2>1 DEF InNet, InBuffer, Taking, Channel, MessagesKept, BufferFull
<1>3. OnePlaceInv'
  BY <1>2 DEF OnePlaceInv, MessagesKept, Channel
<1> QED
  BY <1>1, <1>2, <1>3 DEF ComingKept, Coming

LEMMA IncomingSame ==
    ASSUME IncomingInv, ComingKept, PhasesKept, UNCHANGED incoming
    PROVE  IncomingInv'
<1>1. ASSUME NEW p \in Procs PROVE {x \in RecvsOf(p) : Coming(x)'} = {x \in RecvsOf(p) : Coming(x)}
  BY RecvFacts DEF ComingKept
<1> QED
  BY <1>1, RecvFacts DEF IncomingInv, ComingKept, PhasesKept

(* What a column block still waits for from the other processes.           *)
Awaited(c) == {y \in RecvsTo(c) : Coming(y) \/ Taking(y)}

LEMMA CounterSame ==
    ASSUME CounterInv, \A x \in FanIns : (Coming(x) \/ Taking(x))' <=> (Coming(x) \/ Taking(x)),
           PhasesKept, UNCHANGED ctrbcnt, LeftEdges' = LeftEdges
    PROVE  CounterInv'
<1>1. ASSUME NEW c PROVE Awaited(c)' = Awaited(c)
  BY RecvFacts DEF Awaited
<1>2. ASSUME NEW x \in Local PROVE Counter(x)' = Counter(x)
  BY <1>1 DEF Counter, Awaited
<1>3. \A x \in Local : x[1] \in Procs
  BY FanInFacts, EdgeFacts, StructureAssumption
<1> QED
  BY <1>2, <1>3 DEF CounterInv, PhasesKept

LEMMA GotSame ==
    ASSUME GotInv, UNCHANGED got, FreshEdges' = FreshEdges,
           \A x \in FanIns : (Coming(x) \/ Adding(x))' <=> (Coming(x) \/ Adding(x))
    PROVE  GotInv'
BY DEF GotInv

LEMMA AddingSame ==
    ASSUME MessagesKept, LabelsKept
    PROVE  \A x \in FanIns : Adding(x)' <=> Adding(x)
BY DEF Adding, MessagesKept, LabelsKept

LEMMA ReadySame ==
    ASSUME ReadyInv, \A c \in Cblks : runs'[c] > 0 => runs[c] > 0, LeftEdges' \subseteq LeftEdges,
           \A x \in FanIns : (Coming(x) \/ Taking(x))' => (Coming(x) \/ Taking(x))
    PROVE  ReadyInv'
BY RecvFacts DEF ReadyInv

(* A step that touches neither the messages nor the contributions.         *)
LEMMA QuietStep ==
    ASSUME FactoInv, EdgesKept, MessagesKept, LabelsKept, PhasesKept,
           UNCHANGED <<incoming, ctrbcnt, got>>,
           \A c \in Cblks : runs'[c] > 0 => runs[c] > 0
    PROVE  MessageInv' /\ OnePlaceInv' /\ IncomingInv' /\ CounterInv' /\ GotInv' /\ ReadyInv'
<1>1. \A x \in FanIns : Unsent(x)' <=> Unsent(x)
  BY DEF EdgesKept, Unsent
<1>2. MessageInv' /\ OnePlaceInv' /\ ComingKept
  BY <1>1, MessageSame DEF FactoInv
<1>3. \A x \in FanIns : Adding(x)' <=> Adding(x)
  BY AddingSame
<1>4. IncomingInv'
  BY <1>2, IncomingSame DEF FactoInv
<1>5. CounterInv'
  <2>1. \A x \in FanIns : (Coming(x) \/ Taking(x))' <=> (Coming(x) \/ Taking(x))
    BY <1>2 DEF ComingKept
  <2> QED
    BY <2>1, CounterSame DEF FactoInv, EdgesKept
<1>6. GotInv'
  <2>1. \A x \in FanIns : (Coming(x) \/ Adding(x))' <=> (Coming(x) \/ Adding(x))
    BY <1>2, <1>3 DEF ComingKept
  <2> QED
    BY <2>1, GotSame DEF FactoInv, EdgesKept
<1>7. ReadyInv'
  <2>1. \A x \in FanIns : (Coming(x) \/ Taking(x))' => (Coming(x) \/ Taking(x))
    BY <1>2 DEF ComingKept
  <2> QED
    BY <2>1, ReadySame DEF FactoInv, EdgesKept
<1> QED
  BY <1>2, <1>4, <1>5, <1>6, <1>7

LEMMA FanInSame ==
    ASSUME FanInInv, UNCHANGED fanin, EdgesKept,
           \A t \in Threads : pc'[t] = "gemm" => pc[t] = "gemm" /\ todo'[t] = todo[t]
    PROVE  FanInInv'
<1>1. \A t \in Threads : pc'[t] = "gemm" => Target(t)' = Target(t)
  BY DEF Target, NextEdge
<1> QED
  BY <1>1 DEF FanInInv, EdgesKept, Unsent, Content

(* The requests stay where they are, or leave the table once handled.      *)
LEMMA SendKept ==
    ASSUME SendInv, EngineTypes', TablesShrink, UNCHANGED <<posted, outgoing, phase>>,
           \A x \in FanIns : Pending(x)' <=> Pending(x),
           \A x \in FanIns : Unsent(x)' <=> Unsent(x),
           \A x \in FanIns : fanin'[x] # <<>> => fanin[x] # <<>> \/ Unsent(x),
           \A t \in Threads : /\ pc'[t] = "register" <=> pc[t] = "register"
                              /\ pc'[t] = "register" => todo'[t] = todo[t]
    PROVE  SendInv'
<1>1. \A t \in Threads : posted'[t] = IF pc'[t] = "register" THEN Target(t)' ELSE NoIdx
  BY DEF SendInv, Target, NextEdge
<1>2. \A p \in Procs : \A i \in 1 .. Len(reqtab'[p]) : reqtab'[p][i].idx \in FanInsOf(p) \cup {NoIdx}
  BY DEF SendInv, TablesShrink
<1>3. \A x \in FanIns : Unsent(x)' =>
          /\ \A p \in Procs : \A i \in 1 .. Len(reqtab'[p]) : reqtab'[p][i].idx # x
          /\ \A t \in Threads : posted'[t] # x
  <2> SUFFICES ASSUME NEW x \in FanIns, Unsent(x)
               PROVE  /\ \A p \in Procs : \A i \in 1 .. Len(reqtab'[p]) : reqtab'[p][i].idx # x
                      /\ \A t \in Threads : posted'[t] # x
    OBVIOUS
  <2>1. \A t \in Threads : posted'[t] # x
    BY DEF SendInv
  <2>2. ASSUME NEW p \in Procs, NEW i \in 1 .. Len(reqtab'[p]) PROVE reqtab'[p][i].idx # x
    <3>1. PICK j \in 1 .. Len(reqtab[p]) : reqtab'[p][i].idx = reqtab[p][j].idx
      BY DEF TablesShrink
    <3> QED
      BY <3>1 DEF SendInv
  <2> QED
    BY <2>1, <2>2
<1>4. \A p \in Procs : {x \in FanInsOf(p) : Unsent(x)' \/ Pending(x)'} = {x \in FanInsOf(p) : Unsent(x) \/ Pending(x)}
  BY DEF FanInsOf
<1>5. \A x \in FanIns : fanin'[x] # <<>> => Unsent(x)' \/ Pending(x)'
  BY DEF SendInv
<1>6. \A p \in Procs : IF phase'[p] = "start" THEN outgoing'[p] = 0
          ELSE outgoing'[p] >= Cardinality({x \in FanInsOf(p) : Unsent(x)' \/ Pending(x)'})
  BY <1>4 DEF SendInv
<1>7. \A p \in Procs : phase'[p] \in {"start", "exit"} => reqtab'[p] = <<>>
  <2> SUFFICES ASSUME NEW p \in Procs, phase'[p] \in {"start", "exit"} PROVE reqtab'[p] = <<>>
    OBVIOUS
  <2>1. reqtab[p] = <<>>
    BY DEF SendInv
  <2>2. \A i \in 1 .. Len(reqtab'[p]) : FALSE
    BY <2>1 DEF TablesShrink
  <2>3. reqtab'[p] \in Seq(Entry)
    BY DEF EngineTypes
  <2> QED
    BY <2>2, <2>3
<1> QED
  BY <1>1, <1>2, <1>3, <1>5, <1>6, <1>7 DEF SendInv

LEMMA SendSame ==
    ASSUME SendInv, EngineTypes', UNCHANGED <<posted, reqtab, indexes, outgoing, phase>>,
           \A x \in FanIns : Unsent(x)' <=> Unsent(x),
           \A x \in FanIns : fanin'[x] # <<>> => fanin[x] # <<>> \/ Unsent(x),
           \A t \in Threads : /\ pc'[t] = "register" <=> pc[t] = "register"
                              /\ pc'[t] = "register" => todo'[t] = todo[t]
    PROVE  SendInv'
<1>1. \A x : Pending(x)' <=> Pending(x)
  BY DEF Pending
<1>2. TablesShrink
  BY DEF TablesShrink
<1> QED
  BY <1>1, <1>2, SendKept

-----------------------------------------------------------------------------
(* One lemma for each step: the threads and the tasks.                     *)

LEMMA GotoFacts ==
    ASSUME StaticInv, NEW t \in Threads, NEW l, Goto(t, l)
    PROVE  /\ pc'[t] = l /\ \A u \in Threads : u # t => pc'[u] = pc[u]
           /\ pc' = [u \in Threads |-> pc'[u]]
BY DEF StaticInv, StaticTypes, Goto

(* A step of a thread that touches nothing of the engine, from a label     *)
(* where it holds no message.                                              *)
LEMMA EngineKept ==
    ASSUME EngineInv, StaticInv, MessageInv, UNCHANGED engineVars, NEW t \in Threads, NEW l,
           \A u \in Threads : u # t => pc'[u] = pc[u], pc'[t] = l, pc' = [u \in Threads |-> pc'[u]],
           pc[t] \in Working \cup {"wait"}, l \notin Communicating
    PROVE  EngineInv'
<1>1. pc[t] \notin Communicating /\ held[t] = NoMsg
  BY DEF MessageInv, Working, Communicating
<1> QED
  BY <1>1, OtherInv

LEMMA WaitStep == ASSUME FactoInv, NEW t \in Threads, Wait(t, Order[t]), UNCHANGED factoVars PROVE FactoInv'
<1> USE DEF FactoInv
<1>1. pc[t] = "wait" /\ Goto(t, "elect") /\ UNCHANGED <<engineVars, schedVars, factoVars>>
  BY DEF Wait
<1>2. pc'[t] = "elect" /\ (\A u \in Threads : u # t => pc'[u] = pc[u]) /\ pc' = [u \in Threads |-> pc'[u]]
  BY <1>1, GotoFacts
<1>3. StaticInv'
  BY <1>1, StaticGoto DEF Looping, staticVars, schedVars, factoVars
<1>4. EngineInv'
  BY <1>1, <1>2, EngineKept DEF Communicating
<1>5. EdgesKept
  BY <1>1, <1>2, EdgesKeptOutside DEF Working, factoVars
<1>6. MessageInv' /\ OnePlaceInv' /\ IncomingInv' /\ CounterInv' /\ GotInv' /\ ReadyInv'
  <2>1. MessagesKept
    BY <1>1 DEF MessagesKept, BufferFull, engineVars, threadVars, mpiVars
  <2>2. LabelsKept /\ PhasesKept
    BY <1>1, <1>2 DEF LabelsKept, PhasesKept, factoVars
  <2> QED
    BY <1>1, <1>5, <2>1, <2>2, QuietStep DEF engineVars, tableVars, schedVars, factoVars
<1>7. FanInInv'
  BY <1>1, <1>2, <1>5, FanInSame DEF factoVars
<1>8. SendInv'
  <2>1. \A x \in FanIns : Unsent(x)' <=> Unsent(x)
    BY <1>5 DEF EdgesKept, Unsent
  <2> QED
    BY <1>1, <1>2, <1>4, <2>1, SendSame DEF EngineInv, engineVars, tableVars, threadVars, factoVars
<1> QED
  BY <1>3, <1>4, <1>6, <1>7, <1>8

LEMMA NextTaskInv == ASSUME FactoInv, NEW t \in Threads, NextTask(t) PROVE FactoInv'
<1> USE DEF FactoInv
<1>1. /\ pc[t] = "update" /\ todo[t] = {} /\ pc'[t] \in {"wait", "end"}
      /\ \A u \in Threads : u # t => pc'[u] = pc[u]
      /\ UNCHANGED <<engineVars, ctrbcnt, factoVars>> /\ StaticInv'
  BY NextTaskStep
<1>2. pc' = [u \in Threads |-> pc'[u]]
  BY <1>1 DEF StaticInv, StaticTypes
<1>3. EngineInv'
  BY <1>1, <1>2, EngineKept DEF Working, Communicating
<1>4. EdgesKept
  BY <1>1, EdgesKeptOutside DEF factoVars
<1>5. MessageInv' /\ OnePlaceInv' /\ IncomingInv' /\ CounterInv' /\ GotInv' /\ ReadyInv'
  <2>1. MessagesKept
    BY <1>1 DEF MessagesKept, BufferFull, engineVars, threadVars, mpiVars
  <2>2. LabelsKept /\ PhasesKept
    BY <1>1 DEF LabelsKept, PhasesKept, factoVars
  <2> QED
    BY <1>1, <1>4, <2>1, <2>2, QuietStep DEF engineVars, tableVars, factoVars
<1>6. FanInInv'
  BY <1>1, <1>4, FanInSame DEF factoVars
<1>7. SendInv'
  <2>1. \A x \in FanIns : Unsent(x)' <=> Unsent(x)
    BY <1>4 DEF EdgesKept, Unsent
  <2> QED
    BY <1>1, <1>3, <2>1, SendSame DEF EngineInv, engineVars, tableVars, threadVars, factoVars
<1> QED
  BY <1>1, <1>3, <1>5, <1>6, <1>7

(* Nothing is left for a column block whose counter is at zero.            *)
LEMMA NothingLeft ==
    ASSUME CounterInv, NEW c \in Cblks, phase[Own[c]] # "start", ctrbcnt[<<Own[c], c>>] <= 0
    PROVE  /\ Contribs(<<Own[c], c>>) \cap LeftEdges = {}
           /\ \A y \in RecvsTo(c) : ~ Coming(y) /\ ~ Taking(y)
<1> DEFINE x == <<Own[c], c>>
           A == Contribs(x) \cap LeftEdges
           B == Awaited(c)
<1>1. x \in Local /\ x \notin FanIns
  BY FanInsLocal
<1>2. IsFiniteSet(A) /\ Cardinality(A) \in Nat
  BY EdgesFinite, EdgeFacts
<1>3. B \subseteq FanIns
  BY RecvFacts DEF Awaited
<1>4. IsFiniteSet(B) /\ Cardinality(B) \in Nat
  BY <1>3, FanInsFinite
<1>5. ctrbcnt[x] = Cardinality(A) + Cardinality(B)
  BY <1>1 DEF CounterInv, Counter, Awaited
<1> HIDE DEF A, B
<1>6. Cardinality(A) = 0 /\ Cardinality(B) = 0
  BY <1>2, <1>4, <1>5
<1>7. A = {} /\ B = {}
  BY <1>2, <1>4, <1>6, FS_EmptySet
<1> QED
  BY <1>7 DEF A, B, Awaited

LEMMA ComputeInv == ASSUME FactoInv, NEW t \in Threads, Compute(t) PROVE FactoInv'
<1> USE DEF FactoInv
<1> DEFINE c == Order[t][pos[t]]
<1>1. /\ pc[t] = "wait" /\ pc'[t] = "update" /\ pos[t] \in 1 .. Len(Order[t])
      /\ \A u \in Threads : u # t => pc'[u] = pc[u] /\ todo'[u] = todo[u]
      /\ \A d \in Cblks : d # c => runs'[d] = runs[d]
      /\ ctrbcnt[<<ProcOf(t), c>>] <= 0
      /\ UNCHANGED <<engineVars, ctrbcnt, got, fanin, phase>>
      /\ StaticInv'
  BY ComputeStep
<1>2. c \in Cblks /\ Own[c] = ProcOf(t) /\ ProcOf(t) \in Procs
  BY <1>1, OrderFacts, ThreadFacts
<1> HIDE DEF c
<1>3. pc' = [u \in Threads |-> pc'[u]]
  BY <1>1 DEF StaticInv, StaticTypes
<1>4. EngineInv'
  BY <1>1, <1>3, EngineKept DEF Communicating
<1>5. EdgesKept
  BY EdgesCompute DEF EdgesKept, FreshEdges, LeftEdges, UnsentEdges
<1>6. MessagesKept /\ LabelsKept /\ PhasesKept
  BY <1>1 DEF MessagesKept, BufferFull, engineVars, threadVars, mpiVars, LabelsKept, PhasesKept
<1>7. \A x \in FanIns : Unsent(x)' <=> Unsent(x)
  BY <1>5 DEF EdgesKept, Unsent
<1>8. MessageInv' /\ OnePlaceInv' /\ ComingKept
  BY <1>6, <1>7, MessageSame
<1>9. IncomingInv'
  BY <1>1, <1>6, <1>8, IncomingSame DEF engineVars, tableVars
<1>10. CounterInv'
  BY <1>1, <1>5, <1>6, <1>8, CounterSame DEF ComingKept, EdgesKept
<1>11. GotInv'
  BY <1>1, <1>5, <1>6, <1>8, GotSame, AddingSame DEF ComingKept, EdgesKept
<1>12. ReadyInv'
  <2>1. phase[Own[c]] # "start"
    BY <1>1, <1>2 DEF StaticInv, Placed
  <2>2. /\ Contribs(<<Own[c], c>>) \cap LeftEdges = {}
        /\ \A y \in RecvsTo(c) : ~ Coming(y) /\ ~ Taking(y)
    BY <1>1, <1>2, <2>1, NothingLeft
  <2>3. ASSUME NEW d \in Cblks, runs'[d] > 0
        PROVE  /\ Contribs(<<Own[d], d>>) \cap LeftEdges = {}
               /\ \A y \in RecvsTo(d) : ~ Coming(y) /\ ~ Taking(y)
    <3>1. CASE d = c
      BY <2>2, <3>1
    <3>2. CASE d # c
      <4>1. runs[d] > 0
        BY <1>1, <2>3, <3>2
      <4> QED
        BY <4>1 DEF ReadyInv
    <3> QED
      BY <3>1, <3>2
  <2> QED
    BY <1>5, <1>8, <2>3, RecvFacts DEF ReadyInv, EdgesKept, ComingKept
<1>13. FanInInv'
  BY <1>1, <1>5, FanInSame
<1>14. SendInv'
  BY <1>1, <1>4, <1>7, SendSame DEF EngineInv, engineVars, tableVars, threadVars
<1> QED
  BY <1>1, <1>4, <1>8, <1>9, <1>10, <1>11, <1>12, <1>13, <1>14

-----------------------------------------------------------------------------
(* One lemma for each step: the contributions.                             *)

(* Where the contribution of a thread counts.                              *)
LEMMA AtEdge ==
    ASSUME StaticInv, NEW t \in Threads, todo[t] # {}
    PROVE  /\ NextEdge(t) \in Edges /\ Target(t) \in Local /\ Target(t) = Home(NextEdge(t))
           /\ \A y \in Local : NextEdge(t) \in Contribs(y) <=> y = Target(t)
           /\ Target(t)[1] = ProcOf(t) /\ phase[ProcOf(t)] = "tasks"
           /\ NextEdge(t) \in FreshEdges <=> pc[t] \in {"update", "gemm"}
           /\ NextEdge(t) \in LeftEdges <=> pc[t] \in {"update", "gemm", "release"}
           /\ NextEdge(t) \in UnsentEdges <=> pc[t] \in {"update", "gemm", "release", "isend"}
           /\ pc[t] \in Working
<1>1. /\ NextEdge(t) \in Edges /\ Target(t) \in Local /\ Target(t) = Home(NextEdge(t))
      /\ pc[t] \in Working
  BY NextEdgeFacts
<1>2. \A y \in Local : NextEdge(t) \in Contribs(y) <=> y = Target(t)
  BY <1>1, EdgeFacts
<1>3. Target(t)[1] = ProcOf(t)
  BY DEF Target
<1>4. phase[ProcOf(t)] = "tasks"
  <2>1. ProcOf(t) \in Procs
    BY ThreadFacts
  <2> QED
    BY <1>1, <2>1 DEF StaticInv, StaticTypes, Placed, Working
<1>5. /\ NextEdge(t) \in FreshEdges <=> pc[t] \in {"update", "gemm"}
      /\ NextEdge(t) \in LeftEdges <=> pc[t] \in {"update", "gemm", "release"}
      /\ NextEdge(t) \in UnsentEdges <=> pc[t] \in {"update", "gemm", "release", "isend"}
  BY EdgesBeforeFacts DEF FreshEdges, LeftEdges, UnsentEdges
<1> QED
  BY <1>1, <1>2, <1>3, <1>4, <1>5

LEMMA AllocInv == ASSUME FactoInv, NEW t \in Threads, Alloc(t) PROVE FactoInv'
<1> USE DEF FactoInv
<1> DEFINE x == Target(t)
<1>1. /\ pc[t] = "update" /\ todo[t] # {} /\ x \in FanIns /\ Goto(t, "gemm")
      /\ fanin' = [fanin EXCEPT ![x] = IF fanin[x] = <<>> THEN <<{}>> ELSE fanin[x]]
      /\ UNCHANGED <<engineVars, schedVars, todo, runs, got, phase>>
  BY DEF Alloc
<1>2. pc'[t] = "gemm" /\ (\A u \in Threads : u # t => pc'[u] = pc[u]) /\ pc' = [u \in Threads |-> pc'[u]]
  BY <1>1, GotoFacts
<1>3. StaticInv'
  BY <1>1, StaticGoto DEF Working, staticVars, schedVars
<1>4. EngineInv'
  BY <1>1, <1>2, EngineKept DEF Working, Communicating
<1>5. EdgesKept
  BY <1>1, <1>2, EdgesSame DEF EdgesKept, FreshEdges, LeftEdges, UnsentEdges
<1>6. \A y \in FanIns : Unsent(y)' <=> Unsent(y)
  BY <1>5 DEF EdgesKept, Unsent
<1>7. MessageInv' /\ OnePlaceInv' /\ IncomingInv' /\ CounterInv' /\ GotInv' /\ ReadyInv'
  <2>1. MessagesKept
    BY <1>1 DEF MessagesKept, BufferFull, engineVars, threadVars, mpiVars
  <2>2. LabelsKept /\ PhasesKept
    BY <1>1, <1>2 DEF LabelsKept, PhasesKept
  <2> QED
    BY <1>1, <1>5, <2>1, <2>2, QuietStep DEF engineVars, tableVars, schedVars
<1>8. Unsent(x)
  BY <1>1, AtEdge, FanInsLocal DEF Unsent
<1> HIDE DEF x
<1>9. \A y \in FanIns : /\ y # x => fanin'[y] = fanin[y]
                        /\ y = x => fanin'[y] # <<>>
                        /\ Content(y)' = Content(y)
                        /\ fanin[y] # <<>> => fanin'[y] # <<>>
  <2>1. \A y \in FanIns : fanin'[y] = IF y = x /\ fanin[x] = <<>> THEN <<{}>> ELSE fanin[y]
    BY <1>1 DEF FanInInv
  <2> QED
    BY <2>1, FanInContent DEF Content
<1>10. FanInInv'
  <2>1. fanin' \in [FanIns -> {<<>>} \cup {<<E>> : E \in SUBSET Edges}]
    BY <1>1 DEF FanInInv
  <2>2. ASSUME NEW u \in Threads, pc'[u] = "gemm" PROVE fanin'[Target(u)'] # <<>>
    <3>1. Target(u)' = Target(u)
      BY <1>1 DEF Target, NextEdge
    <3>2. Target(u)' \in FanIns
      BY <1>3, <2>2 DEF StaticInv, AtTask, Working
    <3>3. CASE u = t
      BY <1>9, <3>1, <3>2, <3>3 DEF x
    <3>4. CASE u # t
      <4>1. fanin[Target(u)] # <<>>
        BY <1>2, <2>2, <3>4 DEF FanInInv
      <4> QED
        BY <1>9, <3>1, <3>2, <4>1
    <3> QED
      BY <3>3, <3>4
  <2> QED
    BY <1>5, <1>6, <1>9, <2>1, <2>2 DEF FanInInv, EdgesKept
<1>11. SendInv'
  <2>1. \A y \in FanIns : fanin'[y] # <<>> => fanin[y] # <<>> \/ Unsent(y)
    BY <1>8, <1>9
  <2> QED
    BY <1>1, <1>2, <1>4, <1>6, <2>1, SendSame DEF EngineInv, engineVars, tableVars, threadVars
<1> QED
  BY <1>3, <1>4, <1>7, <1>10, <1>11

LEMMA UpdateInv == ASSUME FactoInv, NEW t \in Threads, Update(t) PROVE FactoInv'
<1> USE DEF FactoInv
<1> DEFINE x == Target(t)
           e == NextEdge(t)
<1>1. /\ pc[t] \in {"update", "gemm"} /\ todo[t] # {} /\ Goto(t, "release")
      /\ UNCHANGED <<engineVars, schedVars, todo, runs, phase>>
  BY DEF Update, StaticInv, AtTask, Working
<1>2. pc'[t] = "release" /\ (\A u \in Threads : u # t => pc'[u] = pc[u]) /\ pc' = [u \in Threads |-> pc'[u]]
  BY <1>1, GotoFacts
<1>3. StaticInv'
  BY <1>1, StaticGoto DEF Working, staticVars, schedVars
<1>4. EngineInv'
  BY <1>1, <1>2, EngineKept DEF Working, Communicating
<1>5. /\ e \in Edges /\ x \in Local /\ x = Home(e) /\ e \in UnsentEdges /\ e \in FreshEdges
      /\ \A y \in Local : e \in Contribs(y) <=> y = x
  BY <1>1, AtEdge
<1>6. FreshEdges' = FreshEdges \ {e} /\ LeftEdges' = LeftEdges /\ UnsentEdges' = UnsentEdges
  <2>1. FreshEdges' = FreshEdges \ {e}
    BY <1>1, <1>2, EdgesPass DEF FreshEdges
  <2>2. LeftEdges' = LeftEdges /\ UnsentEdges' = UnsentEdges
    BY <1>1, <1>2, EdgesSame DEF LeftEdges, UnsentEdges
  <2> QED
    BY <2>1, <2>2
<1>7. \A y \in FanIns : Unsent(y)' <=> Unsent(y)
  BY <1>6 DEF Unsent
<1>8. MessagesKept /\ LabelsKept /\ PhasesKept
  BY <1>1, <1>2 DEF MessagesKept, BufferFull, engineVars, threadVars, mpiVars, LabelsKept, PhasesKept
<1>9. MessageInv' /\ OnePlaceInv' /\ ComingKept
  BY <1>7, <1>8, MessageSame
<1>10. IncomingInv'
  BY <1>1, <1>8, <1>9, IncomingSame DEF engineVars, tableVars
<1>11. CounterInv'
  BY <1>1, <1>6, <1>8, <1>9, CounterSame DEF ComingKept, schedVars
<1>12. ReadyInv'
  BY <1>1, <1>6, <1>9, ReadySame DEF ComingKept
<1>13. \A y \in FanIns : Adding(y)' <=> Adding(y)
  BY <1>8, AddingSame
<1>14. CASE /\ pc[t] = "gemm" /\ UNCHANGED got
            /\ fanin' = [fanin EXCEPT ![x] = <<fanin[x][1] \cup {e}>>]
  <2>1. x \in FanIns /\ fanin[x] # <<>>
    BY <1>14 DEF StaticInv, AtTask, Working, FanInInv
  <2>2. Own[Src[e]] # Own[Dst[e]]
    BY <1>5, <2>1, EdgeFacts
  <2>3. GotInv'
    <3>1. \A y \in FanIns : (Coming(y) \/ Adding(y))' <=> (Coming(y) \/ Adding(y))
      BY <1>9, <1>13 DEF ComingKept
    <3>2. \A f \in Edges : Own[Src[f]] = Own[Dst[f]] => (f \in FreshEdges' <=> f \in FreshEdges)
      BY <1>6, <2>2
    <3> QED
      BY <1>14, <3>1, <3>2 DEF GotInv
  <2>4. Unsent(x)
    BY <1>5, <2>1 DEF Unsent
  <2> HIDE DEF x, e
  <2>5. \A y \in FanIns : fanin'[y] = IF y = x THEN <<fanin[x][1] \cup {e}>> ELSE fanin[y]
    BY <1>14 DEF FanInInv
  <2>6. /\ \A y \in FanIns : y = x => fanin'[y] # <<>>
        /\ \A y \in FanIns : Content(y)' = IF y = x THEN Content(y) \cup {e} ELSE Content(y)
    <3>1. \A y \in FanIns : y # x => fanin'[y] = fanin[y]
      BY <2>5
    <3>2. \A y \in FanIns : y = x => fanin'[y] # <<>> /\ fanin'[y][1] = fanin[y][1] \cup {e}
      <4>1. \A y \in FanIns : y = x => fanin'[y] = <<fanin[y][1] \cup {e}>>
        BY <2>5
      <4> QED
        BY <4>1, FanInContent
    <3>3. \A y \in FanIns : y = x => Content(y) = fanin[y][1]
      BY <2>1 DEF Content
    <3> QED
      BY <3>1, <3>2, <3>3 DEF Content
  <2>7. FanInInv'
    <3>1. fanin' \in [FanIns -> {<<>>} \cup {<<E>> : E \in SUBSET Edges}]
      <4>1. Content(x) \in SUBSET Edges
        <5>1. Content(x) = Contribs(x) \ FreshEdges
          BY <2>1, <2>4 DEF FanInInv
        <5> QED
          BY <5>1, EdgeFacts
      <4>2. fanin[x][1] \cup {e} \in SUBSET Edges
        BY <1>5, <2>1, <4>1 DEF Content
      <4>3. fanin \in [FanIns -> {<<>>} \cup {<<E>> : E \in SUBSET Edges}]
        BY DEF FanInInv
      <4>4. <<fanin[x][1] \cup {e}>> \in {<<E>> : E \in SUBSET Edges}
        BY <4>2
      <4> HIDE DEF FactoInv
      <4> QED
        BY <1>14, <4>3, <4>4
    <3>2. ASSUME NEW u \in Threads, pc'[u] = "gemm" PROVE fanin'[Target(u)'] # <<>>
      <4>1. Target(u)' = Target(u) /\ u # t
        BY <1>1, <1>2, <3>2 DEF Target, NextEdge
      <4>2. fanin[Target(u)] # <<>> /\ Target(u) \in FanIns
        BY <1>2, <3>2, <4>1 DEF FanInInv, StaticInv, AtTask, Working
      <4> QED
        BY <2>5, <2>6, <4>1, <4>2
    <3>3. ASSUME NEW y \in FanIns, Unsent(y)' PROVE Content(y)' = Contribs(y) \ FreshEdges'
      <4>1. Content(y) = Contribs(y) \ FreshEdges
        BY <1>7, <3>3 DEF FanInInv
      <4>2. e \in Contribs(y) <=> y = x
        BY <1>5, FanInsLocal
      <4> QED
        BY <1>6, <2>6, <4>1, <4>2
    <3> QED
      BY <1>6, <3>1, <3>2, <3>3 DEF FanInInv
  <2>8. SendInv'
    <3>1. \A y \in FanIns : fanin'[y] # <<>> => fanin[y] # <<>> \/ Unsent(y)
      BY <2>4, <2>5
    <3> QED
      BY <1>1, <1>2, <1>4, <1>7, <3>1, SendSame DEF EngineInv, engineVars, tableVars, threadVars
  <2> QED
    BY <1>3, <1>4, <1>9, <1>10, <1>11, <1>12, <2>3, <2>7, <2>8
<1>15. CASE x \notin FanIns /\ got' = [got EXCEPT ![e] = @ + 1] /\ UNCHANGED fanin
  <2>1. Own[Src[e]] = Own[Dst[e]]
    BY <1>5, <1>15, EdgeFacts
  <2>2. \A y \in FanIns : e \notin Contribs(y)
    BY <1>5, <1>15, FanInsLocal
  <2> HIDE DEF x, e
  <2>3. GotInv'
    <3>1. got[e] = 0
      BY <1>5, <2>1 DEF GotInv
    <3>2. got' \in [Edges -> Nat] /\ \A f \in Edges : got'[f] = IF f = e THEN 1 ELSE got[f]
      BY <1>5, <1>15, <3>1 DEF GotInv
    <3>3. \A f \in Edges : Own[Src[f]] = Own[Dst[f]] => got'[f] = IF f \in FreshEdges' THEN 0 ELSE 1
      BY <1>6, <3>2 DEF GotInv
    <3>4. ASSUME NEW y \in FanIns, NEW f \in Contribs(y)
          PROVE  got'[f] = IF Coming(y)' \/ Adding(y)' THEN 0 ELSE 1
      <4>1. f # e /\ f \in Edges
        BY <2>2, EdgeFacts
      <4>2. (Coming(y)' \/ Adding(y)') <=> (Coming(y) \/ Adding(y))
        BY <1>9, <1>13 DEF ComingKept
      <4> QED
        BY <3>2, <4>1, <4>2 DEF GotInv
    <3> QED
      BY <3>2, <3>3, <3>4 DEF GotInv
  <2>4. FanInInv'
    <3>1. ASSUME NEW u \in Threads, pc'[u] = "gemm" PROVE fanin'[Target(u)'] # <<>>
      <4>1. Target(u)' = Target(u) /\ u # t
        BY <1>1, <1>2, <3>1 DEF Target, NextEdge
      <4> QED
        BY <1>2, <1>15, <3>1, <4>1 DEF FanInInv
    <3>2. ASSUME NEW y \in FanIns, Unsent(y)' PROVE Content(y)' = Contribs(y) \ FreshEdges'
      <4>1. Content(y)' = Content(y)
        BY <1>15 DEF Content
      <4> QED
        BY <1>6, <1>7, <2>2, <3>2, <4>1 DEF FanInInv
    <3> QED
      BY <1>6, <1>15, <3>1, <3>2 DEF FanInInv
  <2>5. SendInv'
    BY <1>1, <1>2, <1>4, <1>7, <1>15, SendSame DEF EngineInv, engineVars, tableVars, threadVars
  <2> QED
    BY <1>3, <1>4, <1>9, <1>10, <1>11, <1>12, <2>3, <2>4, <2>5
<1> QED
  BY <1>14, <1>15 DEF Update

(* cpucblk_zrelease_deps counts a contribution down.                       *)
LEMMA CounterDrop ==
    ASSUME StaticInv, CounterInv, NEW t \in Threads, todo[t] # {}, pc[t] = "release",
           LeftEdges' = LeftEdges \ {NextEdge(t)}, UNCHANGED phase,
           ctrbcnt' = [ctrbcnt EXCEPT ![Target(t)] = @ - 1],
           \A x \in FanIns : (Coming(x) \/ Taking(x))' <=> (Coming(x) \/ Taking(x))
    PROVE  CounterInv'
<1>1. ASSUME NEW c PROVE Awaited(c)' = Awaited(c) /\ Cardinality(Awaited(c)) \in Nat
  <2>1. Awaited(c)' = Awaited(c)
    BY RecvFacts DEF Awaited
  <2>2. Awaited(c) \subseteq FanIns
    BY RecvFacts DEF Awaited
  <2> QED
    BY <2>1, <2>2, FanInsFinite
<1> DEFINE Left(x) == Contribs(x) \cap LeftEdges
<1>2. \A x : IsFiniteSet(Left(x)) /\ Cardinality(Left(x)) \in Nat
  BY EdgesFinite, EdgeFacts
<1>3. /\ NextEdge(t) \in LeftEdges /\ phase[Target(t)[1]] # "start" /\ Target(t) \in Local
      /\ \A x \in Local : NextEdge(t) \in Contribs(x) <=> x = Target(t)
  BY AtEdge
<1>4. /\ ctrbcnt \in [Local -> Nat]
      /\ \A x \in Local : ctrbcnt'[x] = IF x = Target(t) THEN ctrbcnt[x] - 1 ELSE ctrbcnt[x]
  BY DEF CounterInv
<1>5. ASSUME NEW x \in Local
      PROVE  /\ Counter(x)' = IF x = Target(t) THEN Counter(x) - 1 ELSE Counter(x)
             /\ Counter(x) \in Nat /\ x = Target(t) => Counter(x) > 0
  <2> DEFINE A == Left(x)
             B == IF x \in FanIns THEN 0 ELSE Cardinality(Awaited(x[2]))
  <2>1. Counter(x) = Cardinality(A) + B
    BY DEF Counter, Awaited
  <2>2. Counter(x)' = Cardinality(A') + B
    BY <1>1 DEF Counter, Awaited
  <2>3. IsFiniteSet(A) /\ Cardinality(A) \in Nat /\ B \in Nat
    BY <1>1, <1>2
  <2>4. CASE x = Target(t)
    <3>1. A' = A \ {NextEdge(t)} /\ NextEdge(t) \in A
      BY <1>3, <2>4
    <3> HIDE DEF A, B
    <3>2. Cardinality(A') = Cardinality(A) - 1 /\ Cardinality(A') \in Nat
      BY <2>3, <3>1, FS_RemoveElement, FS_CardinalityType
    <3> QED
      BY <2>1, <2>2, <2>3, <2>4, <3>2
  <2>5. CASE x # Target(t)
    <3>1. A' = A
      BY <1>3, <2>5
    <3> HIDE DEF A, B
    <3> QED
      BY <2>1, <2>2, <2>3, <2>5, <3>1
  <2> QED
    BY <2>4, <2>5
<1>6. \A x \in Local : ctrbcnt'[x] = IF phase'[x[1]] = "start" THEN 0 ELSE Counter(x)'
  BY <1>3, <1>4, <1>5 DEF CounterInv
<1>7. ctrbcnt' \in [Local -> Nat]
  <2>1. ctrbcnt' = [x \in Local |-> ctrbcnt'[x]]
    BY <1>4
  <2>2. \A x \in Local : ctrbcnt'[x] \in Nat
    BY <1>3, <1>4, <1>5 DEF CounterInv
  <2> QED
    BY <2>1, <2>2
<1> QED
  BY <1>6, <1>7 DEF CounterInv

(* The counter of a fan-in is one when one contribution is left.           *)
LEMMA LastContribution ==
    ASSUME StaticInv, CounterInv, NEW t \in Threads, todo[t] # {}, pc[t] = "release",
           Target(t) \in FanIns
    PROVE  /\ ctrbcnt[Target(t)] = 1 => \A f \in Contribs(Target(t)) \cap LeftEdges : f = NextEdge(t)
           /\ ctrbcnt[Target(t)] # 1 => \E f \in Contribs(Target(t)) \cap LeftEdges : f # NextEdge(t)
<1> DEFINE A == Contribs(Target(t)) \cap LeftEdges
           e == NextEdge(t)
<1>1. IsFiniteSet(A) /\ Cardinality(A) \in Nat
  BY EdgesFinite, EdgeFacts
<1>2. e \in A /\ phase[Target(t)[1]] # "start" /\ Target(t) \in Local
  BY AtEdge
<1>3. ctrbcnt[Target(t)] = Cardinality(A)
  <2>1. ctrbcnt[Target(t)] = Counter(Target(t))
    BY <1>2 DEF CounterInv
  <2>2. Counter(Target(t)) = Cardinality(A) + 0
    BY DEF Counter
  <2> QED
    BY <1>1, <2>1, <2>2
<1> HIDE DEF A, e
<1>4. /\ Cardinality(A \ {e}) = Cardinality(A) - 1 /\ Cardinality(A \ {e}) \in Nat
      /\ IsFiniteSet(A \ {e})
  BY <1>1, <1>2, FS_RemoveElement, FS_CardinalityType
<1>5. Cardinality(A) = 1 => A \ {e} = {}
  BY <1>4, FS_EmptySet
<1>6. A \ {e} = {} => Cardinality(A) = 1
  BY <1>1, <1>4, FS_EmptySet
<1> QED
  BY <1>3, <1>5, <1>6 DEF A, e

LEMMA ReleaseInv == ASSUME FactoInv, NEW t \in Threads, Release(t) PROVE FactoInv'
<1> USE DEF FactoInv
<1> DEFINE x == Target(t)
           e == NextEdge(t)
<1>1. pc[t] = "release" /\ UNCHANGED <<engineVars, pos, taskcnt, done, cur, runs, got, fanin, phase>>
  BY DEF Release
<1>2. todo[t] # {}
  BY <1>1 DEF StaticInv, AtTask, Working
<1>3. /\ e \in Edges /\ x \in Local /\ phase[x[1]] # "start" /\ e \notin FreshEdges
      /\ e \in LeftEdges /\ e \in UnsentEdges
      /\ \A y \in Local : e \in Contribs(y) <=> y = x
  BY <1>1, <1>2, AtEdge
<1>4. LeftEdges \subseteq UnsentEdges /\ FreshEdges \subseteq LeftEdges
  BY EdgesNested
<1>5. MessagesKept /\ PhasesKept /\ UNCHANGED incoming
  BY <1>1 DEF MessagesKept, BufferFull, engineVars, tableVars, threadVars, mpiVars, PhasesKept
<1>6. CASE /\ x \in FanIns /\ ctrbcnt[x] = 1 /\ ctrbcnt' = [ctrbcnt EXCEPT ![x] = 0]
           /\ Goto(t, "isend") /\ UNCHANGED <<todo, queue>>
  <2>1. pc'[t] = "isend" /\ (\A u \in Threads : u # t => pc'[u] = pc[u]) /\ pc' = [u \in Threads |-> pc'[u]]
    BY <1>6, GotoFacts
  <2>2. StaticInv'
    BY <1>1, <1>2, <1>6, StaticGoto DEF Working, staticVars
  <2>3. EngineInv'
    BY <1>1, <2>1, EngineKept DEF Working, Communicating
  <2>4. FreshEdges' = FreshEdges /\ LeftEdges' = LeftEdges \ {e} /\ UnsentEdges' = UnsentEdges
    <3>1. LeftEdges' = LeftEdges \ {e}
      BY <1>1, <1>2, <1>6, <2>1, EdgesPass DEF LeftEdges
    <3>2. FreshEdges' = FreshEdges /\ UnsentEdges' = UnsentEdges
      BY <1>1, <1>6, <2>1, EdgesSame DEF FreshEdges, UnsentEdges
    <3> QED
      BY <3>1, <3>2
  <2>5. \A y \in FanIns : Unsent(y)' <=> Unsent(y)
    BY <2>4 DEF Unsent
  <2>6. LabelsKept
    BY <1>1, <2>1 DEF LabelsKept
  <2>7. MessageInv' /\ OnePlaceInv' /\ ComingKept
    BY <1>5, <2>5, <2>6, MessageSame
  <2>8. IncomingInv'
    BY <1>5, <2>7, IncomingSame
  <2>9. CounterInv'
    <3>1. ctrbcnt' = [ctrbcnt EXCEPT ![x] = @ - 1]
      BY <1>6
    <3> QED
      BY <1>1, <1>2, <2>4, <2>7, <3>1, CounterDrop DEF ComingKept
  <2>10. GotInv'
    <3>1. \A y \in FanIns : Adding(y)' <=> Adding(y)
      BY <1>5, <2>6, AddingSame
    <3> QED
      BY <1>1, <2>4, <2>7, <3>1, GotSame DEF ComingKept
  <2>11. ReadyInv'
    BY <1>1, <2>4, <2>7, ReadySame DEF ComingKept
  <2>12. FanInInv'
    <3>1. \A f \in Contribs(x) \cap LeftEdges : f = e
      BY <1>1, <1>2, <1>6, LastContribution
    <3>2. ASSUME NEW y \in FanIns, NEW f \in Contribs(y) \cap UnsentEdges, NEW g \in Contribs(y) \cap UnsentEdges,
                 f \notin LeftEdges'
          PROVE  g = f
      <4>1. CASE f \notin LeftEdges
        BY <4>1 DEF FanInInv
      <4>2. CASE f \in LeftEdges
        <5>1. f = e /\ y = x
          BY <1>3, <2>4, <3>2, <4>2, FanInsLocal
        <5>2. CASE g \in LeftEdges
          BY <3>1, <5>1, <5>2
        <5>3. CASE g \notin LeftEdges
          BY <5>3 DEF FanInInv
        <5> QED
          BY <5>2, <5>3
      <4> QED
        BY <4>1, <4>2
    <3>3. ASSUME NEW u \in Threads, pc'[u] = "gemm" PROVE fanin'[Target(u)'] # <<>>
      BY <1>1, <1>6, <2>1, <3>3 DEF FanInInv, Target, NextEdge
    <3>4. \A y : Content(y)' = Content(y)
      BY <1>1 DEF Content
    <3> QED
      BY <1>1, <2>4, <2>5, <3>2, <3>3, <3>4 DEF FanInInv
  <2>13. SendInv'
    BY <1>1, <1>6, <2>1, <2>3, <2>5, SendSame DEF EngineInv, engineVars, tableVars, threadVars
  <2> QED
    BY <2>2, <2>3, <2>7, <2>8, <2>9, <2>10, <2>11, <2>12, <2>13
<1>7. CASE /\ ~ (x \in FanIns /\ ctrbcnt[x] = 1) /\ Contributed(x, t)
           /\ todo' = [todo EXCEPT ![t] = @ \ {e}] /\ Goto(t, "update")
  <2>1. pc'[t] = "update" /\ (\A u \in Threads : u # t => pc'[u] = pc[u]) /\ pc' = [u \in Threads |-> pc'[u]]
    BY <1>7, GotoFacts
  <2>2. ctrbcnt' = [ctrbcnt EXCEPT ![x] = @ - 1] /\ UNCHANGED queue
    BY <1>7, StaticAssumption DEF Contributed
  <2>3. StaticInv'
    BY <1>1, <1>7, <2>2, StaticDrop DEF Working
  <2>4. EngineInv'
    BY <1>1, <2>1, EngineKept DEF Working, Communicating
  <2>5. FreshEdges' = FreshEdges /\ LeftEdges' = LeftEdges \ {e} /\ UnsentEdges' = UnsentEdges \ {e}
    <3>1. LeftEdges' = LeftEdges \ {e} /\ UnsentEdges' = UnsentEdges \ {e}
      BY <1>1, <1>2, <1>7, <2>1, EdgesDrop DEF LeftEdges, UnsentEdges
    <3>2. FreshEdges' = FreshEdges \ {e}
      BY <1>1, <1>2, <1>7, <2>1, EdgesDrop DEF FreshEdges
    <3> QED
      BY <1>3, <3>1, <3>2
  <2>6. \A y \in FanIns : Unsent(y)' <=> Unsent(y)
    <3> SUFFICES ASSUME NEW y \in FanIns PROVE Unsent(y)' <=> Unsent(y)
      OBVIOUS
    <3>1. CASE y # x
      BY <1>3, <2>5, <3>1, FanInsLocal DEF Unsent
    <3>2. CASE y = x
      <4>1. PICK f \in Contribs(x) \cap LeftEdges : f # e
        BY <1>1, <1>2, <1>7, <3>2, LastContribution
      <4>2. f \in Contribs(y) \cap UnsentEdges /\ f \in Contribs(y) \cap UnsentEdges'
        BY <1>4, <2>5, <3>2, <4>1
      <4> QED
        BY <4>2 DEF Unsent
    <3> QED
      BY <3>1, <3>2
  <2>7. LabelsKept
    BY <1>1, <2>1 DEF LabelsKept
  <2>8. MessageInv' /\ OnePlaceInv' /\ ComingKept
    BY <1>5, <2>6, <2>7, MessageSame
  <2>9. IncomingInv'
    BY <1>5, <2>8, IncomingSame
  <2>10. CounterInv'
    BY <1>1, <1>2, <2>2, <2>5, <2>8, CounterDrop DEF ComingKept
  <2>11. GotInv'
    <3>1. \A y \in FanIns : Adding(y)' <=> Adding(y)
      BY <1>5, <2>7, AddingSame
    <3> QED
      BY <1>1, <2>5, <2>8, <3>1, GotSame DEF ComingKept
  <2>12. ReadyInv'
    BY <1>1, <2>5, <2>8, ReadySame DEF ComingKept
  <2>13. FanInInv'
    <3>1. ASSUME NEW u \in Threads, pc'[u] = "gemm" PROVE fanin'[Target(u)'] # <<>>
      <4>1. u # t
        BY <2>1, <3>1
      <4>2. todo'[u] = todo[u]
        BY <1>7, <4>1 DEF StaticInv, StaticTypes
      <4> QED
        BY <1>1, <2>1, <3>1, <4>1, <4>2 DEF FanInInv, Target, NextEdge
    <3>2. \A y : Content(y)' = Content(y)
      BY <1>1 DEF Content
    <3>3. ASSUME NEW y \in FanIns, NEW f \in Contribs(y) \cap UnsentEdges', NEW g \in Contribs(y) \cap UnsentEdges',
                 f \notin LeftEdges'
          PROVE  g = f
      BY <2>5, <3>3 DEF FanInInv
    <3> QED
      BY <1>1, <2>5, <2>6, <3>1, <3>2, <3>3 DEF FanInInv
  <2>14. SendInv'
    <3>1. \A u \in Threads : u # t => todo'[u] = todo[u]
      BY <1>7 DEF StaticInv, StaticTypes
    <3> QED
      BY <1>1, <2>1, <2>4, <2>6, <3>1, SendSame DEF EngineInv, engineVars, tableVars, threadVars
  <2> QED
    BY <2>3, <2>4, <2>8, <2>9, <2>10, <2>11, <2>12, <2>13, <2>14
<1> QED
  BY <1>6, <1>7 DEF Release

-----------------------------------------------------------------------------
(* One lemma for each step: the fan-ins are sent.                          *)

LEMMA SendFaninInv == ASSUME FactoInv, NEW t \in Threads, SendFanin(t) PROVE FactoInv'
<1> USE DEF FactoInv
<1>1. /\ pc[t] = "isend" /\ Goto(t, "register") /\ UNCHANGED <<schedVars, factoVars>>
      /\ Isend(t, Target(t), Own[Dst[NextEdge(t)]], Dst[NextEdge(t)], fanin[Target(t)][1])
  BY DEF SendFanin
<1>2. todo[t] # {} /\ Target(t) \in FanIns
  BY <1>1 DEF StaticInv, AtTask, Working
<1>3. PICK x \in FanIns : x = Target(t)
  BY <1>2
<1>4. PICK e \in Edges : e = NextEdge(t)
  BY <1>2, AtEdge
<1>5. /\ x[1] = ProcOf(t) /\ x[2] = Dst[e] /\ e \in Contribs(x) /\ e \in UnsentEdges /\ e \notin LeftEdges
      /\ \A y \in FanIns : e \in Contribs(y) => y = x
  <2>1. x[1] = ProcOf(t) /\ x[2] = Dst[e]
    BY <1>3, <1>4 DEF Target
  <2> QED
    BY <1>1, <1>2, <1>3, <1>4, <2>1, AtEdge, FanInsLocal
<1>6. /\ LeftEdges \subseteq UnsentEdges /\ FreshEdges \subseteq LeftEdges
      /\ \A y : Contribs(y) \subseteq Edges
  BY EdgesNested, EdgeFacts
<1>7. \A f \in Contribs(x) \cap UnsentEdges : f = e
  BY <1>5 DEF FanInInv
<1>8. fanin[x][1] = Contribs(x) /\ Unsent(x)
  <2>1. Unsent(x)
    BY <1>5 DEF Unsent
  <2>2. Content(x) = Contribs(x)
    <3>1. Content(x) = Contribs(x) \ FreshEdges
      BY <2>1 DEF FanInInv
    <3>2. \A f \in Contribs(x) : f \notin FreshEdges
      BY <1>5, <1>6, <1>7
    <3> QED
      BY <3>1, <3>2
  <2> QED
    BY <1>5, <2>1, <2>2 DEF Content
<1>9. Isend(t, x, Own[x[2]], x[2], Contribs(x))
  BY <1>1, <1>3, <1>4, <1>5, <1>8
<1>10. /\ net' = [net EXCEPT ![<<x[1], Own[x[2]]>>] = Append(@, Msg(x))]
       /\ UNCHANGED <<reqtab, incoming, outgoing, threadVars, recvreq, rcoeftab>>
  BY <1>5, <1>9 DEF Isend, Msg
<1>11. pc'[t] = "register" /\ (\A u \in Threads : u # t => pc'[u] = pc[u]) /\ pc' = [u \in Threads |-> pc'[u]]
  BY <1>1, GotoFacts
<1>12. StaticInv'
  BY <1>1, <1>2, StaticGoto DEF Working, staticVars, schedVars, factoVars
<1>13. /\ posted[t] = NoIdx /\ \A u \in Threads : posted[u] # x
       /\ \A p \in Procs : \A i \in 1 .. Len(reqtab[p]) : reqtab[p][i].idx # x
  BY <1>1, <1>8 DEF SendInv
<1>14. EngineInv'
  BY <1>1, <1>9, <1>13, IsendInv DEF Communicating
<1>15. FreshEdges' = FreshEdges /\ LeftEdges' = LeftEdges /\ UnsentEdges' = UnsentEdges \ {e}
  <2>1. UNCHANGED <<todo, runs>>
    BY <1>1 DEF factoVars
  <2>2. UnsentEdges' = UnsentEdges \ {e}
    BY <1>2, <1>4, <1>11, <2>1, EdgesPass DEF UnsentEdges
  <2>3. FreshEdges' = FreshEdges /\ LeftEdges' = LeftEdges
    BY <1>1, <1>11, <2>1, EdgesSame DEF FreshEdges, LeftEdges
  <2> QED
    BY <2>2, <2>3
<1>16. ~ Unsent(x)' /\ \A y \in FanIns : y # x => (Unsent(y)' <=> Unsent(y))
  BY <1>5, <1>7, <1>15 DEF Unsent
<1> DEFINE P == <<x[1], Own[x[2]]>>
<1>17. x[1] \in Procs /\ Own[x[2]] \in Procs /\ P \in Procs \X Procs
  BY FanInFacts
<1>18. /\ \A pq \in Procs \X Procs : pq # P => net'[pq] = net[pq]
       /\ net'[P] = Append(net[P], Msg(x))
  BY <1>10, <1>17 DEF EngineInv, EngineTypes
<1> HIDE DEF P
<1>19. net[P] \in Seq(Msgs) /\ Len(net[P]) \in Nat /\ Msg(x) \in Msgs
  BY <1>17, MsgFacts DEF MessageInv, P
<1>20. /\ Len(net'[P]) = Len(net[P]) + 1 /\ net'[P][Len(net[P]) + 1] = Msg(x)
       /\ \A i \in 1 .. Len(net[P]) : net'[P][i] = net[P][i]
       /\ net'[P] \in Seq(Msgs)
  <2> DEFINE s == net[P]
             m == Msg(x)
  <2>1. s \in Seq(Msgs) /\ m \in Msgs /\ net'[P] = Append(s, m)
    BY <1>18, <1>19
  <2> HIDE DEF s, m
  <2>2. /\ Len(Append(s, m)) = Len(s) + 1 /\ Append(s, m)[Len(s) + 1] = m
        /\ \A i \in 1 .. Len(s) : Append(s, m)[i] = s[i]
        /\ Append(s, m) \in Seq(Msgs)
    BY <2>1, AppendProperties
  <2> QED
    BY <2>1, <2>2 DEF s, m
<1>21. 1 .. Len(net'[P]) = (1 .. Len(net[P])) \cup {Len(net[P]) + 1}
  BY <1>19, <1>20
<1>22. x \in RecvsOf(Own[x[2]])
  BY RecvFacts
<1>23. MessageInv'
  <2>1. \A u \in Threads : held'[u] # NoMsg <=> pc'[u] \in {"add", "dec"}
    BY <1>1, <1>10, <1>11 DEF MessageInv, threadVars
  <2>2. ASSUME NEW q \in Procs, NEW p \in Procs
        PROVE  /\ net'[<<q, p>>] \in Seq(Msgs)
               /\ \A i \in 1 .. Len(net'[<<q, p>>]) :
                     \E y \in RecvsOf(p) : y[1] = q /\ net'[<<q, p>>][i] = Msg(y)
    <3>1. CASE <<q, p>> = P
      <4>1. q = x[1] /\ p = Own[x[2]]
        BY <3>1 DEF P
      <4>2. \A i \in 1 .. Len(net[P]) : \E y \in RecvsOf(p) : y[1] = q /\ net[P][i] = Msg(y)
        BY <3>1 DEF MessageInv
      <4>3. \A i \in 1 .. Len(net'[P]) : \E y \in RecvsOf(p) : y[1] = q /\ net'[P][i] = Msg(y)
        BY <1>20, <1>21, <1>22, <4>1, <4>2
      <4> QED
        BY <1>20, <3>1, <4>3
    <3>2. CASE <<q, p>> # P
      <4>1. net'[<<q, p>>] = net[<<q, p>>]
        BY <1>18, <3>2
      <4> QED
        BY <4>1 DEF MessageInv
    <3> QED
      BY <3>1, <3>2
  <2>3. UNCHANGED <<recvreq, rcoeftab, held>>
    BY <1>10 DEF threadVars
  <2> QED
    BY <2>1, <2>2, <2>3 DEF MessageInv
<1>24. ASSUME NEW y \in FanIns
       PROVE  /\ InNet(y)' <=> InNet(y) \/ y = x
              /\ InBuffer(y)' <=> InBuffer(y)
              /\ Taking(y)' <=> Taking(y)
              /\ Adding(y)' <=> Adding(y)
  <2>1. InNet(y)' <=> InNet(y) \/ y = x
    <3>1. CASE <<y[1], Own[y[2]]>> = P
      <4>1. InNet(y)' <=> \E i \in 1 .. Len(net'[P]) : net'[P][i] = Msg(y)
        BY <3>1 DEF InNet, Channel
      <4>2. InNet(y) <=> \E i \in 1 .. Len(net[P]) : net[P][i] = Msg(y)
        BY <3>1 DEF InNet, Channel
      <4>3. Msg(x) = Msg(y) <=> y = x
        BY MsgFacts
      <4> QED
        BY <1>20, <1>21, <4>1, <4>2, <4>3
    <3>2. CASE <<y[1], Own[y[2]]>> # P
      <4>1. y # x
        BY <3>2 DEF P
      <4>2. <<y[1], Own[y[2]]>> \in Procs \X Procs
        BY FanInFacts
      <4>3. Channel(y)' = Channel(y)
        BY <1>18, <3>2, <4>2 DEF Channel
      <4> QED
        BY <4>1, <4>3 DEF InNet
    <3> QED
      BY <3>1, <3>2
  <2>2. InBuffer(y)' <=> InBuffer(y)
    BY <1>10 DEF InBuffer
  <2>3. UNCHANGED held
    BY <1>10 DEF threadVars
  <2>4. \A u \in Threads : pc'[u] = "add" <=> pc[u] = "add"
    BY <1>1, <1>11
  <2> QED
    BY <2>1, <2>2, <2>3, <2>4 DEF Taking, Adding
<1>25. ComingKept
  BY <1>8, <1>16, <1>24 DEF ComingKept, Coming
<1>26. OnePlaceInv'
  <2>1. ASSUME NEW y \in FanIns
        PROVE  \A i, j \in 1 .. Len(Channel(y)') : Channel(y)'[i] = Msg(y) /\ Channel(y)'[j] = Msg(y) => i = j
    <3>1. CASE <<y[1], Own[y[2]]>> = P
      <4>1. Channel(y) = net[P] /\ Channel(y)' = net'[P]
        BY <3>1 DEF Channel
      <4>2. \A i, j \in 1 .. Len(net[P]) : net[P][i] = Msg(y) /\ net[P][j] = Msg(y) => i = j
        BY <4>1 DEF OnePlaceInv
      <4>3. y = x => \A i \in 1 .. Len(net[P]) : net[P][i] # Msg(y)
        BY <1>8, <4>1 DEF OnePlaceInv, InNet
      <4>4. Msg(x) = Msg(y) <=> y = x
        BY MsgFacts
      <4>5. ASSUME NEW i \in 1 .. Len(net'[P]), NEW j \in 1 .. Len(net'[P]),
                   net'[P][i] = Msg(y), net'[P][j] = Msg(y)
            PROVE  i = j
        <5>1. CASE y = x
          <6>1. \A k \in 1 .. Len(net'[P]) : net'[P][k] = Msg(y) => k = Len(net[P]) + 1
            BY <1>20, <1>21, <4>3, <5>1
          <6> QED
            BY <4>5, <6>1
        <5>2. CASE y # x
          <6>1. i \in 1 .. Len(net[P]) /\ j \in 1 .. Len(net[P])
            BY <1>20, <1>21, <4>4, <4>5, <5>2
          <6> QED
            BY <1>20, <4>2, <4>5, <6>1
        <5> QED
          BY <5>1, <5>2
      <4> QED
        BY <4>1, <4>5
    <3>2. CASE <<y[1], Own[y[2]]>> # P
      <4>1. <<y[1], Own[y[2]]>> \in Procs \X Procs
        BY FanInFacts
      <4>2. Channel(y)' = Channel(y)
        BY <1>18, <3>2, <4>1 DEF Channel
      <4> QED
        BY <4>2 DEF OnePlaceInv
    <3> QED
      BY <3>1, <3>2
  <2> QED
    BY <1>8, <1>16, <1>24, <2>1 DEF OnePlaceInv
<1>27. PhasesKept /\ UNCHANGED <<runs, got, fanin, phase, todo, ctrbcnt>>
  BY <1>1 DEF PhasesKept, factoVars, schedVars
<1>28. IncomingInv'
  BY <1>10, <1>25, <1>27, IncomingSame
<1>29. CounterInv'
  BY <1>15, <1>25, <1>27, CounterSame DEF ComingKept
<1>30. GotInv'
  BY <1>15, <1>24, <1>25, <1>27, GotSame DEF ComingKept
<1>31. ReadyInv'
  BY <1>15, <1>25, <1>27, ReadySame DEF ComingKept
<1>32. FanInInv'
  <2>1. ASSUME NEW u \in Threads, pc'[u] = "gemm" PROVE fanin'[Target(u)'] # <<>>
    BY <1>11, <1>27, <2>1 DEF FanInInv, Target, NextEdge
  <2>2. \A y : Content(y)' = Content(y)
    BY <1>27 DEF Content
  <2>3. \A y \in FanIns : Unsent(y)' => Unsent(y)
    BY <1>8, <1>16
  <2>4. ASSUME NEW y \in FanIns, NEW f \in Contribs(y) \cap UnsentEdges', NEW g \in Contribs(y) \cap UnsentEdges',
               f \notin LeftEdges'
        PROVE  g = f
    BY <1>15, <2>4 DEF FanInInv
  <2> QED
    BY <1>15, <1>27, <2>1, <2>2, <2>3, <2>4 DEF FanInInv
<1>33. SendInv'
  <2>1. \A y \in FanIns : Pending(y)' <=> Pending(y) \/ y = x
    BY <1>9, <1>13, IsendPending
  <2>2. \A u \in Threads : posted'[u] = IF u = t THEN x ELSE posted[u]
    BY <1>9 DEF EngineInv, EngineTypes, Isend
  <2>3. \A u \in Threads : Target(u)' = Target(u)
    BY <1>27 DEF Target, NextEdge
  <2>4. \A u \in Threads : posted'[u] = IF pc'[u] = "register" THEN Target(u)' ELSE NoIdx
    BY <1>3, <1>11, <2>2, <2>3 DEF SendInv
  <2>5. \A y \in FanIns : Unsent(y)' =>
            /\ \A p \in Procs : \A i \in 1 .. Len(reqtab'[p]) : reqtab'[p][i].idx # y
            /\ \A u \in Threads : posted'[u] # y
    BY <1>10, <1>16, <2>2 DEF SendInv
  <2>6. \A y \in FanIns : (Unsent(y)' \/ Pending(y)') <=> (Unsent(y) \/ Pending(y))
    BY <1>8, <1>16, <2>1
  <2>7. \A p \in Procs : {y \in FanInsOf(p) : Unsent(y)' \/ Pending(y)'} = {y \in FanInsOf(p) : Unsent(y) \/ Pending(y)}
    BY <2>6 DEF FanInsOf
  <2> QED
    BY <1>10, <1>27, <2>4, <2>5, <2>6, <2>7 DEF SendInv
<1> QED
  BY <1>12, <1>14, <1>23, <1>26, <1>28, <1>29, <1>30, <1>31, <1>32, <1>33

LEMMA RegisterFaninInv == ASSUME FactoInv, NEW t \in Threads, RegisterFanin(t) PROVE FactoInv'
<1> USE DEF FactoInv
<1> DEFINE e == NextEdge(t)
<1>1. /\ pc[t] = "register" /\ Register(t) /\ Goto(t, "update")
      /\ todo' = [todo EXCEPT ![t] = @ \ {e}]
      /\ UNCHANGED <<schedVars, runs, got, fanin, phase>>
  BY DEF RegisterFanin
<1>2. todo[t] # {} /\ Target(t) \in FanIns /\ posted[t] = Target(t)
  BY <1>1 DEF StaticInv, AtTask, Working, SendInv
<1>3. posted[t] # NoIdx
  BY <1>2, FanInFacts
<1>4. /\ e \notin UnsentEdges /\ LeftEdges \subseteq UnsentEdges /\ FreshEdges \subseteq LeftEdges
      /\ Target(t)[1] = ProcOf(t) /\ phase[ProcOf(t)] = "tasks" /\ e \in Contribs(Target(t))
      /\ \A y \in FanIns : e \in Contribs(y) => y = Target(t)
  BY <1>1, <1>2, AtEdge, EdgesNested, FanInsLocal
<1>5. pc'[t] = "update" /\ (\A u \in Threads : u # t => pc'[u] = pc[u]) /\ pc' = [u \in Threads |-> pc'[u]]
  BY <1>1, GotoFacts
<1>6. StaticInv'
  BY <1>1, StaticDrop DEF Working, schedVars
<1>7. EngineInv'
  BY <1>1, <1>3, RegisterInv DEF Communicating
<1>8. EdgesKept
  <2>1. /\ FreshEdges' = FreshEdges \ {e} /\ LeftEdges' = LeftEdges \ {e}
        /\ UnsentEdges' = UnsentEdges \ {e}
    BY <1>1, <1>2, <1>5, EdgesDrop DEF FreshEdges, LeftEdges, UnsentEdges
  <2> QED
    BY <1>4, <2>1 DEF EdgesKept
<1>9. UNCHANGED <<incoming, outgoing, threadVars, mpiVars>>
  BY <1>1 DEF Register
<1>10. MessageInv' /\ OnePlaceInv' /\ IncomingInv' /\ CounterInv' /\ GotInv' /\ ReadyInv'
  <2>1. MessagesKept
    BY <1>9 DEF MessagesKept, BufferFull, threadVars, mpiVars
  <2>2. LabelsKept /\ PhasesKept
    BY <1>1, <1>5 DEF LabelsKept, PhasesKept
  <2> QED
    BY <1>1, <1>8, <1>9, <2>1, <2>2, QuietStep DEF schedVars
<1>11. \A u \in Threads : u # t => todo'[u] = todo[u]
  BY <1>1 DEF StaticInv, StaticTypes
<1>12. FanInInv'
  BY <1>1, <1>5, <1>8, <1>11, FanInSame
<1>13. SendInv'
  <2>1. \A y \in FanIns : Unsent(y)' <=> Unsent(y)
    BY <1>8 DEF EdgesKept, Unsent
  <2>2. /\ \A q \in Procs : \A i \in 1 .. Len(reqtab'[q]) :
              \/ q = ProcOf(t) /\ reqtab'[q][i].idx = posted[t]
              \/ \E j \in 1 .. Len(reqtab[q]) : reqtab'[q][i].idx = reqtab[q][j].idx
        /\ \A y \in FanIns : Pending(y)' <=> Pending(y)
    BY <1>1, <1>3, RegisterPending
  <2>3. \A u \in Threads : posted'[u] = IF u = t THEN NoIdx ELSE posted[u]
    BY <1>1 DEF EngineInv, EngineTypes, Register
  <2>4. \A u \in Threads : posted'[u] = IF pc'[u] = "register" THEN Target(u)' ELSE NoIdx
    <3>1. \A u \in Threads : u # t => Target(u)' = Target(u)
      BY <1>11 DEF Target, NextEdge
    <3> QED
      BY <1>5, <2>3, <3>1 DEF SendInv
  <2>5. \A q \in Procs : \A i \in 1 .. Len(reqtab'[q]) : reqtab'[q][i].idx \in FanInsOf(q) \cup {NoIdx}
    <3>1. posted[t] \in FanInsOf(ProcOf(t))
      BY <1>2, <1>4 DEF FanInsOf
    <3> QED
      BY <2>2, <3>1 DEF SendInv
  <2>6. \A y \in FanIns : Unsent(y)' =>
            /\ \A q \in Procs : \A i \in 1 .. Len(reqtab'[q]) : reqtab'[q][i].idx # y
            /\ \A u \in Threads : posted'[u] # y
    <3> SUFFICES ASSUME NEW y \in FanIns, Unsent(y)
                 PROVE  /\ \A q \in Procs : \A i \in 1 .. Len(reqtab'[q]) : reqtab'[q][i].idx # y
                        /\ \A u \in Threads : posted'[u] # y
      BY <2>1
    <3>1. y # posted[t] /\ y # NoIdx
      BY FanInFacts DEF SendInv
    <3> QED
      BY <2>2, <2>3, <3>1 DEF SendInv
  <2>7. \A p \in Procs : {y \in FanInsOf(p) : Unsent(y)' \/ Pending(y)'} = {y \in FanInsOf(p) : Unsent(y) \/ Pending(y)}
    BY <2>1, <2>2 DEF FanInsOf
  <2>8. \A p \in Procs : IF phase'[p] = "start" THEN outgoing'[p] = 0
            ELSE outgoing'[p] >= Cardinality({y \in FanInsOf(p) : Unsent(y)' \/ Pending(y)'})
    BY <1>1, <1>9, <2>7 DEF SendInv
  <2>9. \A y \in FanIns : fanin'[y] # <<>> => Unsent(y)' \/ Pending(y)'
    BY <1>1, <2>1, <2>2 DEF SendInv
  <2>10. \A p \in Procs : phase'[p] \in {"start", "exit"} => reqtab'[p] = <<>>
    <3>1. \A p \in Procs : p # ProcOf(t) => reqtab'[p] = reqtab[p]
      BY <1>1 DEF EngineInv, EngineTypes, Register
    <3> QED
      BY <1>1, <1>4, <3>1 DEF SendInv
  <2> QED
    BY <2>4, <2>5, <2>6, <2>8, <2>9, <2>10 DEF SendInv
<1> QED
  BY <1>6, <1>7, <1>10, <1>12, <1>13

-----------------------------------------------------------------------------
(* One lemma for each step: the communications.                            *)

LEMMA ProgressInv ==
    ASSUME FactoInv, NEW t \in Threads, Progress(t, Back), UNCHANGED <<schedVars, factoVars>>
    PROVE  FactoInv'
<1> USE DEF FactoInv
<1>1. Back = "wait"
  BY StaticAssumption DEF Back
<1>2. /\ pc[t] \in {"elect", "snapshot", "test", "handle", "leave"}
      /\ \E l \in {"wait", "snapshot", "test", "handle", "leave"} : Goto(t, l)
  BY <1>1 DEF Progress, Elect, Snapshot, Test, Pack, Leave
<1>3. PICK l \in {"wait", "snapshot", "test", "handle", "leave"} : Goto(t, l)
  BY <1>2
<1>4. pc'[t] = l /\ (\A u \in Threads : u # t => pc'[u] = pc[u]) /\ pc' = [u \in Threads |-> pc'[u]]
  BY <1>3, GotoFacts
<1>5. StaticInv'
  BY <1>2, <1>3, StaticGoto DEF Looping, staticVars, schedVars, factoVars
<1>6. EngineInv'
  BY <1>1, ElectInv, SnapshotInv, TestInv, PackInv, LeaveInv DEF Progress, Communicating
<1>7. EdgesKept
  BY <1>2, <1>4, EdgesKeptOutside DEF Working, factoVars
<1>8. UNCHANGED <<incoming, outgoing, posted, held, rcoeftab, sending, net>>
  BY DEF Progress, Elect, Snapshot, Test, Pack, Leave, tableVars, mpiVars
<1>9. MessagesKept
  <2>1. CASE UNCHANGED recvreq
    BY <1>8, <2>1 DEF MessagesKept, BufferFull
  <2>2. CASE Test(t)
    <3>1. ProcOf(t) \in Procs
      BY ThreadFacts
    <3>2. /\ \A q \in Procs : q # ProcOf(t) => recvreq'[q] = recvreq[q]
          /\ \/ recvreq'[ProcOf(t)] = recvreq[ProcOf(t)]
             \/ recvreq'[ProcOf(t)] = "inactive" /\ recvreq[ProcOf(t)] = "done"
      BY <2>2, <3>1 DEF EngineInv, EngineTypes, Test, Completed
    <3> QED
      BY <1>8, <3>2 DEF MessagesKept, BufferFull
  <2> QED
    BY <2>1, <2>2 DEF Progress, Elect, Snapshot, Pack, Leave, mpiVars
<1>10. MessageInv' /\ OnePlaceInv' /\ IncomingInv' /\ CounterInv' /\ GotInv' /\ ReadyInv'
  <2>1. LabelsKept /\ PhasesKept
    BY <1>2, <1>4 DEF LabelsKept, PhasesKept, factoVars
  <2> QED
    BY <1>7, <1>8, <1>9, <2>1, QuietStep DEF schedVars, factoVars
<1>11. FanInInv'
  BY <1>4, <1>7, FanInSame DEF factoVars
<1>12. SendInv'
  <2>1. \A y \in FanIns : Unsent(y)' <=> Unsent(y)
    BY <1>7 DEF EdgesKept, Unsent
  <2>2. \A u \in Threads : /\ pc'[u] = "register" <=> pc[u] = "register"
                           /\ pc'[u] = "register" => todo'[u] = todo[u]
    BY <1>2, <1>4 DEF factoVars
  <2>3. UNCHANGED <<fanin, phase>>
    BY DEF factoVars
  <2>4. CASE UNCHANGED <<reqtab, indexes>>
    BY <1>6, <1>8, <2>1, <2>2, <2>3, <2>4, SendSame DEF EngineInv
  <2>5. CASE TablesShrink /\ \A y \in FanIns : Pending(y)' <=> Pending(y)
    BY <1>6, <1>8, <2>1, <2>2, <2>3, <2>5, SendKept DEF EngineInv
  <2>6. Elect(t, Back) \/ Snapshot(t) \/ Leave(t, Back) => UNCHANGED <<reqtab, indexes>>
    BY DEF Elect, Snapshot, Leave, tableVars
  <2> QED
    BY <2>4, <2>5, <2>6, TestPending, PackPending DEF Progress
<1> QED
  BY <1>5, <1>6, <1>10, <1>11, <1>12

(* The message in the buffer of a process.                                 *)
LEMMA BufferFacts ==
    ASSUME MessageInv, NEW p \in Procs, BufferFull(p), NEW x \in RecvsOf(p), rcoeftab[p] = Msg(x)
    PROVE  \A y \in FanIns : Own[y[2]] = p => (InBuffer(y) <=> y = x)
BY MsgFacts, RecvFacts DEF InBuffer, BufferFull

LEMMA HandleRecvInv == ASSUME FactoInv, NEW t \in Threads, HandleRecv(t) PROVE FactoInv'
<1> USE DEF FactoInv
<1> DEFINE p == ProcOf(t)
<1>1. /\ TakeMessage(t) /\ Goto(t, "add") /\ UNCHANGED <<schedVars, factoVars>>
      /\ pc[t] = "handle" /\ indexes[t] # {} /\ Handled(t) = NoIdx
  BY DEF HandleRecv, TakeMessage, Handles
<1>2. p \in Procs /\ t \in ThreadsOf(p)
  BY ThreadFacts
<1>3. pc'[t] = "add" /\ (\A u \in Threads : u # t => pc'[u] = pc[u]) /\ pc' = [u \in Threads |-> pc'[u]]
  BY <1>1, GotoFacts
<1>4. held[t] = NoMsg /\ commtid[p] = t
  BY <1>1 DEF EngineInv, Counted, CommTid, Elected, Communicating
<1>5. recvreq[p] = "inactive" /\ BufferFull(p)
  <2>1. Index(t) \in indexes[t] /\ reqtab[p][Index(t)].idx = NoIdx
    BY <1>1, HandledFacts DEF Handled
  <2> QED
    BY <1>2, <1>4, <2>1 DEF EngineInv, Reception, BufferFull
<1>6. PICK x \in RecvsOf(p) : rcoeftab[p] = Msg(x)
  BY <1>2, <1>5 DEF MessageInv, BufferFull
<1>7. x \in FanIns /\ Own[x[2]] = p /\ Msg(x) # NoMsg
  BY <1>6, RecvFacts, MsgFacts
<1>8. StaticInv'
  BY <1>1, StaticGoto DEF Looping, staticVars, schedVars, factoVars
<1>9. EngineInv'
  BY <1>1, <1>6, <1>7, TakeMessageInv DEF Communicating
<1>10. EdgesKept
  BY <1>1, <1>3, EdgesKeptOutside DEF Working, factoVars
<1>11. /\ \A u \in Threads : held'[u] = IF u = t THEN Msg(x) ELSE held[u]
       /\ \A q \in Procs : incoming'[q] = IF q = p THEN incoming[p] - 1 ELSE incoming[q]
       /\ \A q \in Procs : q # p => recvreq'[q] = recvreq[q]
       /\ recvreq'[p] \in {"active", "freed"}
       /\ UNCHANGED <<outgoing, posted, indexes, rcoeftab, net>>
  BY <1>1, <1>2, <1>6 DEF EngineInv, EngineTypes, TakeMessage
<1>12. \A y \in FanIns : Unsent(y)' <=> Unsent(y)
  BY <1>10 DEF EdgesKept, Unsent
<1>13. ASSUME NEW y \in FanIns
       PROVE  /\ InNet(y)' <=> InNet(y)
              /\ InBuffer(y)' <=> InBuffer(y) /\ y # x
              /\ Taking(y)' <=> Taking(y) \/ y = x
              /\ Adding(y)' <=> Adding(y) \/ y = x
  <2>1. InNet(y)' <=> InNet(y)
    BY <1>11 DEF InNet, Channel
  <2>2. InBuffer(y)' <=> InBuffer(y) /\ y # x
    <3>1. CASE Own[y[2]] = p
      <4>1. InBuffer(y) <=> y = x
        BY <1>2, <1>5, <1>6, <3>1, BufferFacts
      <4>2. ~ InBuffer(y)'
        BY <1>11, <3>1 DEF InBuffer
      <4> QED
        BY <4>1, <4>2
    <3>2. CASE Own[y[2]] # p
      <4>1. Own[y[2]] \in Procs
        BY FanInFacts
      <4> QED
        BY <1>7, <1>11, <3>2, <4>1 DEF InBuffer
    <3> QED
      BY <3>1, <3>2
  <2>3. held[t] # Msg(y) /\ (Msg(x) = Msg(y) <=> y = x)
    BY <1>4, <1>7, MsgFacts
  <2>4. Taking(y)' <=> Taking(y) \/ y = x
    BY <1>11, <2>3 DEF Taking
  <2>5. Adding(y)' <=> Adding(y) \/ y = x
    BY <1>3, <1>11, <2>3 DEF Adding
  <2> QED
    BY <2>1, <2>2, <2>4, <2>5
<1>14. InBuffer(x) /\ ~ Unsent(x) /\ ~ InNet(x) /\ ~ Taking(x)
  <2>1. InBuffer(x)
    BY <1>5, <1>6, <1>7 DEF InBuffer, BufferFull
  <2> QED
    BY <1>7, <2>1 DEF OnePlaceInv
<1>15. \A y \in FanIns : Coming(y)' <=> Coming(y) /\ y # x
  BY <1>12, <1>13, <1>14 DEF Coming
<1>16. Coming(x)
  BY <1>14 DEF Coming
<1>17. UNCHANGED <<ctrbcnt, todo, runs, got, fanin, phase>>
  BY <1>1 DEF schedVars, factoVars
<1>18. \A y \in FanIns : (Coming(y) \/ Taking(y))' <=> (Coming(y) \/ Taking(y))
  BY <1>13, <1>15, <1>16
<1>19. MessageInv'
  <2>1. \A u \in Threads : held'[u] # NoMsg <=> pc'[u] \in {"add", "dec"}
    BY <1>3, <1>7, <1>11 DEF MessageInv
  <2>2. \A u \in Threads : held'[u] # NoMsg => \E y \in RecvsOf(ProcOf(u)) : held'[u] = Msg(y)
    BY <1>6, <1>11 DEF MessageInv
  <2>3. \A q \in Procs : recvreq'[q] \in {"done", "inactive"} => \E y \in RecvsOf(q) : rcoeftab'[q] = Msg(y)
    BY <1>11 DEF MessageInv
  <2>4. UNCHANGED net
    BY <1>11
  <2> QED
    BY <2>1, <2>2, <2>3, <2>4 DEF MessageInv
<1>20. OnePlaceInv'
  <2>1. ASSUME NEW y \in FanIns
        PROVE  /\ Unsent(y)' => ~ InNet(y)' /\ ~ InBuffer(y)' /\ ~ Taking(y)'
               /\ InNet(y)' => ~ InBuffer(y)' /\ ~ Taking(y)'
               /\ InBuffer(y)' => ~ Taking(y)'
    BY <1>12, <1>13, <1>14 DEF OnePlaceInv
  <2>2. \A y : Channel(y)' = Channel(y)
    BY <1>11 DEF Channel
  <2> QED
    BY <2>1, <2>2 DEF OnePlaceInv
<1>21. IncomingInv'
  <2>1. phase[p] # "start"
    BY <1>1 DEF StaticInv, Placed
  <2>2. ASSUME NEW q \in Procs, q # p
        PROVE  {y \in RecvsOf(q) : Coming(y)'} = {y \in RecvsOf(q) : Coming(y)}
    BY <1>7, <1>15, <2>2, RecvFacts
  <2>3. {y \in RecvsOf(p) : Coming(y)'} = {y \in RecvsOf(p) : Coming(y)} \ {x}
    BY <1>15, RecvFacts
  <2>4. /\ x \in {y \in RecvsOf(p) : Coming(y)} /\ IsFiniteSet({y \in RecvsOf(p) : Coming(y)})
        /\ Cardinality({y \in RecvsOf(p) : Coming(y)}) \in Nat
    <3>1. {y \in RecvsOf(p) : Coming(y)} \subseteq FanIns
      BY RecvFacts
    <3> QED
      BY <1>16, <3>1, FanInsFinite
  <2>5. incoming'[p] = Cardinality({y \in RecvsOf(p) : Coming(y)'})
    <3> DEFINE S == {y \in RecvsOf(p) : Coming(y)}
    <3>1. incoming[p] = Cardinality(S)
      BY <1>2, <2>1 DEF IncomingInv
    <3>2. x \in S /\ IsFiniteSet(S) /\ {y \in RecvsOf(p) : Coming(y)'} = S \ {x}
      BY <2>3, <2>4
    <3> HIDE DEF S
    <3>3. Cardinality(S \ {x}) = Cardinality(S) - 1
      BY <3>2, FS_RemoveElement
    <3> QED
      BY <1>2, <1>11, <3>1, <3>2, <3>3
  <2>6. ASSUME NEW q \in Procs, q # p
        PROVE  IF phase'[q] = "start" THEN incoming'[q] = 0 /\ \A y \in RecvsOf(q) : Coming(y)'
               ELSE incoming'[q] = Cardinality({y \in RecvsOf(q) : Coming(y)'})
    <3>1. \A y \in RecvsOf(q) : Coming(y)' <=> Coming(y)
      BY <1>7, <1>15, <2>6, RecvFacts
    <3> QED
      BY <1>11, <1>17, <2>2, <2>6, <3>1 DEF IncomingInv
  <2>7. phase'[p] # "start"
    BY <1>17, <2>1
  <2> QED
    BY <2>5, <2>6, <2>7 DEF IncomingInv
<1>22. CounterInv'
  BY <1>10, <1>17, <1>18, CounterSame DEF EdgesKept, PhasesKept
<1>23. GotInv'
  <2>1. \A y \in FanIns : (Coming(y) \/ Adding(y))' <=> (Coming(y) \/ Adding(y))
    BY <1>13, <1>15, <1>16
  <2> QED
    BY <1>10, <1>17, <2>1, GotSame DEF EdgesKept
<1>24. ReadyInv'
  BY <1>10, <1>17, <1>18, ReadySame DEF EdgesKept
<1>25. FanInInv'
  BY <1>3, <1>10, <1>17, FanInSame
<1>26. SendInv'
  <2>1. TablesShrink /\ \A y \in FanIns : Pending(y)' <=> Pending(y)
    BY <1>1, TakeMessagePending
  <2> QED
    BY <1>1, <1>3, <1>9, <1>11, <1>12, <1>17, <2>1, SendKept DEF EngineInv
<1> QED
  BY <1>8, <1>9, <1>19, <1>20, <1>21, <1>22, <1>23, <1>24, <1>25, <1>26

LEMMA AddInv == ASSUME FactoInv, NEW t \in Threads, Add(t) PROVE FactoInv'
<1> USE DEF FactoInv
<1>1. /\ pc[t] = "add" /\ got' = [e \in Edges |-> got[e] + IF e \in held[t].data THEN 1 ELSE 0]
      /\ Goto(t, "dec") /\ UNCHANGED <<engineVars, schedVars, todo, runs, fanin, phase>>
  BY DEF Add
<1>2. pc'[t] = "dec" /\ (\A u \in Threads : u # t => pc'[u] = pc[u]) /\ pc' = [u \in Threads |-> pc'[u]]
  BY <1>1, GotoFacts
<1>3. PICK x \in RecvsOf(ProcOf(t)) : held[t] = Msg(x)
  BY <1>1 DEF MessageInv
<1>4. x \in FanIns /\ held[t].data = Contribs(x) /\ Taking(x) /\ Adding(x)
  BY <1>1, <1>3, RecvFacts, MsgFacts DEF Taking, Adding
<1>5. StaticInv'
  BY <1>1, StaticGoto DEF Looping, staticVars, schedVars
<1>6. EngineInv'
  BY <1>1, <1>2, OtherInv DEF Communicating
<1>7. EdgesKept
  BY <1>1, <1>2, EdgesKeptOutside DEF Working
<1>8. \A y \in FanIns : Unsent(y)' <=> Unsent(y)
  BY <1>7 DEF EdgesKept, Unsent
<1>9. UNCHANGED <<held, net, rcoeftab, recvreq, posted, reqtab, indexes, incoming, outgoing, ctrbcnt>>
  BY <1>1 DEF engineVars, tableVars, threadVars, mpiVars, schedVars
<1>10. \A y \in FanIns : /\ InNet(y)' <=> InNet(y)
                         /\ InBuffer(y)' <=> InBuffer(y)
                         /\ Taking(y)' <=> Taking(y)
                         /\ Coming(y)' <=> Coming(y)
  BY <1>8, <1>9 DEF InNet, InBuffer, Taking, Coming, Channel
<1>11. ComingKept /\ PhasesKept
  BY <1>1, <1>10 DEF ComingKept, PhasesKept
<1>12. MessageInv'
  <2>1. \A u \in Threads : held'[u] # NoMsg <=> pc'[u] \in {"add", "dec"}
    BY <1>1, <1>2, <1>9 DEF MessageInv
  <2> QED
    BY <1>9, <2>1 DEF MessageInv
<1>13. OnePlaceInv'
  <2>1. \A y : Channel(y)' = Channel(y)
    BY <1>9 DEF Channel
  <2> QED
    BY <1>8, <1>10, <2>1 DEF OnePlaceInv
<1>14. IncomingInv'
  BY <1>9, <1>11, IncomingSame
<1>15. CounterInv'
  BY <1>7, <1>9, <1>11, CounterSame DEF ComingKept, EdgesKept
<1>16. ReadyInv'
  BY <1>1, <1>7, <1>11, ReadySame DEF ComingKept, EdgesKept
<1>17. FanInInv'
  BY <1>1, <1>2, <1>7, FanInSame
<1>18. SendInv'
  BY <1>1, <1>2, <1>6, <1>8, <1>9, SendSame DEF EngineInv
<1>19. ~ Coming(x)
  BY <1>4 DEF OnePlaceInv, Coming
<1>20. \A y \in FanIns : Adding(y)' <=> Adding(y) /\ y # x
  <2> SUFFICES ASSUME NEW y \in FanIns PROVE Adding(y)' <=> Adding(y) /\ y # x
    OBVIOUS
  <2>1. CASE y = x
    <3>1. \A u \in Threads : held[u] = Msg(x) => u = t
      BY <1>3, <1>4, OneTaker
    <3> QED
      BY <1>2, <1>9, <2>1, <3>1 DEF Adding
  <2>2. CASE y # x
    <3>1. held[t] # Msg(y)
      BY <1>3, <1>4, <2>2, MsgFacts
    <3> QED
      BY <1>2, <1>9, <2>2, <3>1 DEF Adding
  <2> QED
    BY <2>1, <2>2
<1>21. GotInv'
  <2>1. \A e \in Edges : got'[e] = got[e] + IF e \in Contribs(x) THEN 1 ELSE 0
    BY <1>1, <1>4
  <2>2. got' \in [Edges -> Nat]
    <3>1. got' = [e \in Edges |-> got'[e]]
      BY <1>1
    <3>2. \A e \in Edges : got[e] \in Nat
      BY DEF GotInv
    <3>3. \A e \in Edges : got'[e] \in Nat
      BY <2>1, <3>2
    <3> QED
      BY <3>1, <3>3
  <2>3. ASSUME NEW e \in Edges, Own[Src[e]] = Own[Dst[e]]
        PROVE  got'[e] = IF e \in FreshEdges' THEN 0 ELSE 1
    <3>1. e \notin Contribs(x)
      BY <1>4, <2>3, EdgeFacts, FanInsLocal
    <3>2. got[e] = IF e \in FreshEdges THEN 0 ELSE 1
      BY <2>3 DEF GotInv
    <3> QED
      BY <1>7, <2>1, <3>1, <3>2 DEF EdgesKept
  <2>4. ASSUME NEW y \in FanIns, NEW e \in Contribs(y)
        PROVE  got'[e] = IF Coming(y)' \/ Adding(y)' THEN 0 ELSE 1
    <3>1. e \in Edges /\ y \in Local /\ y = Home(e)
      BY EdgeFacts, FanInsLocal
    <3>2. got[e] = IF Coming(y) \/ Adding(y) THEN 0 ELSE 1
      BY DEF GotInv
    <3>3. CASE y = x
      BY <1>4, <1>10, <1>19, <1>20, <2>1, <3>1, <3>2, <3>3
    <3>4. CASE y # x
      <4>1. e \notin Contribs(x)
        BY <1>4, <3>1, <3>4, EdgeFacts, FanInsLocal
      <4> QED
        BY <1>10, <1>20, <2>1, <3>1, <3>2, <3>4, <4>1
    <3> QED
      BY <3>3, <3>4
  <2> QED
    BY <2>2, <2>3, <2>4 DEF GotInv
<1> QED
  BY <1>5, <1>6, <1>12, <1>13, <1>14, <1>15, <1>16, <1>17, <1>18, <1>21

LEMMA DecInv == ASSUME FactoInv, NEW t \in Threads, Dec(t) PROVE FactoInv'
<1> USE DEF FactoInv
<1> DEFINE p == ProcOf(t)
<1>1. /\ pc[t] = "dec" /\ DropMessage(t) /\ Goto(t, "handle")
      /\ ContributedByMessage(<<p, held[t].tag>>)
      /\ UNCHANGED <<pos, taskcnt, done, cur, factoVars>>
  BY DEF Dec, DropMessage
<1>2. p \in Procs
  BY ThreadFacts
<1>3. pc'[t] = "handle" /\ (\A u \in Threads : u # t => pc'[u] = pc[u]) /\ pc' = [u \in Threads |-> pc'[u]]
  BY <1>1, GotoFacts
<1>4. held[t] # NoMsg
  BY <1>1 DEF MessageInv
<1>5. PICK x \in RecvsOf(p) : held[t] = Msg(x)
  BY <1>4 DEF MessageInv
<1>6. PICK c \in Cblks : c = x[2]
  BY <1>5, RecvFacts, FanInFacts
<1>7. x \in FanIns /\ Own[c] = p /\ held[t].tag = c /\ Taking(x)
  BY <1>5, <1>6, RecvFacts, MsgFacts DEF Taking
<1>8. ctrbcnt' = [ctrbcnt EXCEPT ![<<Own[c], c>>] = @ - 1] /\ UNCHANGED queue
  BY <1>1, <1>7, StaticAssumption DEF ContributedByMessage, Contributed
<1>9. StaticInv'
  BY <1>1, <1>8, StaticGoto DEF Looping, staticVars, factoVars
<1>10. EngineInv'
  BY <1>1, <1>4, DropMessageInv
<1>11. EdgesKept
  BY <1>1, <1>3, EdgesKeptOutside DEF Working, factoVars
<1>12. \A y \in FanIns : Unsent(y)' <=> Unsent(y)
  BY <1>11 DEF EdgesKept, Unsent
<1>13. /\ UNCHANGED <<net, rcoeftab, recvreq, posted, reqtab, incoming, outgoing>>
       /\ UNCHANGED <<todo, runs, got, fanin, phase>>
       /\ \A u \in Threads : held'[u] = IF u = t THEN NoMsg ELSE held[u]
  BY <1>1 DEF DropMessage, tableVars, mpiVars, factoVars, EngineInv, EngineTypes
<1>14. \A y \in FanIns : Coming(y)' <=> Coming(y)
  BY <1>12, <1>13 DEF Coming, InNet, InBuffer, Channel
<1>15. ASSUME NEW y \in FanIns
       PROVE  (Taking(y)' <=> Taking(y) /\ y # x) /\ (Adding(y)' <=> Adding(y))
  <2>1. \A u \in Threads : held[u] = Msg(x) => u = t
    BY <1>5, <1>7, OneTaker
  <2>2. Msg(y) # NoMsg /\ (Msg(x) = Msg(y) <=> x = y)
    BY <1>7, MsgFacts
  <2>3. Taking(y)' <=> Taking(y) /\ y # x
    <3>1. CASE y = x
      BY <1>13, <2>1, <2>2, <3>1 DEF Taking
    <3>2. CASE y # x
      BY <1>5, <1>13, <2>2, <3>2 DEF Taking
    <3> QED
      BY <3>1, <3>2
  <2>4. Adding(y)' <=> Adding(y)
    BY <1>1, <1>3, <1>13, <2>2 DEF Adding
  <2> QED
    BY <2>3, <2>4
<1>16. ~ Coming(x)
  BY <1>7 DEF OnePlaceInv, Coming
<1>17. MessageInv'
  <2>1. \A u \in Threads : held'[u] # NoMsg <=> pc'[u] \in {"add", "dec"}
    BY <1>3, <1>13 DEF MessageInv
  <2>2. \A u \in Threads : held'[u] # NoMsg => \E y \in RecvsOf(ProcOf(u)) : held'[u] = Msg(y)
    BY <1>13 DEF MessageInv
  <2> QED
    BY <1>13, <2>1, <2>2 DEF MessageInv
<1>18. OnePlaceInv'
  <2>1. \A y : /\ Channel(y)' = Channel(y) /\ (InNet(y)' <=> InNet(y))
               /\ InBuffer(y)' <=> InBuffer(y)
    BY <1>13 DEF Channel, InNet, InBuffer
  <2> QED
    BY <1>12, <1>15, <2>1 DEF OnePlaceInv
<1>19. IncomingInv'
  <2>1. \A q \in Procs : {y \in RecvsOf(q) : Coming(y)'} = {y \in RecvsOf(q) : Coming(y)}
    BY <1>14, RecvFacts
  <2> QED
    BY <1>13, <1>14, <2>1, RecvFacts DEF IncomingInv
<1>20. CounterInv'
  <2>1. phase[p] # "start"
    BY <1>1 DEF StaticInv, Placed
  <2>2. <<Own[c], c>> \in Local \ FanIns
    BY FanInsLocal
  <2>3. ASSUME NEW d, d # c PROVE Awaited(d)' = Awaited(d)
    BY <1>6, <1>14, <1>15, <2>3, RecvFacts DEF Awaited
  <2>4. Awaited(c)' = Awaited(c) \ {x}
    BY <1>14, <1>15, <1>16, RecvFacts DEF Awaited
  <2>5. x \in Awaited(c) /\ Awaited(c) \subseteq FanIns
    BY <1>6, <1>7, RecvFacts DEF Awaited
  <2>6. IsFiniteSet(Awaited(c)) /\ Cardinality(Awaited(c)) \in Nat
    BY <2>5, FanInsFinite
  <2>7. /\ Cardinality(Awaited(c)') = Cardinality(Awaited(c)) - 1
        /\ Cardinality(Awaited(c)') \in Nat
    <3> DEFINE S == Awaited(c)
    <3>1. IsFiniteSet(S) /\ x \in S /\ Cardinality(S) \in Nat
      BY <2>5, <2>6
    <3> HIDE DEF S
    <3>2. Cardinality(S \ {x}) = Cardinality(S) - 1 /\ IsFiniteSet(S \ {x})
      BY <3>1, FS_RemoveElement
    <3>3. Cardinality(S \ {x}) \in Nat
      BY <3>2, FS_CardinalityType
    <3> QED
      BY <2>4, <3>2, <3>3 DEF S
  <2>8. /\ ctrbcnt \in [Local -> Nat]
        /\ \A y \in Local : ctrbcnt'[y] = IF y = <<Own[c], c>> THEN ctrbcnt[y] - 1 ELSE ctrbcnt[y]
    BY <1>8 DEF CounterInv
  <2> DEFINE A(y) == Cardinality(Contribs(y) \cap LeftEdges)
  <2>9. \A y : A(y) \in Nat /\ A(y)' = A(y)
    BY <1>11, EdgesFinite, EdgeFacts DEF EdgesKept
  <2>10. \A y \in Local : /\ Counter(y) = A(y) + IF y \in FanIns THEN 0 ELSE Cardinality(Awaited(y[2]))
                          /\ Counter(y)' = A(y) + IF y \in FanIns THEN 0 ELSE Cardinality(Awaited(y[2])')
    BY <1>11 DEF Counter, Awaited, EdgesKept
  <2> HIDE DEF A
  <2>11. ASSUME NEW y \in Local
         PROVE  /\ ctrbcnt'[y] = IF phase'[y[1]] = "start" THEN 0 ELSE Counter(y)'
                /\ ctrbcnt'[y] \in Nat
    <3>1. CASE y = <<Own[c], c>>
      <4>1. y[1] = p /\ y[2] = c /\ y \notin FanIns
        BY <1>7, <2>2, <3>1
      <4>2. Counter(y) = A(y) + Cardinality(Awaited(c)) /\ Counter(y)' = A(y) + Cardinality(Awaited(c)')
        BY <2>10, <4>1
      <4>3. ctrbcnt[y] = Counter(y)
        BY <2>1, <4>1 DEF CounterInv
      <4>4. ctrbcnt'[y] = Counter(y)' /\ Counter(y)' \in Nat
        BY <2>6, <2>7, <2>8, <2>9, <3>1, <4>2, <4>3
      <4> QED
        BY <1>13, <2>1, <4>1, <4>4
    <3>2. CASE y # <<Own[c], c>>
      <4>1. Counter(y)' = Counter(y)
        <5>1. y \in FanIns \/ y[2] # c
          BY <3>2, EdgeFacts
        <5> QED
          BY <2>3, <2>10, <5>1
      <4> QED
        BY <1>13, <2>8, <3>2, <4>1 DEF CounterInv
    <3> QED
      BY <3>1, <3>2
  <2>12. ctrbcnt' \in [Local -> Nat]
    <3>1. ctrbcnt' = [y \in Local |-> ctrbcnt'[y]]
      BY <1>8, <2>8
    <3> QED
      BY <2>11, <3>1
  <2> QED
    BY <2>11, <2>12 DEF CounterInv
<1>21. GotInv'
  <2>1. \A y \in FanIns : (Coming(y) \/ Adding(y))' <=> (Coming(y) \/ Adding(y))
    BY <1>14, <1>15
  <2> QED
    BY <1>11, <1>13, <2>1, GotSame DEF EdgesKept
<1>22. ReadyInv'
  <2>1. \A y \in FanIns : (Coming(y) \/ Taking(y))' => (Coming(y) \/ Taking(y))
    BY <1>14, <1>15
  <2> QED
    BY <1>11, <1>13, <2>1, ReadySame DEF EdgesKept
<1>23. FanInInv'
  BY <1>3, <1>11, <1>13, FanInSame
<1>24. SendInv'
  <2>1. \A y \in FanIns : Pending(y)' <=> Pending(y)
    BY <1>1, <1>4, DropMessagePending
  <2>2. TablesShrink
    BY <1>13 DEF TablesShrink
  <2> QED
    BY <1>1, <1>3, <1>10, <1>12, <1>13, <2>1, <2>2, SendKept DEF EngineInv
<1> QED
  BY <1>9, <1>10, <1>17, <1>18, <1>19, <1>20, <1>21, <1>22, <1>23, <1>24

(* What a process counts down is at least what it has still to send.       *)
LEMMA Countdown ==
    ASSUME NEW p \in Procs, NEW S \in SUBSET FanIns, NEW T \in SUBSET S, NEW n \in Int, n >= Cardinality(S)
    PROVE  n >= Cardinality(T) /\ (S # T => n - 1 >= Cardinality(T))
<1>1. /\ IsFiniteSet(S) /\ Cardinality(S) \in Nat /\ Cardinality(T) \in Nat
      /\ Cardinality(T) <= Cardinality(S)
  BY FanInsFinite, FS_Subset
<1>2. S # T => Cardinality(T) # Cardinality(S)
  BY <1>1, FS_Subset
<1> QED
  BY <1>1, <1>2

(* A fan-in that was sent is freed.                                        *)
LEMMA FreedFanIn ==
    ASSUME FanInInv, NEW x \in FanIns, ~ Unsent(x), StaticInv, EdgesKept, UNCHANGED <<pc, todo>>,
           fanin' = [fanin EXCEPT ![x] = <<>>]
    PROVE  FanInInv'
<1>1. \A y \in FanIns : fanin'[y] = IF y = x THEN <<>> ELSE fanin[y]
  BY DEF FanInInv
<1>2. fanin' \in [FanIns -> {<<>>} \cup {<<E>> : E \in SUBSET Edges}]
  BY DEF FanInInv
<1>3. ASSUME NEW u \in Threads, pc'[u] = "gemm" PROVE fanin'[Target(u)'] # <<>>
  <2>1. Target(u)' = Target(u)
    BY DEF Target, NextEdge
  <2>2. todo[u] # {} /\ Target(u) \in FanIns
    BY <1>3 DEF StaticInv, AtTask, Working
  <2>3. Unsent(Target(u))
    BY <1>3, <2>2, AtEdge DEF Unsent
  <2>4. fanin[Target(u)] # <<>>
    BY <1>3 DEF FanInInv
  <2> QED
    BY <1>1, <2>1, <2>2, <2>3, <2>4
<1>4. \A y \in FanIns : Unsent(y)' <=> Unsent(y)
  BY DEF EdgesKept, Unsent
<1>5. \A y \in FanIns : y # x => Content(y)' = Content(y)
  BY <1>1 DEF Content
<1> QED
  BY <1>2, <1>3, <1>4, <1>5 DEF FanInInv, EdgesKept

LEMMA HandleFaninInv == ASSUME FactoInv, NEW t \in Threads, HandleFanin(t) PROVE FactoInv'
<1> USE DEF FactoInv
<1> DEFINE p == ProcOf(t)
<1>1. /\ TakeSent(t) /\ fanin' = [fanin EXCEPT ![Handled(t)] = <<>>]
      /\ UNCHANGED <<schedVars, todo, runs, got, phase>>
      /\ UNCHANGED <<pc, reqtab, incoming, posted, held, mpiVars>>
      /\ indexes[t] # {} /\ pc[t] = "handle"
  BY DEF HandleFanin, TakeSent, Handles
<1>2. PICK x \in FanIns : x = Handled(t)
  BY <1>1, TakeSentPending
<1>3. /\ Pending(x) /\ \A y \in FanIns : Pending(y)' <=> Pending(y) /\ y # x
  BY <1>1, <1>2, TakeSentPending
<1>4. p \in Procs /\ x \in FanInsOf(p) /\ ~ Unsent(x) /\ phase[p] # "start"
  <2>1. p \in Procs
    BY ThreadFacts
  <2>2. Index(t) \in 1 .. Len(reqtab[p]) /\ reqtab[p][Index(t)].idx = x
    BY <1>1, <1>2, HandledFacts DEF Handled
  <2>3. x \in FanInsOf(p)
    BY <2>1, <2>2, FanInFacts DEF SendInv
  <2>4. ~ Unsent(x)
    BY <2>1, <2>2 DEF SendInv
  <2>5. phase[p] # "start"
    BY <1>1 DEF StaticInv, Placed
  <2> QED
    BY <2>1, <2>3, <2>4, <2>5
<1>5. StaticInv'
  BY <1>1, StaticSame DEF staticVars, schedVars
<1>6. EngineInv'
  BY <1>1, TakeSentInv
<1>7. EdgesKept
  BY <1>1, EdgesKeptOutside
<1>8. MessageInv' /\ OnePlaceInv' /\ IncomingInv' /\ CounterInv' /\ GotInv' /\ ReadyInv'
  <2>1. MessagesKept /\ LabelsKept /\ PhasesKept
    BY <1>1 DEF MessagesKept, BufferFull, mpiVars, LabelsKept, PhasesKept
  <2> QED
    BY <1>1, <1>7, <2>1, QuietStep DEF schedVars
<1>9. FanInInv'
  BY <1>1, <1>2, <1>4, <1>7, FreedFanIn
<1>10. SendInv'
  <2>1. \A y \in FanIns : Unsent(y)' <=> Unsent(y)
    BY <1>7 DEF EdgesKept, Unsent
  <2>2. \A u \in Threads : Target(u)' = Target(u)
    BY <1>1 DEF Target, NextEdge
  <2>3. \A q \in Procs : outgoing'[q] = IF q = p THEN outgoing[p] - 1 ELSE outgoing[q]
    BY <1>1, <1>4 DEF TakeSent, EngineInv, EngineTypes
  <2>4. ASSUME NEW q \in Procs
        PROVE  IF phase'[q] = "start" THEN outgoing'[q] = 0
               ELSE outgoing'[q] >= Cardinality({y \in FanInsOf(q) : Unsent(y)' \/ Pending(y)'})
    <3> DEFINE S == {y \in FanInsOf(q) : Unsent(y) \/ Pending(y)}
               T == {y \in FanInsOf(q) : Unsent(y)' \/ Pending(y)'}
    <3>1. S \subseteq FanIns /\ T \subseteq S /\ outgoing[q] \in Int
      BY <1>3, <2>1 DEF FanInsOf, EngineInv, EngineTypes
    <3>2. CASE q = p
      <4>1. outgoing[q] >= Cardinality(S)
        BY <1>4, <3>2 DEF SendInv
      <4>2. x \in S /\ x \notin T
        BY <1>3, <1>4, <2>1, <3>2
      <4> HIDE DEF S, T
      <4>3. outgoing[q] - 1 >= Cardinality(T)
        BY <3>1, <4>1, <4>2, Countdown
      <4> QED
        BY <1>1, <1>4, <2>3, <3>2, <4>3 DEF T
    <3>3. CASE q # p
      <4>1. CASE phase[q] = "start"
        BY <1>1, <2>3, <3>3, <4>1 DEF SendInv
      <4>2. CASE phase[q] # "start"
        <5>1. outgoing[q] >= Cardinality(S)
          BY <4>2 DEF SendInv
        <5> HIDE DEF S, T
        <5>2. outgoing[q] >= Cardinality(T)
          BY <3>1, <5>1, Countdown
        <5> QED
          BY <1>1, <2>3, <3>3, <4>2, <5>2 DEF T
      <4> QED
        BY <4>1, <4>2
    <3> QED
      BY <3>2, <3>3
  <2>5. \A y \in FanIns : fanin'[y] # <<>> => Unsent(y)' \/ Pending(y)'
    <3>1. \A y \in FanIns : fanin'[y] = IF y = x THEN <<>> ELSE fanin[y]
      BY <1>1, <1>2 DEF FanInInv
    <3> QED
      BY <1>3, <2>1, <3>1 DEF SendInv
  <2> QED
    BY <1>1, <2>1, <2>2, <2>4, <2>5 DEF SendInv
<1> QED
  BY <1>5, <1>6, <1>8, <1>9, <1>10

LEMMA CleanupInv == ASSUME FactoInv, NEW p \in Procs, Cleanup(p) PROVE FactoInv'
<1> USE DEF FactoInv
<1>1. /\ phase[p] = "cleanup" /\ WaitSent(p) /\ fanin' = [fanin EXCEPT ![Head(reqtab[p]).idx] = <<>>]
      /\ UNCHANGED <<pc, schedVars, todo, runs, got, phase>>
  BY DEF Cleanup
<1>2. UNCHANGED <<incoming, outgoing, posted, threadVars, mpiVars>>
  BY <1>1 DEF WaitSent
<1>3. \A t \in ThreadsOf(p) : ~ Elected(t)
  <2> SUFFICES ASSUME NEW t \in ThreadsOf(p) PROVE ~ Elected(t)
    OBVIOUS
  <2>1. t \in Threads /\ pc[t] = "end"
    BY <1>1, ThreadFacts DEF StaticInv, Placed
  <2> QED
    BY <2>1 DEF MessageInv, Elected, Communicating
<1>4. /\ TablesShrink /\ Head(reqtab[p]).idx \in FanIns
      /\ Len(reqtab[p]) > 0 /\ Head(reqtab[p]) = reqtab[p][1]
      /\ \A x \in FanIns : x # Head(reqtab[p]).idx => (Pending(x)' <=> Pending(x))
      /\ \A x \in FanIns : Pending(x)' => Pending(x)
  BY <1>1, <1>3, WaitSentPending
<1>5. PICK x \in FanIns : x = Head(reqtab[p]).idx
  BY <1>4
<1>6. ~ Unsent(x)
  <2>1. 1 \in 1 .. Len(reqtab[p]) /\ reqtab[p][1].idx = x
    BY <1>4, <1>5 DEF EngineInv, EngineTypes
  <2> QED
    BY <2>1 DEF SendInv
<1>7. StaticInv'
  BY <1>1, StaticSame DEF staticVars, schedVars
<1>8. EngineInv'
  BY <1>1, <1>3, WaitSentInv
<1>9. EdgesKept
  BY <1>1, EdgesKeptOutside
<1>10. MessageInv' /\ OnePlaceInv' /\ IncomingInv' /\ CounterInv' /\ GotInv' /\ ReadyInv'
  <2>1. MessagesKept /\ LabelsKept /\ PhasesKept
    BY <1>1, <1>2 DEF MessagesKept, BufferFull, threadVars, mpiVars, LabelsKept, PhasesKept
  <2> QED
    BY <1>1, <1>2, <1>9, <2>1, QuietStep DEF schedVars
<1>11. FanInInv'
  BY <1>1, <1>5, <1>6, <1>9, FreedFanIn
<1>12. SendInv'
  <2>1. \A y \in FanIns : Unsent(y)' <=> Unsent(y)
    BY <1>9 DEF EdgesKept, Unsent
  <2>2. \A t \in Threads : posted'[t] = IF pc'[t] = "register" THEN Target(t)' ELSE NoIdx
    BY <1>1, <1>2 DEF SendInv, Target, NextEdge
  <2>3. ASSUME NEW q \in Procs, NEW i \in 1 .. Len(reqtab'[q]) PROVE reqtab'[q][i].idx \in FanInsOf(q) \cup {NoIdx}
    <3>1. PICK j \in 1 .. Len(reqtab[q]) : reqtab'[q][i].idx = reqtab[q][j].idx
      BY <1>4 DEF TablesShrink
    <3> QED
      BY <3>1 DEF SendInv
  <2>4. \A y \in FanIns : Unsent(y)' =>
            /\ \A q \in Procs : \A i \in 1 .. Len(reqtab'[q]) : reqtab'[q][i].idx # y
            /\ \A t \in Threads : posted'[t] # y
    <3> SUFFICES ASSUME NEW y \in FanIns, Unsent(y)
                 PROVE  /\ \A q \in Procs : \A i \in 1 .. Len(reqtab'[q]) : reqtab'[q][i].idx # y
                        /\ \A t \in Threads : posted'[t] # y
      BY <2>1
    <3>1. \A t \in Threads : posted'[t] # y
      BY <1>2 DEF SendInv
    <3>2. ASSUME NEW q \in Procs, NEW i \in 1 .. Len(reqtab'[q]) PROVE reqtab'[q][i].idx # y
      <4>1. PICK j \in 1 .. Len(reqtab[q]) : reqtab'[q][i].idx = reqtab[q][j].idx
        BY <1>4 DEF TablesShrink
      <4> QED
        BY <4>1 DEF SendInv
    <3> QED
      BY <3>1, <3>2
  <2>5. ASSUME NEW q \in Procs
        PROVE  IF phase'[q] = "start" THEN outgoing'[q] = 0
               ELSE outgoing'[q] >= Cardinality({y \in FanInsOf(q) : Unsent(y)' \/ Pending(y)'})
    <3> DEFINE S == {y \in FanInsOf(q) : Unsent(y) \/ Pending(y)}
               T == {y \in FanInsOf(q) : Unsent(y)' \/ Pending(y)'}
    <3>1. S \subseteq FanIns /\ T \subseteq S /\ outgoing[q] \in Int
      BY <1>4, <2>1 DEF FanInsOf, EngineInv, EngineTypes
    <3>2. CASE phase[q] = "start"
      BY <1>1, <1>2, <3>2 DEF SendInv
    <3>3. CASE phase[q] # "start"
      <4>1. outgoing[q] >= Cardinality(S)
        BY <3>3 DEF SendInv
      <4> HIDE DEF S, T
      <4>2. outgoing[q] >= Cardinality(T)
        BY <3>1, <4>1, Countdown
      <4> QED
        BY <1>1, <1>2, <3>3, <4>2 DEF T
    <3> QED
      BY <3>2, <3>3
  <2>6. \A y \in FanIns : fanin'[y] # <<>> => Unsent(y)' \/ Pending(y)'
    <3>1. \A y \in FanIns : fanin'[y] = IF y = x THEN <<>> ELSE fanin[y]
      BY <1>1, <1>5 DEF FanInInv
    <3> QED
      BY <1>4, <1>5, <2>1, <3>1 DEF SendInv
  <2>7. \A q \in Procs : phase'[q] \in {"start", "exit"} => reqtab'[q] = <<>>
    <3>1. \A q \in Procs : q # p => reqtab'[q] = reqtab[q]
      BY <1>1 DEF WaitSent, EngineInv, EngineTypes
    <3> QED
      BY <1>1, <3>1 DEF SendInv
  <2> QED
    BY <2>2, <2>3, <2>4, <2>5, <2>6, <2>7 DEF SendInv
<1> QED
  BY <1>7, <1>8, <1>10, <1>11, <1>12

(* The end of the tasks of a process, and its exit.                        *)
LEMMA PhaseInv ==
    ASSUME FactoInv, NEW p \in Procs, EndTasks(p) \/ Exit(p)
    PROVE  FactoInv'
<1> USE DEF FactoInv
<1>1. PICK f \in {"cleanup", "exit"} :
          /\ phase' = [phase EXCEPT ![p] = f] /\ phase[p] \in {"tasks", "cleanup"}
          /\ f = "exit" => reqtab[p] = <<>>
  BY DEF EndTasks, Exit
<1>2. UNCHANGED <<pc, engineVars, schedVars, todo, runs, got, fanin>>
  BY DEF EndTasks, Exit
<1>3. \A t \in ThreadsOf(p) : pc[t] = "end"
  BY ThreadFacts DEF EndTasks, Exit, ThreadsEnded, StaticInv, Placed
<1>4. StaticInv' /\ phase'[p] = f /\ \A q \in Procs : q # p => phase'[q] = phase[q]
  BY <1>1, <1>2, <1>3, PhaseStep DEF schedVars
<1>5. EngineInv'
  <2>1. pc' = [t \in Threads |-> pc'[t]]
    BY <1>4 DEF StaticInv, StaticTypes
  <2> QED
    BY <1>2, <2>1, OtherInv
<1>6. EdgesKept
  BY <1>2, EdgesKeptOutside
<1>7. MessageInv' /\ OnePlaceInv' /\ IncomingInv' /\ CounterInv' /\ GotInv' /\ ReadyInv'
  <2>1. MessagesKept /\ LabelsKept
    BY <1>2 DEF MessagesKept, BufferFull, engineVars, threadVars, mpiVars, LabelsKept
  <2>2. PhasesKept
    BY <1>1, <1>4 DEF PhasesKept
  <2> QED
    BY <1>2, <1>6, <2>1, <2>2, QuietStep DEF schedVars, engineVars, tableVars
<1>8. FanInInv'
  BY <1>2, <1>6, FanInSame
<1>9. SendInv'
  <2>1. \A y \in FanIns : (Unsent(y)' <=> Unsent(y)) /\ (Pending(y)' <=> Pending(y))
    BY <1>2, <1>6 DEF EdgesKept, Unsent, Pending, engineVars, tableVars, threadVars
  <2>2. \A q \in Procs : {y \in FanInsOf(q) : Unsent(y)' \/ Pending(y)'} = {y \in FanInsOf(q) : Unsent(y) \/ Pending(y)}
    BY <2>1 DEF FanInsOf
  <2>3. \A t \in Threads : Target(t)' = Target(t)
    BY <1>2 DEF Target, NextEdge
  <2>4. UNCHANGED <<posted, reqtab, outgoing>>
    BY <1>2 DEF engineVars, tableVars
  <2>5. \A q \in Procs : IF phase'[q] = "start" THEN outgoing'[q] = 0
            ELSE outgoing'[q] >= Cardinality({y \in FanInsOf(q) : Unsent(y)' \/ Pending(y)'})
    BY <1>1, <1>4, <2>2, <2>4 DEF SendInv
  <2>6. \A q \in Procs : phase'[q] \in {"start", "exit"} => reqtab'[q] = <<>>
    BY <1>1, <1>4, <2>4 DEF SendInv
  <2> QED
    BY <1>2, <2>1, <2>3, <2>4, <2>5, <2>6 DEF SendInv
<1> QED
  BY <1>4, <1>5, <1>7, <1>8, <1>9

(* MPI: a message arrives; an emission ends.                               *)
LEMMA DeliverStep ==
    ASSUME FactoInv, NEW p \in Procs, NEW q \in Procs, Deliver(p, q), UNCHANGED <<schedVars, factoVars>>
    PROVE  FactoInv'
<1> USE DEF FactoInv
<1> DEFINE P == <<p, q>>
<1>1. /\ recvreq[q] = "active" /\ net[P] # <<>>
      /\ rcoeftab' = [rcoeftab EXCEPT ![q] = Head(net[P])]
      /\ net'      = [net EXCEPT ![P] = Tail(@)]
      /\ recvreq'  = [recvreq EXCEPT ![q] = "done"]
      /\ UNCHANGED <<pc, tableVars, threadVars, sending>>
  BY DEF Deliver
<1>2. P \in Procs \X Procs /\ net[P] \in Seq(Msgs)
  BY DEF MessageInv
<1>3. \A i \in 1 .. Len(net[P]) : \E y \in RecvsOf(q) : y[1] = p /\ net[P][i] = Msg(y)
  BY DEF MessageInv
<1>4. /\ \A pq \in Procs \X Procs : pq # P => net'[pq] = net[pq]
      /\ net'[P] = Tail(net[P])
      /\ \A r \in Procs : r # q => recvreq'[r] = recvreq[r] /\ rcoeftab'[r] = rcoeftab[r]
      /\ recvreq'[q] = "done" /\ rcoeftab'[q] = Head(net[P])
  BY <1>1, <1>2 DEF EngineInv, EngineTypes
<1>5. \A y \in FanIns : <<y[1], Own[y[2]]>> \in Procs \X Procs /\ (<<y[1], Own[y[2]]>> = P <=> y[1] = p /\ Own[y[2]] = q)
  BY FanInFacts
<1> HIDE DEF P
<1>6. /\ Len(net[P]) \in Nat \ {0} /\ Len(net'[P]) = Len(net[P]) - 1 /\ net'[P] \in Seq(Msgs)
      /\ \A i \in 1 .. Len(net'[P]) : i + 1 \in 1 .. Len(net[P]) /\ net'[P][i] = net[P][i + 1]
      /\ Head(net[P]) = net[P][1]
  <2> DEFINE s == net[P]
  <2>1. s \in Seq(Msgs) /\ s # <<>> /\ net'[P] = Tail(s)
    BY <1>1, <1>2, <1>4
  <2> HIDE DEF s
  <2>2. /\ Len(s) \in Nat \ {0} /\ Len(Tail(s)) = Len(s) - 1 /\ Tail(s) \in Seq(Msgs)
        /\ \A i \in 1 .. Len(Tail(s)) : Tail(s)[i] = s[i + 1]
        /\ Head(s) = s[1]
    BY <2>1, EmptySeq, LenProperties, HeadTailProperties
  <2> QED
    BY <2>1, <2>2 DEF s
<1>7. PICK x \in RecvsOf(q) : x[1] = p /\ net[P][1] = Msg(x)
  BY <1>3, <1>6
<1>8. x \in FanIns /\ Own[x[2]] = q /\ Channel(x) = net[P] /\ rcoeftab'[q] = Msg(x)
  BY <1>4, <1>6, <1>7, RecvFacts DEF Channel, P
<1>9. InNet(x) /\ ~ Unsent(x) /\ ~ Taking(x)
  <2>1. InNet(x)
    BY <1>6, <1>7, <1>8 DEF InNet
  <2> QED
    BY <1>8, <2>1 DEF OnePlaceInv
<1>10. StaticInv'
  BY <1>1, StaticSame DEF staticVars, schedVars, factoVars
<1>11. EngineInv'
  BY DeliverInv
<1>12. EdgesKept
  BY <1>1, EdgesKeptOutside DEF factoVars
<1>13. \A y \in FanIns : Unsent(y)' <=> Unsent(y)
  BY <1>12 DEF EdgesKept, Unsent
<1>14. UNCHANGED <<held, posted, reqtab, indexes, incoming, outgoing, ctrbcnt, todo, runs, got, fanin, phase>>
  BY <1>1 DEF tableVars, threadVars, schedVars, factoVars
<1>15. ASSUME NEW y \in FanIns
       PROVE  InNet(y)' <=> InNet(y) /\ y # x
  <2>1. CASE y[1] = p /\ Own[y[2]] = q
    <3>1. Channel(y)' = net'[P] /\ Channel(y) = net[P]
      BY <2>1 DEF Channel, P
    <3>2. Msg(x) = Msg(y) <=> y = x
      BY <1>8, MsgFacts
    <3>3. CASE y = x
      <4>1. ASSUME NEW i \in 1 .. Len(net'[P]), net'[P][i] = Msg(y) PROVE FALSE
        <5>1. i + 1 \in 1 .. Len(net[P]) /\ net[P][i + 1] = Msg(x) /\ 1 \in 1 .. Len(net[P])
          BY <1>6, <3>3, <4>1
        <5>2. i + 1 = 1
          BY <1>7, <1>8, <5>1 DEF OnePlaceInv
        <5> QED
          BY <5>2
      <4> QED
        BY <3>1, <3>3, <4>1 DEF InNet
    <3>4. CASE y # x
      <4>1. ASSUME NEW i \in 1 .. Len(net'[P]), net'[P][i] = Msg(y)
            PROVE  \E j \in 1 .. Len(net[P]) : net[P][j] = Msg(y)
        BY <1>6, <4>1
      <4>2. ASSUME NEW j \in 1 .. Len(net[P]), net[P][j] = Msg(y)
            PROVE  \E i \in 1 .. Len(net'[P]) : net'[P][i] = Msg(y)
        <5>1. j # 1
          BY <1>7, <3>2, <3>4, <4>2
        <5>2. j - 1 \in 1 .. Len(net'[P]) /\ (j - 1) + 1 = j
          BY <1>6, <5>1
        <5>3. net'[P][j - 1] = net[P][j]
          BY <1>6, <5>2
        <5> QED
          BY <4>2, <5>2, <5>3
      <4> QED
        BY <3>1, <3>4, <4>1, <4>2 DEF InNet
    <3> QED
      BY <3>3, <3>4
  <2>2. CASE ~ (y[1] = p /\ Own[y[2]] = q)
    <3>1. Channel(y)' = Channel(y) /\ y # x
      BY <1>4, <1>5, <1>7, <1>8, <2>2 DEF Channel
    <3> QED
      BY <3>1 DEF InNet
  <2> QED
    BY <2>1, <2>2
<1>16. ASSUME NEW y \in FanIns
       PROVE  InBuffer(y)' <=> InBuffer(y) \/ y = x
  <2>1. CASE Own[y[2]] = q
    <3>1. ~ InBuffer(y)
      BY <1>1, <2>1 DEF InBuffer
    <3>2. InBuffer(y)' <=> Msg(x) = Msg(y)
      BY <1>4, <1>8, <2>1 DEF InBuffer
    <3> QED
      BY <1>8, <3>1, <3>2, MsgFacts
  <2>2. CASE Own[y[2]] # q
    <3>1. Own[y[2]] \in Procs
      BY FanInFacts
    <3> QED
      BY <1>4, <1>8, <2>2, <3>1 DEF InBuffer
  <2> QED
    BY <2>1, <2>2
<1>17. \A y \in FanIns : (Taking(y)' <=> Taking(y)) /\ (Adding(y)' <=> Adding(y))
  BY <1>1, <1>14 DEF Taking, Adding
<1>18. ComingKept /\ PhasesKept
  <2>1. ASSUME NEW y \in FanIns PROVE Coming(y)' <=> Coming(y)
    BY <1>9, <1>13, <1>15, <1>16 DEF Coming
  <2> QED
    BY <1>14, <1>17, <2>1 DEF ComingKept, PhasesKept
<1>19. MessageInv'
  <2>1. \A u \in Threads : held'[u] # NoMsg <=> pc'[u] \in {"add", "dec"}
    BY <1>1, <1>14 DEF MessageInv
  <2>2. \A u \in Threads : held'[u] # NoMsg => \E y \in RecvsOf(ProcOf(u)) : held'[u] = Msg(y)
    BY <1>14 DEF MessageInv
  <2>3. ASSUME NEW r \in Procs, recvreq'[r] \in {"done", "inactive"}
        PROVE  \E y \in RecvsOf(r) : rcoeftab'[r] = Msg(y)
    BY <1>4, <1>7, <1>8, <2>3 DEF MessageInv
  <2>4. ASSUME NEW r \in Procs, NEW s \in Procs
        PROVE  /\ net'[<<r, s>>] \in Seq(Msgs)
               /\ \A i \in 1 .. Len(net'[<<r, s>>]) :
                     \E y \in RecvsOf(s) : y[1] = r /\ net'[<<r, s>>][i] = Msg(y)
    <3>1. CASE <<r, s>> = P
      <4>1. r = p /\ s = q
        BY <3>1 DEF P
      <4>2. \A i \in 1 .. Len(net'[P]) : \E y \in RecvsOf(q) : y[1] = p /\ net'[P][i] = Msg(y)
        BY <1>3, <1>6
      <4> QED
        BY <1>6, <3>1, <4>1, <4>2
    <3>2. CASE <<r, s>> # P
      <4>1. net'[<<r, s>>] = net[<<r, s>>]
        BY <1>4, <3>2
      <4> QED
        BY <4>1 DEF MessageInv
    <3> QED
      BY <3>1, <3>2
  <2> QED
    BY <2>1, <2>2, <2>3, <2>4 DEF MessageInv
<1>20. OnePlaceInv'
  <2>1. ASSUME NEW y \in FanIns
        PROVE  /\ Unsent(y)' => ~ InNet(y)' /\ ~ InBuffer(y)' /\ ~ Taking(y)'
               /\ InNet(y)' => ~ InBuffer(y)' /\ ~ Taking(y)'
               /\ InBuffer(y)' => ~ Taking(y)'
    BY <1>9, <1>13, <1>15, <1>16, <1>17 DEF OnePlaceInv
  <2>2. ASSUME NEW y \in FanIns
        PROVE  \A i, j \in 1 .. Len(Channel(y)') : Channel(y)'[i] = Msg(y) /\ Channel(y)'[j] = Msg(y) => i = j
    <3>1. CASE y[1] = p /\ Own[y[2]] = q
      <4>1. Channel(y)' = net'[P] /\ Channel(y) = net[P]
        BY <3>1 DEF Channel, P
      <4>2. \A i, j \in 1 .. Len(net[P]) : net[P][i] = Msg(y) /\ net[P][j] = Msg(y) => i = j
        BY <4>1 DEF OnePlaceInv
      <4>3. ASSUME NEW i \in 1 .. Len(net'[P]), NEW j \in 1 .. Len(net'[P]),
                   net'[P][i] = Msg(y), net'[P][j] = Msg(y)
            PROVE  i = j
        <5>1. i + 1 \in 1 .. Len(net[P]) /\ j + 1 \in 1 .. Len(net[P])
          BY <1>6
        <5>2. net[P][i + 1] = Msg(y) /\ net[P][j + 1] = Msg(y)
          BY <1>6, <4>3
        <5>3. i + 1 = j + 1
          BY <4>2, <5>1, <5>2
        <5> QED
          BY <5>3
      <4> QED
        BY <4>1, <4>3
    <3>2. CASE ~ (y[1] = p /\ Own[y[2]] = q)
      <4>1. Channel(y)' = Channel(y)
        BY <1>4, <1>5, <3>2 DEF Channel
      <4> QED
        BY <4>1 DEF OnePlaceInv
    <3> QED
      BY <3>1, <3>2
  <2> QED
    BY <2>1, <2>2 DEF OnePlaceInv
<1>21. IncomingInv'
  BY <1>14, <1>18, IncomingSame
<1>22. CounterInv'
  BY <1>12, <1>14, <1>18, CounterSame DEF ComingKept, EdgesKept
<1>23. GotInv'
  BY <1>12, <1>14, <1>17, <1>18, GotSame DEF ComingKept, EdgesKept
<1>24. ReadyInv'
  BY <1>12, <1>14, <1>18, ReadySame DEF ComingKept, EdgesKept
<1>25. FanInInv'
  BY <1>1, <1>12, <1>14, FanInSame
<1>26. SendInv'
  BY <1>1, <1>11, <1>13, <1>14, SendSame DEF EngineInv
<1> QED
  BY <1>10, <1>11, <1>19, <1>20, <1>21, <1>22, <1>23, <1>24, <1>25, <1>26

LEMMA SendDoneStep ==
    ASSUME FactoInv, NEW x \in FanIns, SendDone(x), UNCHANGED <<schedVars, factoVars>>
    PROVE  FactoInv'
<1> USE DEF FactoInv
<1>1. /\ UNCHANGED <<pc, tableVars, threadVars, recvreq, rcoeftab, net>>
      /\ UNCHANGED <<reqtab, incoming, outgoing, posted, indexes, held>>
      /\ UNCHANGED <<ctrbcnt, todo, runs, got, fanin, phase>>
  BY DEF SendDone, tableVars, threadVars, schedVars, factoVars
<1>2. StaticInv'
  BY <1>1, StaticSame DEF staticVars, schedVars, factoVars
<1>3. EngineInv'
  BY SendDoneInv
<1>4. EdgesKept
  BY <1>1, EdgesKeptOutside
<1>5. MessageInv' /\ OnePlaceInv' /\ IncomingInv' /\ CounterInv' /\ GotInv' /\ ReadyInv'
  <2>1. MessagesKept /\ LabelsKept /\ PhasesKept
    BY <1>1 DEF MessagesKept, BufferFull, LabelsKept, PhasesKept
  <2> QED
    BY <1>1, <1>4, <2>1, QuietStep
<1>6. FanInInv'
  BY <1>1, <1>4, FanInSame
<1>7. SendInv'
  <2>1. \A y \in FanIns : Unsent(y)' <=> Unsent(y)
    BY <1>4 DEF EdgesKept, Unsent
  <2> QED
    BY <1>1, <1>3, <2>1, SendSame DEF EngineInv
<1> QED
  BY <1>2, <1>3, <1>5, <1>6, <1>7

(* A process starts: its counters are set to what is left of everything.   *)
LEMMA StartInv == ASSUME FactoInv, NEW p \in Procs, Start(p) PROVE FactoInv'
<1> USE DEF FactoInv
<1>1. /\ phase[p] = "start" /\ phase'[p] = "tasks"
      /\ \A q \in Procs : q # p => phase'[q] = phase[q]
      /\ \A t \in ThreadsOf(p) : pc[t] = "idle" /\ pc'[t] \in {"wait", "end"}
      /\ \A t \in Threads : ProcOf(t) # p => pc'[t] = pc[t]
      /\ pc' = [t \in Threads |-> pc'[t]]
      /\ ctrbcnt' = [x \in Local |-> IF x[1] = p THEN BrowNbr(x) ELSE ctrbcnt[x]]
      /\ OpenRequests(p, RecvNbr(p), FaninNbr(p))
      /\ UNCHANGED <<todo, runs, got, fanin>>
      /\ StaticInv'
  BY StartStep
<1>2. \A t \in Threads : pc'[t] = pc[t] \/ (pc[t] = "idle" /\ pc'[t] \in {"wait", "end"})
  BY <1>1, ThreadFacts
<1>3. \A t \in ThreadsOf(p) : ~ Elected(t)
  BY <1>1, ThreadFacts DEF MessageInv, Elected, Communicating
<1>4. reqtab[p] = <<>> /\ incoming[p] = 0 /\ \A x \in RecvsOf(p) : Coming(x)
  BY <1>1 DEF SendInv, IncomingInv
<1>5. /\ RecvsOf(p) \subseteq FanIns /\ FanInsOf(p) \subseteq FanIns
      /\ RecvNbr(p) \in Nat /\ FaninNbr(p) \in Nat
  <2>1. RecvsOf(p) \subseteq FanIns /\ FanInsOf(p) \subseteq FanIns
    BY DEF RecvsOf, FanInsOf
  <2> QED
    BY <2>1, FanInsFinite DEF RecvNbr, FaninNbr
<1>6. EngineInv'
  BY <1>1, <1>2, <1>3, <1>4, <1>5, OpenRequestsInv DEF Communicating
<1>7. EdgesKept
  BY <1>1, <1>2, EdgesKeptOutside DEF Working
<1>8. /\ \A q \in Procs : incoming'[q] = IF q = p THEN RecvNbr(p) ELSE incoming[q]
      /\ \A q \in Procs : outgoing'[q] = IF q = p THEN FaninNbr(p) ELSE outgoing[q]
      /\ \A q \in Procs : q # p => reqtab'[q] = reqtab[q] /\ recvreq'[q] = recvreq[q]
      /\ reqtab'[p] = IF RecvNbr(p) = 0 THEN <<>> ELSE <<Request(NoIdx)>>
      /\ recvreq'[p] \in {"freed", "active"}
      /\ UNCHANGED <<posted, indexes, held, rcoeftab, net>>
  BY <1>1 DEF OpenRequests, EngineInv, EngineTypes, threadVars
<1>9. recvreq[p] = "freed"
  BY <1>4 DEF EngineInv, Reception
<1>10. \A x \in FanIns : Unsent(x)' <=> Unsent(x)
  BY <1>7 DEF EdgesKept, Unsent
<1>11. MessagesKept /\ LabelsKept
  <2>1. \A q \in Procs : BufferFull(q)' <=> BufferFull(q)
    BY <1>8, <1>9 DEF BufferFull
  <2> QED
    BY <1>2, <1>8, <2>1 DEF MessagesKept, LabelsKept
<1>12. MessageInv' /\ OnePlaceInv' /\ ComingKept
  BY <1>10, <1>11, MessageSame
<1>13. IncomingInv'
  <2>1. ASSUME NEW q \in Procs, q # p
        PROVE  IF phase'[q] = "start" THEN incoming'[q] = 0 /\ \A x \in RecvsOf(q) : Coming(x)'
               ELSE incoming'[q] = Cardinality({x \in RecvsOf(q) : Coming(x)'})
    <3>1. \A x \in RecvsOf(q) : Coming(x)' <=> Coming(x)
      BY <1>12, RecvFacts DEF ComingKept
    <3>2. {x \in RecvsOf(q) : Coming(x)'} = {x \in RecvsOf(q) : Coming(x)}
      BY <3>1
    <3> QED
      BY <1>1, <1>8, <2>1, <3>1, <3>2 DEF IncomingInv
  <2>2. {x \in RecvsOf(p) : Coming(x)'} = RecvsOf(p)
    BY <1>4, <1>5, <1>12 DEF ComingKept
  <2>3. phase'[p] # "start" /\ incoming'[p] = Cardinality({x \in RecvsOf(p) : Coming(x)'})
    BY <1>1, <1>8, <2>2 DEF RecvNbr
  <2> QED
    BY <2>1, <2>3 DEF IncomingInv
<1>14. CounterInv'
  <2>1. ASSUME NEW x \in Local, x[1] = p
        PROVE  Contribs(x) \cap LeftEdges = Contribs(x)
    <3> SUFFICES ASSUME NEW e \in Contribs(x) PROVE e \in LeftEdges
      BY EdgeFacts
    <3>1. e \in Edges /\ Src[e] \in Cblks /\ Own[Src[e]] = p
      <4>1. e \in Edges /\ x = Home(e)
        BY EdgeFacts
      <4>2. Home(e)[1] = Own[Src[e]]
        BY DEF Home
      <4> QED
        BY <2>1, <4>1, <4>2, EdgeFacts
    <3>2. PICK t \in Threads : \E i \in 1 .. Len(Order[t]) : ProcOf(t) = p /\ Order[t][i] = Src[e]
      BY <3>1, OrderFacts
    <3>3. PICK i \in 1 .. Len(Order[t]) : ProcOf(t) = p /\ Order[t][i] = Src[e]
      BY <3>2
    <3>4. t \in ThreadsOf(p) /\ pc[t] = "idle"
      BY <1>1, <3>3, ThreadFacts
    <3>5. pos[t] = 1 /\ pc[t] \notin Working
      BY <3>4 DEF StaticInv, Placed, Working
    <3>6. runs[Order[t][i]] = IF i < pos[t] \/ (i = pos[t] /\ pc[t] \in Working) THEN 1 ELSE 0
      BY DEF StaticInv, RunsInOrder
    <3>7. runs[Src[e]] = 0
      BY <3>3, <3>5, <3>6
    <3> QED
      BY <3>1, <3>7 DEF LeftEdges, EdgesBefore
  <2>2. ASSUME NEW x \in Local, x[1] = p, x \notin FanIns
        PROVE  {y \in RecvsTo(x[2]) : Coming(y) \/ Taking(y)} = RecvsTo(x[2])
    <3>1. Own[x[2]] = p
      <4>1. x = <<Own[x[2]], x[2]>>
        BY <2>2, EdgeFacts
      <4> QED
        BY <2>2, <4>1
    <3>2. \A y \in RecvsTo(x[2]) : y \in RecvsOf(p)
      BY <3>1, RecvFacts
    <3> QED
      BY <1>4, <3>2
  <2>3. ASSUME NEW x \in Local, x[1] = p
        PROVE  Counter(x) = BrowNbr(x) /\ BrowNbr(x) \in Nat
    <3>1. Cardinality(Contribs(x)) \in Nat /\ Cardinality(RecvsTo(x[2])) \in Nat
      <4>1. RecvsTo(x[2]) \subseteq FanIns
        BY DEF RecvsTo
      <4> QED
        BY <4>1, FanInsFinite, EdgesFinite, EdgeFacts
    <3>2. Counter(x) = Cardinality(Contribs(x)) + IF x \in FanIns THEN 0 ELSE Cardinality(RecvsTo(x[2]))
      BY <2>1, <2>2, <2>3 DEF Counter
    <3> QED
      BY <3>1, <3>2 DEF BrowNbr, Contribs
  <2>4. ASSUME NEW x \in Local PROVE Counter(x)' = Counter(x)
    <3>1. LeftEdges' = LeftEdges
      BY <1>7 DEF EdgesKept
    <3>2. \A y \in RecvsTo(x[2]) : (Coming(y)' \/ Taking(y)') <=> (Coming(y) \/ Taking(y))
      BY <1>12, RecvFacts DEF ComingKept
    <3>3. {y \in RecvsTo(x[2]) : Coming(y)' \/ Taking(y)'} = {y \in RecvsTo(x[2]) : Coming(y) \/ Taking(y)}
      BY <3>2
    <3> QED
      BY <3>1, <3>3 DEF Counter
  <2>5. \A x \in Local : x[1] \in Procs
    BY EdgeFacts, FanInFacts, StructureAssumption
  <2>6. ASSUME NEW x \in Local
        PROVE  /\ ctrbcnt'[x] \in Nat
               /\ ctrbcnt'[x] = IF phase'[x[1]] = "start" THEN 0 ELSE Counter(x)'
    <3>1. CASE x[1] = p
      BY <1>1, <2>3, <2>4, <3>1
    <3>2. CASE x[1] # p
      BY <1>1, <2>4, <2>5, <3>2 DEF CounterInv
    <3> QED
      BY <3>1, <3>2
  <2>7. ctrbcnt' \in [Local -> Nat]
    <3>1. ctrbcnt' = [x \in Local |-> ctrbcnt'[x]]
      BY <1>1
    <3> QED
      BY <2>6, <3>1
  <2> QED
    BY <2>6, <2>7 DEF CounterInv
<1>15. GotInv'
  BY <1>1, <1>7, <1>11, <1>12, AddingSame, GotSame DEF ComingKept, EdgesKept
<1>16. ReadyInv'
  BY <1>1, <1>7, <1>12, ReadySame DEF ComingKept, EdgesKept
<1>17. FanInInv'
  BY <1>1, <1>2, <1>7, FanInSame
<1>18. \A i \in 1 .. Len(reqtab'[p]) : reqtab'[p][i].idx = NoIdx
  <2>1. CASE reqtab'[p] = <<>>
    BY <2>1
  <2>2. CASE reqtab'[p] = <<Request(NoIdx)>>
    <3>1. Len(<<Request(NoIdx)>>) = 1 /\ <<Request(NoIdx)>>[1] = Request(NoIdx)
      OBVIOUS
    <3>2. Request(NoIdx).idx = NoIdx
      BY DEF Request
    <3> QED
      BY <2>2, <3>1, <3>2
  <2> QED
    BY <1>8, <2>1, <2>2
<1>19. SendInv'
  <2>1. ASSUME NEW x \in FanIns PROVE Pending(x)' <=> Pending(x)
    <3>1. x # NoIdx
      BY FanInFacts
    <3>2. \A q \in Procs : PendingAt(q, x)' <=> PendingAt(q, x)
      <4> SUFFICES ASSUME NEW q \in Procs PROVE PendingAt(q, x)' <=> PendingAt(q, x)
        OBVIOUS
      <4>1. CASE q = p
        BY <1>4, <1>18, <3>1, <4>1 DEF PendingAt
      <4>2. CASE q # p
        BY <1>8, <4>2 DEF PendingAt
      <4> QED
        BY <4>1, <4>2
    <3> QED
      BY <1>8, <3>2, PendingSplit
  <2>2. \A t \in Threads : posted'[t] = IF pc'[t] = "register" THEN Target(t)' ELSE NoIdx
    <3>1. \A t \in Threads : Target(t)' = Target(t)
      BY <1>1 DEF Target, NextEdge
    <3>2. \A t \in Threads : pc'[t] = "register" <=> pc[t] = "register"
      BY <1>2
    <3> QED
      BY <1>8, <3>1, <3>2 DEF SendInv
  <2>3. \A q \in Procs : \A i \in 1 .. Len(reqtab'[q]) : reqtab'[q][i].idx \in FanInsOf(q) \cup {NoIdx}
    BY <1>8, <1>18 DEF SendInv
  <2>4. ASSUME NEW x \in FanIns, Unsent(x)'
        PROVE  /\ \A q \in Procs : \A i \in 1 .. Len(reqtab'[q]) : reqtab'[q][i].idx # x
               /\ \A t \in Threads : posted'[t] # x
    <3>1. Unsent(x) /\ x # NoIdx
      BY <1>10, <2>4, FanInFacts
    <3> QED
      BY <1>8, <1>18, <3>1 DEF SendInv
  <2>5. \A x \in FanIns : fanin'[x] # <<>> => Unsent(x)' \/ Pending(x)'
    BY <1>1, <1>10, <2>1 DEF SendInv
  <2>6. ASSUME NEW q \in Procs
        PROVE  IF phase'[q] = "start" THEN outgoing'[q] = 0
               ELSE outgoing'[q] >= Cardinality({x \in FanInsOf(q) : Unsent(x)' \/ Pending(x)'})
    <3>1. CASE q = p
      <4> DEFINE T == {x \in FanInsOf(q) : Unsent(x)' \/ Pending(x)'}
      <4>1. T \subseteq FanInsOf(q) /\ outgoing'[q] >= Cardinality(FanInsOf(q)) /\ FanInsOf(q) \subseteq FanIns
        BY <1>5, <1>8, <3>1 DEF FaninNbr
      <4>2. phase'[q] # "start" /\ outgoing'[q] \in Int
        BY <1>1, <1>5, <1>8, <3>1
      <4> HIDE DEF T
      <4>3. outgoing'[q] >= Cardinality(T)
        BY <4>1, <4>2, Countdown
      <4> QED
        BY <4>2, <4>3 DEF T
    <3>2. CASE q # p
      <4>1. {x \in FanInsOf(q) : Unsent(x)' \/ Pending(x)'} = {x \in FanInsOf(q) : Unsent(x) \/ Pending(x)}
        BY <1>10, <2>1 DEF FanInsOf
      <4> QED
        BY <1>1, <1>8, <3>2, <4>1 DEF SendInv
    <3> QED
      BY <3>1, <3>2
  <2>7. \A q \in Procs : phase'[q] \in {"start", "exit"} => reqtab'[q] = <<>>
    BY <1>1, <1>8 DEF SendInv
  <2> QED
    BY <2>2, <2>3, <2>4, <2>5, <2>6, <2>7 DEF SendInv
<1> QED
  BY <1>1, <1>6, <1>12, <1>13, <1>14, <1>15, <1>16, <1>17, <1>19

-----------------------------------------------------------------------------
(* The invariant.                                                          *)

(* Nothing is computed, received or sent when a process begins.            *)
LEMMA FactoInitInv == ASSUME Init PROVE FactoInv
<1>1. /\ EngineInit /\ pc = [t \in Threads |-> "idle"]
      /\ ctrbcnt = [x \in Local |-> 0] /\ pos = [t \in Threads |-> 1]
      /\ queue = [t \in Threads |-> {}] /\ taskcnt = [q \in Procs |-> 0]
      /\ done = [t \in Threads |-> 0] /\ cur = [t \in Threads |-> NoIdx]
      /\ todo = [t \in Threads |-> {}] /\ runs = [c \in Cblks |-> 0]
      /\ got = [e \in Edges |-> 0] /\ fanin = [x \in FanIns |-> <<>>]
      /\ phase = [p \in Procs |-> "start"]
  BY DEF Init, SchedInit
<1>2. /\ reqtab = [p \in Procs |-> <<>>] /\ incoming = [p \in Procs |-> 0]
      /\ outgoing = [p \in Procs |-> 0] /\ posted = [t \in Threads |-> NoIdx]
      /\ held = [t \in Threads |-> NoMsg] /\ recvreq = [p \in Procs |-> "freed"]
      /\ net = [x \in Procs \X Procs |-> <<>>]
  BY <1>1 DEF EngineInit
<1>3. EngineInv
  BY <1>1, EngineInitInv
<1>4. StaticInv
  <2>1. StaticTypes
    BY <1>1 DEF StaticTypes
  <2>2. ASSUME NEW t \in Threads PROVE Placed(t) /\ AtTask(t) /\ RunsInOrder(t)
    <3>1. Len(Order[t]) \in Nat /\ ProcOf(t) \in Procs
      BY OrderFacts, ThreadFacts
    <3>2. pc[t] = "idle" /\ pos[t] = 1 /\ todo[t] = {} /\ phase[ProcOf(t)] = "start"
      BY <1>1, <3>1
    <3>3. pos[t] \in 1 .. Len(Order[t]) + 1
      BY <3>1, <3>2
    <3>4. Placed(t) /\ AtTask(t)
      BY <3>2, <3>3 DEF Placed, AtTask, Working, Looping
    <3>5. ASSUME NEW i \in 1 .. Len(Order[t])
          PROVE  runs[Order[t][i]] = IF i < pos[t] \/ (i = pos[t] /\ pc[t] \in Working) THEN 1 ELSE 0
      <4>1. runs[Order[t][i]] = 0
        BY <1>1, OrderFacts
      <4>2. ~ (i < pos[t]) /\ pc[t] \notin Working
        BY <3>1, <3>2 DEF Working
      <4> QED
        BY <4>1, <4>2
    <3> QED
      BY <3>4, <3>5 DEF RunsInOrder
  <2> QED
    BY <2>1, <2>2 DEF StaticInv
<1>5. FreshEdges = Edges /\ LeftEdges = Edges /\ UnsentEdges = Edges
  <2>1. \A e \in Edges : runs[Src[e]] = 0
    BY <1>1, EdgeFacts
  <2>2. \A L : EdgesBefore(L) = Edges
    BY <2>1 DEF EdgesBefore
  <2> QED
    BY <2>2 DEF FreshEdges, LeftEdges, UnsentEdges
<1>6. ASSUME NEW x \in FanIns
      PROVE  /\ Unsent(x) /\ fanin[x] = <<>> /\ Channel(x) = <<>>
             /\ ~ InNet(x) /\ ~ InBuffer(x) /\ ~ Taking(x) /\ ~ Adding(x) /\ Coming(x)
  <2>1. Unsent(x)
    <3>1. Contribs(x) # {} /\ Contribs(x) \subseteq Edges
      BY FanInFacts, EdgeFacts DEF Contribs
    <3> QED
      BY <1>5, <3>1 DEF Unsent
  <2>2. <<x[1], Own[x[2]]>> \in Procs \X Procs /\ Own[x[2]] \in Procs
    BY FanInFacts
  <2>3. Channel(x) = <<>> /\ fanin[x] = <<>>
    BY <1>1, <1>2, <2>2 DEF Channel
  <2>4. ~ InNet(x)
    BY <2>3 DEF InNet
  <2>5. ~ InBuffer(x)
    BY <1>2, <2>2 DEF InBuffer
  <2>6. ~ Taking(x) /\ ~ Adding(x)
    BY <1>2, MsgFacts DEF Taking, Adding
  <2> QED
    BY <2>1, <2>3, <2>4, <2>5, <2>6 DEF Coming
<1>7. FanInInv
  <2>1. fanin \in [FanIns -> {<<>>} \cup {<<E>> : E \in SUBSET Edges}]
    BY <1>1
  <2>2. \A t \in Threads : pc[t] # "gemm"
    BY <1>1
  <2>3. \A x \in FanIns : Content(x) = Contribs(x) \ FreshEdges
    BY <1>5, <1>6, EdgeFacts DEF Content
  <2>4. \A x : \A e \in Contribs(x) : e \in LeftEdges
    BY <1>5, EdgeFacts
  <2> QED
    BY <2>1, <2>2, <2>3, <2>4 DEF FanInInv
<1>8. SendInv
  <2>1. \A t \in Threads : posted[t] = IF pc[t] = "register" THEN Target(t) ELSE NoIdx
    BY <1>1, <1>2
  <2>2. \A q \in Procs : reqtab[q] = <<>> /\ outgoing[q] = 0 /\ phase[q] = "start"
    BY <1>1, <1>2
  <2>3. \A x \in FanIns : x # NoIdx
    BY FanInFacts
  <2> QED
    BY <1>2, <1>6, <2>1, <2>2, <2>3 DEF SendInv
<1>9. MessageInv
  <2>1. \A q, p \in Procs : net[<<q, p>>] = <<>>
    BY <1>2
  <2>2. \A t \in Threads : held[t] = NoMsg /\ pc[t] \notin {"add", "dec"}
    BY <1>1, <1>2
  <2>3. \A p \in Procs : recvreq[p] \notin {"done", "inactive"}
    BY <1>2
  <2>4. \A q, p \in Procs : net[<<q, p>>] \in Seq(Msgs) /\ 1 .. Len(net[<<q, p>>]) = {}
    <3>1. <<>> \in Seq(Msgs) /\ 1 .. Len(<<>>) = {}
      OBVIOUS
    <3> QED
      BY <2>1, <3>1
  <2> QED
    BY <2>2, <2>3, <2>4 DEF MessageInv
<1>10. OnePlaceInv
  BY <1>6 DEF OnePlaceInv
<1>11. IncomingInv
  BY <1>1, <1>2, <1>6, RecvFacts DEF IncomingInv
<1>12. CounterInv
  <2>1. \A x \in Local : x[1] \in Procs
    BY EdgeFacts, FanInFacts, StructureAssumption
  <2> QED
    BY <1>1, <2>1 DEF CounterInv
<1>13. GotInv
  <2>1. \A x \in FanIns : \A e \in Contribs(x) : e \in Edges
    BY EdgeFacts
  <2>2. got \in [Edges -> Nat] /\ \A e \in Edges : got[e] = 0
    BY <1>1
  <2> QED
    BY <1>5, <1>6, <2>1, <2>2 DEF GotInv
<1>14. ReadyInv
  BY <1>1 DEF ReadyInv
<1> QED
  BY <1>3, <1>4, <1>7, <1>8, <1>9, <1>10, <1>11, <1>12, <1>13, <1>14 DEF FactoInv

(* Nothing moves.                                                          *)
LEMMA StutterInv == ASSUME FactoInv, UNCHANGED vars PROVE FactoInv'
<1> USE DEF FactoInv
<1>1. /\ UNCHANGED <<pc, engineVars, ctrbcnt, pos, queue, taskcnt, done, cur>>
      /\ UNCHANGED <<todo, runs, got, fanin, phase>>
      /\ UNCHANGED <<reqtab, incoming, outgoing, posted, indexes, held, recvreq, rcoeftab, net>>
  BY DEF vars, engineVars, tableVars, threadVars, mpiVars, schedVars, factoVars
<1>2. StaticInv'
  BY <1>1, StaticSame DEF staticVars
<1>3. EngineInv'
  <2>1. pc' = [t \in Threads |-> pc'[t]]
    BY <1>2 DEF StaticInv, StaticTypes
  <2> QED
    BY <1>1, <2>1, OtherInv
<1>4. EdgesKept
  BY <1>1, EdgesKeptOutside
<1>5. MessageInv' /\ OnePlaceInv' /\ IncomingInv' /\ CounterInv' /\ GotInv' /\ ReadyInv'
  <2>1. MessagesKept /\ LabelsKept /\ PhasesKept
    BY <1>1 DEF MessagesKept, BufferFull, LabelsKept, PhasesKept
  <2> QED
    BY <1>1, <1>4, <2>1, QuietStep
<1>6. FanInInv'
  BY <1>1, <1>4, FanInSame
<1>7. SendInv'
  <2>1. \A y \in FanIns : Unsent(y)' <=> Unsent(y)
    BY <1>4 DEF EdgesKept, Unsent
  <2> QED
    BY <1>1, <1>3, <2>1, SendSame DEF EngineInv
<1> QED
  BY <1>2, <1>3, <1>5, <1>6, <1>7

(* With the static scheduler a thread that has nothing to do waits.        *)
LEMMA IdleInv ==
    ASSUME FactoInv, NEW t \in Threads, Idle(t, Order[t]), UNCHANGED factoVars
    PROVE  FactoInv'
<1>1. pc[t] \in Working \cup Looping \cup {"idle", "end"}
  BY DEF FactoInv, StaticInv, Placed
<1>2. Wait(t, Order[t])
  BY <1>1 DEF Idle, PopNothing, Flush, StealNothing, Working, Looping
<1> QED
  BY <1>2, WaitStep

LEMMA FactoStep == ASSUME FactoInv, [Next]_vars PROVE FactoInv'
<1>1. ASSUME NEW t \in Threads, Work(t) PROVE FactoInv'
  BY <1>1, IdleInv, ComputeInv, AllocInv, UpdateInv, ReleaseInv, SendFaninInv, RegisterFaninInv, NextTaskInv
  DEF Work
<1>2. ASSUME NEW t \in Threads, Communicate(t) PROVE FactoInv'
  BY <1>2, ProgressInv, HandleRecvInv, AddInv, DecInv, HandleFaninInv DEF Communicate
<1>3. ASSUME Transport PROVE FactoInv'
  BY <1>3, DeliverStep, SendDoneStep DEF Transport
<1>4. ASSUME NEW p \in Procs, Main(p) PROVE FactoInv'
  BY <1>4, StartInv, PhaseInv, CleanupInv DEF Main
<1>5. ASSUME Finished \/ UNCHANGED vars PROVE FactoInv'
  BY <1>5, StutterInv DEF Finished
<1> QED
  BY <1>1, <1>2, <1>3, <1>4, <1>5 DEF Next

(* The invariant of the distributed factorization: every contribution and  *)
(* every fan-in is where the counters of cpucblk_zrelease_deps, of         *)
(* solverRecvInit and of the table of requests say that it is.             *)
THEOREM FactoInvariant == Spec => []FactoInv
<1>1. Init => FactoInv
  BY FactoInitInv
<1>2. FactoInv /\ [Next]_vars => FactoInv'
  BY FactoStep
<1> QED
  BY <1>1, <1>2, PTL DEF Spec

-----------------------------------------------------------------------------
(* What it says.                                                           *)

(* The types; no counter of contributions or of messages goes below zero,  *)
(* and the table of requests keeps the size that solverRequestInit gives   *)
(* it: assert( reqnum < reqnbr ) of cpucblk_zisend.                        *)
THEOREM TypeCorrect == Spec => []TypeOK
<1>1. FactoInv => TypeOK
  <2> SUFFICES ASSUME FactoInv PROVE TypeOK
    OBVIOUS
  <2> USE DEF FactoInv
  <2>1. ASSUME NEW p \in Procs
        PROVE  /\ Len(reqtab[p]) <= ReqNbr(p)
               /\ incoming[p] \in Nat /\ outgoing[p] \in Nat
    <3>1. FanInsOf(p) \subseteq FanIns /\ RecvsOf(p) \subseteq FanIns
      BY DEF FanInsOf, RecvsOf
    <3>2. Len(reqtab[p]) <= Cardinality(FanInsOf(p)) + 1
      BY <3>1, TableSize DEF SendInv
    <3>3. incoming[p] \in Nat
      <4>1. {x \in RecvsOf(p) : Coming(x)} \subseteq FanIns
        BY <3>1
      <4>2. Cardinality({x \in RecvsOf(p) : Coming(x)}) \in Nat
        BY <4>1, FanInsFinite
      <4> QED
        BY <4>2 DEF IncomingInv
    <3>4. outgoing[p] \in Nat
      <4>1. {x \in FanInsOf(p) : Unsent(x) \/ Pending(x)} \subseteq FanIns /\ outgoing[p] \in Int
        BY <3>1 DEF EngineInv, EngineTypes
      <4>2. Cardinality({x \in FanInsOf(p) : Unsent(x) \/ Pending(x)}) \in Nat
        BY <4>1, FanInsFinite
      <4> QED
        BY <4>1, <4>2 DEF SendInv
    <3> QED
      BY <3>2, <3>3, <3>4 DEF ReqNbr, FaninNbr
  <2>2. EngineTypeOK([p \in Procs |-> ReqNbr(p)])
    <3>1. incoming = [p \in Procs |-> incoming[p]] /\ outgoing = [p \in Procs |-> outgoing[p]]
      BY DEF EngineInv, EngineTypes
    <3>2. incoming \in [Procs -> Nat] /\ outgoing \in [Procs -> Nat]
      BY <2>1, <3>1
    <3> QED
      BY <2>1, <3>2 DEF EngineTypeOK, EngineInv, EngineTypes
  <2>3. SchedTypeOK
    BY DEF SchedTypeOK, StaticInv, StaticTypes, Placed, CounterInv
  <2> QED
    BY <2>2, <2>3 DEF TypeOK, StaticInv, StaticTypes, GotInv, FanInInv
<1> QED
  BY <1>1, FactoInvariant, PTL

(* One thread of a process at a time tests and packs the table of          *)
(* requests, and the request of every emission in progress is in the table *)
(* once, or about to be registered: cpucblk_zmpi_progress.                 *)
THEOREM RequestsTrackedAlways == Spec => []RequestsTracked
<1>1. FactoInv => RequestsTracked
  BY TrackedByInv DEF FactoInv
<1> QED
  BY <1>1, FactoInvariant, PTL

(* A column block is computed once, when every contribution was added to   *)
(* it exactly once: cpucblk_zpotrfsp1d after the wait on ctrbcnt.          *)
THEOREM ComputedAfterAllAlways == Spec => []FactoComputedAfterAll
<1>1. FactoInv => FactoComputedAfterAll
  <2> SUFFICES ASSUME FactoInv, NEW c \in Cblks, runs[c] > 0
               PROVE  runs[c] = 1 /\ \A e \in Edges : Dst[e] = c => got[e] = 1
    BY DEF FactoComputedAfterAll
  <2> USE DEF FactoInv
  <2>1. runs[c] = 1
    <3>1. PICK t \in Threads : \E i \in 1 .. Len(Order[t]) : Order[t][i] = c
      BY OrderFacts
    <3>2. PICK i \in 1 .. Len(Order[t]) : Order[t][i] = c
      BY <3>1
    <3> QED
      BY <3>2 DEF StaticInv, RunsInOrder
  <2>2. ASSUME NEW e \in Edges, Dst[e] = c PROVE got[e] = 1
    <3>1. Home(e) = <<Own[Src[e]], c>> /\ e \in Contribs(Home(e))
      BY <2>2, EdgeFacts DEF Home
    <3>2. CASE Own[Src[e]] = Own[c]
      <4>1. e \notin LeftEdges
        BY <3>1, <3>2 DEF ReadyInv
      <4>2. e \notin FreshEdges
        BY <4>1, EdgesNested
      <4> QED
        BY <2>2, <3>2, <4>2 DEF GotInv
    <3>3. CASE Own[Src[e]] # Own[c]
      <4>1. PICK x \in FanIns : x = Home(e)
        BY <2>2, <3>3, EdgeFacts
      <4>2. x \in RecvsTo(c)
        BY <3>1, <4>1 DEF RecvsTo
      <4>3. ~ Coming(x) /\ ~ Taking(x)
        BY <4>2 DEF ReadyInv
      <4>4. ~ Adding(x)
        BY <4>3 DEF Adding, Taking
      <4> QED
        BY <3>1, <4>1, <4>3, <4>4 DEF GotInv
    <3> QED
      BY <3>2, <3>3
  <2> QED
    BY <2>1, <2>2
<1> QED
  BY <1>1, FactoInvariant, PTL

(* A process that leaves the factorization has closed its reception, no    *)
(* message is in transit to it, its fan-ins are sent and freed, and its    *)
(* column blocks wait for nothing: solverRequestExit and solverRecvExit.   *)
THEOREM CleanExitAlways == Spec => []FactoCleanExit
<1>1. FactoInv => FactoCleanExit
  <2> SUFFICES ASSUME FactoInv, NEW p \in Procs, phase[p] = "exit"
               PROVE  /\ recvreq[p] = "freed" /\ incoming[p] = 0
                      /\ \A q \in Procs : net[<<q, p>>] = <<>>
                      /\ \A x \in FanIns : /\ x[1] = p => x \notin sending /\ fanin[x] = <<>>
                                           /\ Own[x[2]] = p => ctrbcnt[x] = 0
    BY DEF FactoCleanExit
  <2> USE DEF FactoInv
  <2>1. reqtab[p] = <<>>
    BY DEF SendInv
  <2>2. recvreq[p] = "freed" /\ incoming[p] = 0
    <3>1. recvreq[p] = "freed"
      BY <2>1 DEF EngineInv, Reception
    <3>2. ~ (incoming[p] > 0) /\ incoming[p] = Cardinality({x \in RecvsOf(p) : Coming(x)})
      BY <3>1 DEF EngineInv, Reception, IncomingInv
    <3>3. {x \in RecvsOf(p) : Coming(x)} \subseteq FanIns
      BY RecvFacts
    <3>4. Cardinality({x \in RecvsOf(p) : Coming(x)}) \in Nat
      BY <3>3, FanInsFinite
    <3> QED
      BY <3>1, <3>2, <3>4
  <2>3. \A x \in RecvsOf(p) : ~ Coming(x)
    <3> DEFINE S == {x \in RecvsOf(p) : Coming(x)}
    <3>1. Cardinality(S) = 0
      BY <2>2 DEF IncomingInv
    <3>2. IsFiniteSet(S)
      <4>1. S \subseteq FanIns
        BY RecvFacts
      <4> QED
        BY <4>1, FanInsFinite
    <3>3. S = {}
      <4> HIDE DEF S
      <4> QED
        BY <3>1, <3>2, FS_EmptySet
    <3> QED
      BY <3>3
  <2>4. ASSUME NEW q \in Procs PROVE net[<<q, p>>] = <<>>
    <3>1. net[<<q, p>>] \in Seq(Msgs)
      BY DEF MessageInv
    <3>2. ASSUME net[<<q, p>>] # <<>> PROVE FALSE
      <4>1. 1 \in 1 .. Len(net[<<q, p>>])
        <5> DEFINE s == net[<<q, p>>]
        <5>1. s \in Seq(Msgs) /\ s # <<>>
          BY <3>1, <3>2
        <5> HIDE DEF s
        <5>2. Len(s) \in Nat /\ Len(s) # 0
          BY <5>1, EmptySeq, LenProperties
        <5> QED
          BY <5>2 DEF s
      <4>2. PICK x \in RecvsOf(p) : x[1] = q /\ net[<<q, p>>][1] = Msg(x)
        BY <4>1 DEF MessageInv
      <4>3. InNet(x)
        BY <4>1, <4>2, RecvFacts DEF InNet, Channel
      <4> QED
        BY <2>3, <4>3 DEF Coming
    <3> QED
      BY <3>2
  <2>5. ASSUME NEW t \in Threads, ProcOf(t) = p
        PROVE  /\ pc[t] = "end" /\ todo[t] = {} /\ posted[t] = NoIdx
               /\ \A i \in 1 .. Len(Order[t]) : runs[Order[t][i]] = 1
    <3>1. pc[t] = "end" /\ pos[t] = Len(Order[t]) + 1
      BY <2>5 DEF StaticInv, Placed
    <3>2. todo[t] = {} /\ posted[t] = NoIdx
      BY <3>1 DEF StaticInv, AtTask, Working, SendInv
    <3>3. \A i \in 1 .. Len(Order[t]) : i < pos[t]
      BY <3>1, OrderFacts
    <3> QED
      BY <3>1, <3>2, <3>3 DEF StaticInv, RunsInOrder
  <2>6. ASSUME NEW x \in FanIns, x[1] = p PROVE ~ Unsent(x) /\ ~ Pending(x)
    <3>1. ASSUME NEW e \in Contribs(x) \cap UnsentEdges PROVE FALSE
      <4>1. e \in Edges /\ Src[e] \in Cblks /\ x = Home(e)
        BY EdgeFacts, FanInsLocal
      <4>2. Own[Src[e]] = p
        <5>1. Home(e)[1] = Own[Src[e]]
          BY DEF Home
        <5> QED
          BY <2>6, <4>1, <5>1
      <4>3. PICK t \in Threads : \E i \in 1 .. Len(Order[t]) : ProcOf(t) = p /\ Order[t][i] = Src[e]
        BY <4>1, <4>2, OrderFacts
      <4>4. runs[Src[e]] # 0
        BY <2>5, <4>3
      <4>5. PICK u \in Threads : e \in todo[u]
        BY <3>1, <4>4 DEF UnsentEdges, EdgesBefore
      <4>6. Own[Src[e]] = ProcOf(u)
        BY <4>5, NextEdgeFacts
      <4> QED
        BY <2>5, <4>2, <4>5, <4>6
    <3>2. ~ Unsent(x)
      BY <3>1 DEF Unsent
    <3>3. ASSUME NEW t \in Threads, posted[t] = x PROVE FALSE
      <4>1. x # NoIdx
        BY FanInFacts
      <4>2. posted[t] = Target(t)
        BY <3>3, <4>1 DEF SendInv
      <4>3. ProcOf(t) = p
        BY <2>6, <3>3, <4>2 DEF Target
      <4> QED
        BY <2>5, <3>3, <4>1, <4>3
    <3>4. ASSUME NEW q \in Procs, NEW i \in 1 .. Len(reqtab[q]), reqtab[q][i].idx = x PROVE FALSE
      <4>1. x \in FanInsOf(q)
        BY <3>4, FanInFacts DEF SendInv
      <4>2. q = p
        BY <2>6, <4>1 DEF FanInsOf
      <4> QED
        BY <2>1, <4>2
    <3> QED
      BY <3>2, <3>3, <3>4 DEF Pending
  <2>7. ASSUME NEW x \in FanIns, x[1] = p PROVE x \notin sending /\ fanin[x] = <<>>
    <3>1. fanin[x] = <<>>
      BY <2>6, <2>7 DEF SendInv
    <3>2. ASSUME x \in sending PROVE Pending(x)
      BY <3>2 DEF EngineInv, SentTracked, Pending
    <3> QED
      BY <2>6, <2>7, <3>1, <3>2
  <2>8. ASSUME NEW x \in FanIns, Own[x[2]] = p PROVE ctrbcnt[x] = 0
    <3>1. ~ Unsent(x)
      BY <2>3, <2>8, RecvFacts DEF Coming
    <3>2. Contribs(x) \cap LeftEdges = {}
      BY <3>1, EdgesNested DEF Unsent
    <3>3. Counter(x) = 0
      <4>1. Cardinality(Contribs(x) \cap LeftEdges) = 0
        BY <3>2, FS_EmptySet
      <4> QED
        BY <4>1 DEF Counter
    <3> QED
      BY <3>3, FanInsLocal DEF CounterInv
  <2> QED
    BY <2>2, <2>4, <2>7, <2>8
<1> QED
  BY <1>1, FactoInvariant, PTL
=============================================================================
