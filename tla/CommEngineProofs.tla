-------------------------- MODULE CommEngineProofs --------------------------
(***************************************************************************)
(* Proofs about the communication engine, for any number of processes and  *)
(* of threads: one thread of a process at a time makes the communications  *)
(* progress, and the table of requests, that it tests and packs while      *)
(* other threads register theirs, neither loses nor duplicates one.        *)
(*                                                                         *)
(* One lemma for each step, under what the module that extends CommEngine  *)
(* must show of the labels around it: DistFactoProofs and DistSolveProofs  *)
(* use them.                                                               *)
(***************************************************************************)
EXTENDS CommEngine, SequenceTheorems, FiniteSetTheorems, WellFoundedInduction, TLAPS

-----------------------------------------------------------------------------
(* Numbers and sets.                                                       *)

(* A set of numbers that is not empty has a smallest element.              *)
LEMMA SmallestNat ==
    ASSUME NEW S \in SUBSET Nat, S # {}
    PROVE  \E n \in S : \A m \in S : n <= m
<1> DEFINE R == {ss \in Nat \X Nat : ss[1] < ss[2]}
<1>1. IsWellFoundedOn(R, Nat)
  BY NatLessThanWellFounded, Zenon DEF OpToRel
<1> HIDE DEF R
<1>2. \E n \in S : \A m \in S : ~ (<<m, n>> \in R)
  BY <1>1, WFMin
<1>3. PICK n \in S : \A m \in S : ~ (<<m, n>> \in R)
  BY <1>2
<1>4. ASSUME NEW m \in S PROVE n <= m
  <2>1. ~ (<<m, n>> \in R)
    BY <1>3
  <2>2. ~ (m < n)
    BY <2>1 DEF R
  <2> QED
    BY <2>2
<1> QED
  BY <1>4

(* So has a finite set of integers.                                        *)
LEMMA MinOfFinite ==
    ASSUME NEW S \in SUBSET Int, IsFiniteSet(S), S # {}
    PROVE  Min(S) \in S /\ \A x \in S : Min(S) <= x
<1> DEFINE Less(x) == {y \in S : y < x}
           N == {Cardinality(Less(x)) : x \in S}
<1>1. \A x \in S : IsFiniteSet(Less(x)) /\ Cardinality(Less(x)) \in Nat
  BY FS_Subset, FS_CardinalityType
<1>2. N \subseteq Nat /\ N # {}
  BY <1>1
<1>3. PICK n \in N : \A m \in N : n <= m
  BY <1>2, SmallestNat
<1>4. PICK x \in S : n = Cardinality(Less(x))
  BY <1>3
<1>5. ASSUME NEW y \in S PROVE x <= y
  <2> SUFFICES ASSUME y < x PROVE FALSE
    OBVIOUS
  <2>1. Less(y) \subseteq Less(x) /\ y \in Less(x) /\ y \notin Less(y)
    <3>1. \A z \in S : z \in Int
      OBVIOUS
    <3>2. \A z \in S : z < y => z < x
      BY <3>1
    <3>3. ~ (y < y)
      BY <3>1
    <3>4. Less(y) \subseteq Less(x)
      BY <3>2
    <3>5. y \in Less(x)
      OBVIOUS
    <3>6. y \notin Less(y)
      BY <3>3
    <3> QED
      BY <3>4, <3>5, <3>6
  <2>2. Cardinality(Less(y)) <= Cardinality(Less(x)) /\ Cardinality(Less(y)) # Cardinality(Less(x))
    BY <1>1, <2>1, FS_Subset
  <2>3. n <= Cardinality(Less(y))
    BY <1>3
  <2> QED
    BY <1>1, <1>4, <2>2, <2>3
<1> QED
  BY <1>5 DEF Min

(* So has it a largest one.                                                *)
LEMMA MaxOfFinite ==
    ASSUME NEW S \in SUBSET Int, IsFiniteSet(S), S # {}
    PROVE  Max(S) \in S /\ \A x \in S : x <= Max(S)
<1> DEFINE N == {0 - x : x \in S}
<1>1. IsFiniteSet(N) /\ N \subseteq Int /\ N # {}
  <2> DEFINE f == [x \in S |-> 0 - x]
  <2>1. f \in Surjection(S, N)
    BY DEF Surjection
  <2>2. IsFiniteSet(N)
    BY <2>1, FS_Surjection
  <2>3. N \subseteq Int
    OBVIOUS
  <2>4. N # {}
    <3>1. PICK x \in S : TRUE
      OBVIOUS
    <3>2. 0 - x \in N
      BY <3>1
    <3> QED
      BY <3>2
  <2> QED
    BY <2>2, <2>3, <2>4
<1> HIDE DEF N
<1>2. Min(N) \in N /\ \A y \in N : Min(N) <= y
  BY <1>1, MinOfFinite
<1>3. PICK x \in S : Min(N) = 0 - x
  BY <1>2 DEF N
<1>4. ASSUME NEW y \in S PROVE y <= x
  <2>1. 0 - y \in N
    BY DEF N
  <2> QED
    BY <1>2, <1>3, <2>1
<1> QED
  BY <1>4 DEF Max

-----------------------------------------------------------------------------
(* cpucblk_zupdate_reqtab.                                                 *)

(* The loop over the table computes a function of the entries read so far. *)
LEMMA PackedLoop ==
    ASSUME NEW S, \A r \in S : r.live \in BOOLEAN, NEW s \in Seq(S)
    PROVE  \E f : /\ f = [n \in 0 .. Len(s) |-> IF n = 0 THEN <<>>
                              ELSE IF s[n].live THEN Append(f[n - 1], s[n]) ELSE f[n - 1]]
                  /\ Packed(s) = f[Len(s)]
<1> DEFINE Loop(f, m) == f = [n \in 0 .. m |-> IF n = 0 THEN <<>>
                              ELSE IF s[n].live THEN Append(f[n - 1], s[n]) ELSE f[n - 1]]
           Bad == {m \in Nat : ~ \E f : Loop(f, m)}
<1>1. Bad = {}
  <2> SUFFICES ASSUME Bad # {} PROVE FALSE
    OBVIOUS
  <2>1. PICK m \in Bad : \A k \in Bad : m <= k
    BY SmallestNat
  <2>2. m # 0
    <3>1. Loop([n \in 0 .. 0 |-> <<>>], 0)
      OBVIOUS
    <3> QED
      BY <3>1
  <2>3. PICK g : Loop(g, m - 1)
    <3>1. m - 1 \in Nat /\ ~ (m <= m - 1)
      BY <2>2
    <3> HIDE DEF Loop
    <3>2. m - 1 \notin Bad
      BY <2>1, <3>1
    <3> QED
      BY <3>1, <3>2
  <2> DEFINE h == [n \in 0 .. m |-> IF n = m THEN IF s[m].live THEN Append(g[m - 1], s[m]) ELSE g[m - 1]
                                    ELSE g[n]]
  <2>4. Loop(h, m)
    <3> SUFFICES ASSUME NEW n \in 0 .. m
                 PROVE  h[n] = IF n = 0 THEN <<>>
                               ELSE IF s[n].live THEN Append(h[n - 1], s[n]) ELSE h[n - 1]
      OBVIOUS
    <3>1. CASE n = m
      BY <2>2, <3>1
    <3>2. CASE n # m
      <4>1. n \in 0 .. m - 1
        BY <3>2
      <4>2. g[n] = IF n = 0 THEN <<>> ELSE IF s[n].live THEN Append(g[n - 1], s[n]) ELSE g[n - 1]
        BY <2>3, <4>1
      <4>3. h[n] = g[n] /\ (n # 0 => h[n - 1] = g[n - 1])
        BY <4>1
      <4> QED
        BY <4>2, <4>3
    <3> QED
      BY <3>1, <3>2
  <2> QED
    BY <2>1, <2>4
<1>2. \E f : Loop(f, Len(s))
  <2>1. Len(s) \in Nat
    OBVIOUS
  <2> HIDE DEF Loop
  <2> QED
    BY <1>1, <2>1
<1>3. Packed(s) = (CHOOSE f : Loop(f, Len(s)))[Len(s)]
  BY DEF Packed
<1> QED
  BY <1>2, <1>3

(* Its invariant: g packs the first n requests of s.                       *)
Packs(s, g, n) ==
    /\ Len(g) <= n
    /\ \A i \in 1 .. Len(g) : \E j \in 1 .. n : s[j].live /\ g[i] = s[j]
    /\ \A j \in 1 .. n : s[j].live => \E i \in 1 .. Len(g) : g[i] = s[j]
    /\ (\A i, j \in 1 .. Len(s) : s[i].idx = s[j].idx => i = j) =>
          \A i, j \in 1 .. Len(g) : g[i].idx = g[j].idx => i = j

LEMMA PacksOneMore ==
    ASSUME NEW S, \A r \in S : r.live \in BOOLEAN, NEW s \in Seq(S),
           NEW n \in 1 .. Len(s), NEW g \in Seq(S), Packs(s, g, n - 1)
    PROVE  Packs(s, IF s[n].live THEN Append(g, s[n]) ELSE g, n)
<1>1. Len(s) \in Nat /\ Len(g) \in Nat /\ n \in Nat /\ s[n] \in S /\ s[n].live \in BOOLEAN
  OBVIOUS
<1>2. 1 .. n = (1 .. n - 1) \cup {n}
  BY <1>1
<1>3. CASE ~ s[n].live
  <2>1. Packs(s, g, n)
    BY <1>1, <1>2, <1>3 DEF Packs
  <2> QED
    BY <1>3, <2>1
<1>4. CASE s[n].live
  <2> DEFINE h == Append(g, s[n])
  <2>1. /\ h \in Seq(S) /\ Len(h) = Len(g) + 1
        /\ \A i \in 1 .. Len(g) : h[i] = g[i]
        /\ h[Len(g) + 1] = s[n]
    BY <1>1, AppendProperties
  <2> HIDE DEF h
  <2>2. 1 .. Len(h) = (1 .. Len(g)) \cup {Len(g) + 1}
    BY <1>1, <2>1
  <2>3. \A i \in 1 .. Len(h) : \E j \in 1 .. n : s[j].live /\ h[i] = s[j]
    <3> SUFFICES ASSUME NEW i \in 1 .. Len(h) PROVE \E j \in 1 .. n : s[j].live /\ h[i] = s[j]
      OBVIOUS
    <3>1. CASE i = Len(g) + 1
      BY <1>2, <1>4, <2>1, <3>1
    <3>2. CASE i \in 1 .. Len(g)
      BY <1>2, <2>1, <3>2 DEF Packs
    <3> QED
      BY <2>2, <3>1, <3>2
  <2>4. \A j \in 1 .. n : s[j].live => \E i \in 1 .. Len(h) : h[i] = s[j]
    <3> SUFFICES ASSUME NEW j \in 1 .. n, s[j].live PROVE \E i \in 1 .. Len(h) : h[i] = s[j]
      OBVIOUS
    <3>1. CASE j = n
      BY <2>1, <2>2, <3>1
    <3>2. CASE j \in 1 .. n - 1
      <4>1. PICK i \in 1 .. Len(g) : g[i] = s[j]
        BY <3>2 DEF Packs
      <4> QED
        BY <2>1, <2>2, <4>1
    <3> QED
      BY <1>2, <3>1, <3>2
  <2>5. ASSUME \A i, j \in 1 .. Len(s) : s[i].idx = s[j].idx => i = j
        PROVE  \A i, j \in 1 .. Len(h) : h[i].idx = h[j].idx => i = j
    <3>1. \A i \in 1 .. Len(g) : g[i].idx # s[n].idx
      <4> SUFFICES ASSUME NEW i \in 1 .. Len(g), g[i].idx = s[n].idx PROVE FALSE
        OBVIOUS
      <4>1. PICK j \in 1 .. n - 1 : g[i] = s[j]
        BY DEF Packs
      <4>2. j = n
        BY <1>1, <2>5, <4>1
      <4> QED
        BY <1>1, <4>2
    <3>2. \A i, j \in 1 .. Len(g) : g[i].idx = g[j].idx => i = j
      BY <2>5 DEF Packs
    <3> QED
      BY <2>1, <2>2, <3>1, <3>2
  <2>6. Len(h) <= n
    BY <1>1, <2>1 DEF Packs
  <2>7. Packs(s, h, n)
    BY <2>3, <2>4, <2>5, <2>6 DEF Packs
  <2> QED
    BY <1>4, <2>7 DEF h
<1> QED
  BY <1>1, <1>3, <1>4

(* The packed table holds the requests that are not completed, each once.  *)
LEMMA PackedProperties ==
    ASSUME NEW S, \A r \in S : r.live \in BOOLEAN, NEW s \in Seq(S)
    PROVE  /\ Packed(s) \in Seq(S) /\ Len(Packed(s)) <= Len(s)
           /\ \A i \in 1 .. Len(Packed(s)) : \E j \in 1 .. Len(s) : s[j].live /\ Packed(s)[i] = s[j]
           /\ \A j \in 1 .. Len(s) : s[j].live => \E i \in 1 .. Len(Packed(s)) : Packed(s)[i] = s[j]
           /\ (\A i, j \in 1 .. Len(s) : s[i].idx = s[j].idx => i = j) =>
                 \A i, j \in 1 .. Len(Packed(s)) : Packed(s)[i].idx = Packed(s)[j].idx => i = j
<1> DEFINE Loop(f) == f = [n \in 0 .. Len(s) |-> IF n = 0 THEN <<>>
                              ELSE IF s[n].live THEN Append(f[n - 1], s[n]) ELSE f[n - 1]]
<1>1. PICK f : Loop(f) /\ Packed(s) = f[Len(s)]
  BY PackedLoop
<1>2. Len(s) \in Nat /\ \A n \in 1 .. Len(s) : s[n] \in S
  OBVIOUS
<1>3. f[0] = <<>>
  BY <1>1, <1>2
<1>4. ASSUME NEW n \in 1 .. Len(s)
      PROVE  f[n] = IF s[n].live THEN Append(f[n - 1], s[n]) ELSE f[n - 1]
  <2>1. n \in 0 .. Len(s) /\ n # 0
    BY <1>2
  <2> QED
    BY <1>1, <2>1
<1> HIDE DEF Loop
<1> DEFINE Good(n) == f[n] \in Seq(S) /\ Packs(s, f[n], n)
           Bad == {n \in 0 .. Len(s) : ~ Good(n)}
<1>5. Good(0)
  BY <1>2, <1>3 DEF Packs
<1>6. ASSUME NEW n \in 1 .. Len(s), Good(n - 1) PROVE Good(n)
  <2>1. f[n] = IF s[n].live THEN Append(f[n - 1], s[n]) ELSE f[n - 1]
    BY <1>4
  <2>2. f[n] \in Seq(S)
    BY <1>2, <1>6, <2>1
  <2>3. Packs(s, f[n], n)
    BY <1>6, <2>1, PacksOneMore
  <2> QED
    BY <2>2, <2>3
<1>7. Bad \subseteq Nat
  BY <1>2
<1> HIDE DEF Good
<1>8. Bad = {}
  <2> SUFFICES ASSUME Bad # {} PROVE FALSE
    OBVIOUS
  <2> HIDE DEF Bad
  <2>1. PICK n \in Bad : \A k \in Bad : n <= k
    BY <1>7, SmallestNat
  <2> USE DEF Bad
  <2>2. n \in 1 .. Len(s) /\ n - 1 \in 0 .. Len(s)
    BY <1>2, <1>5
  <2>3. n - 1 \notin Bad
    BY <1>7, <2>1, <2>2
  <2> QED
    BY <1>6, <2>2, <2>3
<1>9. Good(Len(s))
  BY <1>2, <1>8
<1>10. Packed(s) \in Seq(S) /\ Packs(s, Packed(s), Len(s))
  BY <1>1, <1>9 DEF Good
<1> QED
  BY <1>10 DEF Packs
-----------------------------------------------------------------------------
(* The structure.                                                          *)

LEMMA MinOfNats ==
    ASSUME NEW S \in SUBSET Nat, S # {}
    PROVE  Min(S) \in S /\ \A x \in S : Min(S) <= x
<1>1. PICK n \in S : \A m \in S : n <= m
  BY SmallestNat
<1> QED
  BY <1>1 DEF Min

LEMMA ThreadFacts ==
    /\ \A t \in Threads : ProcOf(t) \in Procs /\ t \in ThreadsOf(ProcOf(t))
    /\ \A p \in Procs : \A t \in ThreadsOf(p) : t \in Threads /\ ProcOf(t) = p
    /\ NoThread \notin Threads /\ NoThread \notin Procs
BY EngineAssumption DEF Threads, ThreadsOf, ProcOf

LEMMA FanInFacts ==
    /\ \A x \in FanIns : /\ x[1] \in Procs /\ x[2] \in Cblks /\ Own[x[2]] \in Procs
                         /\ x = <<x[1], x[2]>> /\ Own[x[2]] # x[1]
                         /\ ProcEdges(x[1], x[2]) # {}
    /\ NoIdx \notin FanIns
<1>1. Own \in [Cblks -> Procs]
  BY StructureAssumption
<1>2. NoThread \notin Procs
  BY EngineAssumption
<1> QED
  BY <1>1, <1>2 DEF FanIns, NoIdx

LEMMA FanInsFinite ==
    /\ IsFiniteSet(FanIns)
    /\ \A S : S \subseteq FanIns => IsFiniteSet(S) /\ Cardinality(S) \in Nat
<1>1. IsFiniteSet(Procs \X Cblks)
  BY StructureAssumption, FS_Product
<1>2. FanIns \subseteq Procs \X Cblks
  BY DEF FanIns
<1>3. IsFiniteSet(FanIns)
  BY <1>1, <1>2, FS_Subset
<1> QED
  BY <1>3, FS_Subset, FS_CardinalityType

(* The fan-ins are local to the process that contributes.                  *)
LEMMA FanInsLocal ==
    /\ \A x \in FanIns : x \in Local
    /\ \A c \in Cblks : <<Own[c], c>> \in Local \ FanIns
BY FanInFacts DEF Local

LEMMA RecvFacts ==
    /\ \A p : \A x \in RecvsOf(p) : x \in FanIns /\ Own[x[2]] = p
    /\ \A c : \A x \in RecvsTo(c) : x \in FanIns /\ x[2] = c
    /\ \A x \in FanIns : x \in RecvsOf(Own[x[2]]) /\ x \in RecvsTo(x[2]) /\ x \in FanInsOf(x[1])
BY DEF RecvsOf, RecvsTo, FanInsOf

LEMMA FanInContent == \A E : <<E>> # <<>> /\ <<E>>[1] = E
OBVIOUS

LEMMA EdgesFinite == \A S : S \subseteq Edges => IsFiniteSet(S) /\ Cardinality(S) \in Nat
BY StructureAssumption, FS_Subset, FS_CardinalityType

(* Every column block is at one place of one list.                         *)
LEMMA OrderFacts ==
    /\ \A t \in Threads : Len(Order[t]) \in Nat
    /\ \A t \in Threads : \A i \in 1 .. Len(Order[t]) :
          Order[t][i] \in Cblks /\ Own[Order[t][i]] = ProcOf(t)
    /\ \A t, u \in Threads : \A i \in 1 .. Len(Order[t]) : \A j \in 1 .. Len(Order[u]) :
          Order[t][i] = Order[u][j] => t = u /\ i = j
    /\ \A c \in Cblks : \E t \in Threads : \E i \in 1 .. Len(Order[t]) :
          ProcOf(t) = Own[c] /\ Order[t][i] = c
<1>1. \A t \in Threads : Order[t] \in Seq(Cblks)
  BY OrderAssumption
<1>2. \A t \in Threads : Len(Order[t]) \in Nat /\ \A i \in 1 .. Len(Order[t]) : Order[t][i] \in Cblks
  BY <1>1
<1>3. \A t \in Threads : \A i \in 1 .. Len(Order[t]) : Order[t][i] \in Range(Order[t])
  BY <1>1 DEF Range
<1>4. \A t, u \in Threads : \A i \in 1 .. Len(Order[t]) : \A j \in 1 .. Len(Order[u]) :
          Order[t][i] = Order[u][j] => t = u /\ i = j
  <2> SUFFICES ASSUME NEW t \in Threads, NEW u \in Threads, NEW i \in 1 .. Len(Order[t]),
                      NEW j \in 1 .. Len(Order[u]), Order[t][i] = Order[u][j]
               PROVE  t = u /\ i = j
    OBVIOUS
  <2>1. t = u
    BY <1>3, OrderAssumption
  <2> QED
    BY <2>1, OrderAssumption
<1>5. \A c \in Cblks : \E t \in Threads : \E i \in 1 .. Len(Order[t]) :
          ProcOf(t) = Own[c] /\ Order[t][i] = c
  BY OrderAssumption DEF Contains
<1>6. \A t \in Threads : \A i \in 1 .. Len(Order[t]) : Own[Order[t][i]] = ProcOf(t)
  BY OrderAssumption
<1> QED
  BY <1>2, <1>4, <1>5, <1>6

-----------------------------------------------------------------------------
(* The invariant of the engine.                                            *)

Entry == [live : BOOLEAN, idx : FanIns \cup {NoIdx}]

(* A thread that makes the communications progress, or that still uses the *)
(* message it received meanwhile.                                          *)
Elected(t) == pc[t] \in Communicating \/ held[t] # NoMsg

EngineTypes ==
    /\ pc = [t \in Threads |-> pc[t]]
    /\ reqtab \in [Procs -> Seq(Entry)]
    /\ incoming \in [Procs -> Int] /\ outgoing \in [Procs -> Int]
    /\ commtid \in [Procs -> Threads \cup {NoThread}]
    /\ posted \in [Threads -> FanIns \cup {NoIdx}]
    /\ nbreq \in [Threads -> Nat] /\ nbfree \in [Threads -> Nat]
    /\ indexes \in [Threads -> SUBSET Nat]
    /\ held = [t \in Threads |-> held[t]]
    /\ recvreq \in [Procs -> {"active", "done", "inactive", "freed"}]
    /\ rcoeftab = [p \in Procs |-> rcoeftab[p]]
    /\ sending \subseteq FanIns
    /\ net = [pq \in Procs \X Procs |-> net[pq]]

(* pastix_comm_tid holds the identifier of the thread that was elected.    *)
CommTid ==
    /\ \A p \in Procs : commtid[p] \in ThreadsOf(p) \cup {NoThread}
    /\ \A t \in Threads : Elected(t) <=> commtid[ProcOf(t)] = t

(* A thread handles completed requests among those it counted, while they  *)
(* are in the table.                                                       *)
Counted ==
    \A t \in Threads :
        /\ ~ Elected(t) => nbreq[t] = 0
        /\ nbreq[t] <= Len(reqtab[ProcOf(t)]) /\ indexes[t] \subseteq 1 .. nbreq[t]
        /\ indexes[t] # {} => pc[t] = "handle" \/ held[t] # NoMsg
        /\ held[t] # NoMsg => /\ pc[t] \notin Communicating \cup {"elect"}
                              /\ indexes[t] # {} /\ Handled(t) = NoIdx

(* No request is twice in the tables.                                      *)
Distinct ==
    \A p, q \in Procs : \A i \in 1 .. Len(reqtab[p]) : \A j \in 1 .. Len(reqtab[q]) :
        /\ reqtab[p][i].idx = reqtab[q][j].idx
        /\ p = q \/ reqtab[p][i].idx # NoIdx
        => p = q /\ i = j

(* A request that is not registered yet is in no table, and has one owner. *)
PostedOnce ==
    \A t \in Threads : posted[t] # NoIdx =>
        /\ \A q \in Procs : \A j \in 1 .. Len(reqtab[q]) : reqtab[q][j].idx # posted[t]
        /\ \A u \in Threads : posted[u] = posted[t] => u = t

(* An emission in progress is known to a table, or about to be.            *)
SentTracked ==
    \A x \in sending :
        \/ \E p \in Procs : \E i \in 1 .. Len(reqtab[p]) : reqtab[p][i].live /\ reqtab[p][i].idx = x
        \/ \E t \in Threads : posted[t] = x

(* An emission that was tested completed is not live any more.             *)
SentDead ==
    \A t \in Threads : \A i \in indexes[t] :
        reqtab[ProcOf(t)][i].idx # NoIdx => ~ reqtab[ProcOf(t)][i].live

(* A process waits for messages while its reception is in its table; it is *)
(* inactive while the message it brought is not taken.                     *)
Reception ==
    \A p \in Procs :
        /\ recvreq[p] # "freed" <=> incoming[p] > 0
        /\ recvreq[p] # "freed" <=>
              \E i \in 1 .. Len(reqtab[p]) : reqtab[p][i].live /\ reqtab[p][i].idx = NoIdx
        /\ \A t \in ThreadsOf(p) : \A i \in indexes[t] :
              held[t] = NoMsg /\ reqtab[p][i].idx = NoIdx => recvreq[p] = "inactive" /\ reqtab[p][i].live

EngineInv ==
    /\ EngineTypes /\ CommTid /\ Counted /\ Distinct
    /\ PostedOnce /\ SentTracked /\ SentDead /\ Reception

(* Two places of the tables with the same request are one place.           *)
LEMMA OnceInTables ==
    ASSUME Distinct, NEW p \in Procs, NEW q \in Procs,
           NEW i \in 1 .. Len(reqtab[p]), NEW j \in 1 .. Len(reqtab[q]),
           reqtab[p][i].idx = reqtab[q][j].idx, p = q \/ reqtab[p][i].idx # NoIdx
    PROVE  p = q /\ i = j
  BY DEF Distinct

-----------------------------------------------------------------------------
(* One lemma for each step of the engine.                                  *)

LEMMA EntryFields ==
    /\ \A r \in Entry : r.live \in BOOLEAN /\ r.idx \in FanIns \cup {NoIdx}
    /\ \A b \in BOOLEAN : \A x \in FanIns \cup {NoIdx} :
          /\ [live |-> b, idx |-> x] \in Entry
          /\ [live |-> b, idx |-> x].live = b /\ [live |-> b, idx |-> x].idx = x
BY DEF Entry

LEMMA ElectInv ==
    ASSUME EngineInv, NEW t \in Threads, NEW out, out \notin Communicating \cup {"elect"}, Elect(t, out)
    PROVE  EngineInv'
<1> DEFINE p == ProcOf(t)
<1>1. p \in Procs /\ t \in ThreadsOf(p) /\ NoThread \notin Threads
  BY ThreadFacts
<1>2. UNCHANGED <<tableVars, nbreq, indexes, nbfree, held, mpiVars>>
  BY DEF Elect
<1> USE DEF tableVars, mpiVars
<1>3. EngineTypes'
  <2>1. pc' = [u \in Threads |-> pc'[u]]
    BY DEF EngineInv, EngineTypes, Elect, Goto
  <2>2. commtid' \in [Procs -> Threads \cup {NoThread}]
    BY <1>1 DEF EngineInv, EngineTypes, Elect
  <2> QED
    BY <1>2, <2>1, <2>2 DEF EngineInv, EngineTypes
<1>4. held[t] = NoMsg /\ pc[t] = "elect" /\ ~ Elected(t) /\ nbreq[t] = 0
  BY DEF EngineInv, Counted, Elect, Elected, Communicating
<1>5. CommTid' /\ Counted'
  <2>1. CASE commtid[p] = NoThread /\ commtid' = [commtid EXCEPT ![p] = t] /\ Goto(t, "snapshot")
    <3>1. \A u \in Threads : pc'[u] = IF u = t THEN "snapshot" ELSE pc[u]
      BY <2>1 DEF EngineInv, EngineTypes, Goto
    <3>2. \A q \in Procs : commtid'[q] = IF q = p THEN t ELSE commtid[q]
      BY <1>1, <2>1 DEF EngineInv, EngineTypes
    <3>3. CommTid'
      BY <1>1, <1>2, <2>1, <3>1, <3>2, ThreadFacts DEF EngineInv, CommTid, Elected, Communicating
    <3>4. Counted'
      BY <1>2, <1>4, <3>1 DEF EngineInv, Counted, Elected, Communicating, Handled, Index
    <3> QED
      BY <3>3, <3>4
  <2>2. CASE Goto(t, out) /\ commtid' = commtid
    <3>1. \A u \in Threads : pc'[u] = IF u = t THEN out ELSE pc[u]
      BY <2>2 DEF EngineInv, EngineTypes, Goto
    <3>2. \A u \in Threads : Elected(u)' <=> Elected(u)
      BY <1>2, <1>4, <3>1 DEF Elected, Communicating
    <3>3. CommTid'
      BY <2>2, <3>2 DEF EngineInv, CommTid
    <3>4. Counted'
      BY <1>2, <1>4, <3>1, <3>2 DEF EngineInv, Counted, Handled, Index
    <3> QED
      BY <3>3, <3>4
  <2> QED
    BY <2>1, <2>2 DEF Elect
<1>6. Distinct' /\ PostedOnce' /\ SentTracked' /\ SentDead' /\ Reception'
  BY <1>2 DEF EngineInv, Distinct, PostedOnce, SentTracked, SentDead, Reception
<1> QED
  BY <1>3, <1>5, <1>6 DEF EngineInv

LEMMA SnapshotInv ==
    ASSUME EngineInv, NEW t \in Threads, Snapshot(t)
    PROVE  EngineInv'
<1> DEFINE p == ProcOf(t)
<1>1. p \in Procs /\ t \in ThreadsOf(p) /\ NoThread \notin Threads
  BY ThreadFacts
<1>2. UNCHANGED <<tableVars, commtid, indexes, nbfree, held, mpiVars>>
  BY DEF Snapshot
<1> USE DEF tableVars, mpiVars
<1>3. \A u \in Threads : nbreq'[u] = IF u = t THEN Len(reqtab[p]) ELSE nbreq[u]
  BY DEF EngineInv, EngineTypes, Snapshot
<1>4. /\ pc[t] = "snapshot" /\ pc'[t] \in {"test", "leave"}
      /\ \A u \in Threads : u # t => pc'[u] = pc[u]
  BY DEF EngineInv, EngineTypes, Snapshot, Goto
<1>5. Len(reqtab[p]) \in Nat
  BY <1>1 DEF EngineInv, EngineTypes
<1>6. EngineTypes'
  <2>1. pc' = [u \in Threads |-> pc'[u]]
    BY DEF EngineInv, EngineTypes, Snapshot, Goto
  <2>2. nbreq' \in [Threads -> Nat]
    BY <1>5 DEF EngineInv, EngineTypes, Snapshot
  <2> QED
    BY <1>2, <2>1, <2>2 DEF EngineInv, EngineTypes
<1>7. \A u \in Threads : Elected(u)' <=> Elected(u)
  BY <1>2, <1>4 DEF Elected, Communicating
<1>8. CommTid'
  BY <1>2, <1>7 DEF EngineInv, CommTid
<1>9. indexes[t] = {} /\ held[t] = NoMsg
  BY <1>4 DEF EngineInv, Counted, Communicating
<1>10. Counted'
  BY <1>2, <1>3, <1>4, <1>5, <1>7, <1>9 DEF EngineInv, Counted, Handled, Index, Communicating, Elected
<1>11. Distinct' /\ PostedOnce' /\ SentTracked' /\ SentDead' /\ Reception'
  BY <1>2 DEF EngineInv, Distinct, PostedOnce, SentTracked, SentDead, Reception
<1> QED
  BY <1>6, <1>8, <1>10, <1>11 DEF EngineInv

LEMMA LeaveInv ==
    ASSUME EngineInv, NEW t \in Threads, NEW out, out \notin Communicating, Leave(t, out)
    PROVE  EngineInv'
<1> DEFINE p == ProcOf(t)
<1>1. p \in Procs /\ t \in ThreadsOf(p) /\ NoThread \notin Threads
  BY ThreadFacts
<1>2. UNCHANGED <<tableVars, indexes, nbfree, held, mpiVars>>
  BY DEF Leave
<1> USE DEF tableVars, mpiVars
<1>3. \A u \in Threads : nbreq'[u] = IF u = t THEN 0 ELSE nbreq[u]
  BY DEF EngineInv, EngineTypes, Leave
<1>4. /\ pc[t] = "leave" /\ pc'[t] = out
      /\ \A u \in Threads : u # t => pc'[u] = pc[u]
  BY DEF EngineInv, EngineTypes, Leave, Goto
<1>5. \A q \in Procs : commtid'[q] = IF q = p THEN NoThread ELSE commtid[q]
  BY <1>1 DEF EngineInv, EngineTypes, Leave
<1>6. EngineTypes'
  <2>1. pc' = [u \in Threads |-> pc'[u]]
    BY DEF EngineInv, EngineTypes, Leave, Goto
  <2>2. nbreq' \in [Threads -> Nat]
    BY DEF EngineInv, EngineTypes, Leave
  <2>3. commtid' \in [Procs -> Threads \cup {NoThread}]
    BY DEF EngineInv, EngineTypes, Leave
  <2> QED
    BY <1>2, <2>1, <2>2, <2>3 DEF EngineInv, EngineTypes
<1>7. indexes[t] = {} /\ held[t] = NoMsg
  BY <1>4 DEF EngineInv, Counted, Communicating
<1>8. commtid[p] = t
  BY <1>4 DEF EngineInv, CommTid, Elected, Communicating
<1>9. \A u \in Threads : Elected(u)' <=> u # t /\ Elected(u)
  BY <1>2, <1>4, <1>7 DEF Elected, Communicating
<1>10. CommTid'
  BY <1>1, <1>5, <1>8, <1>9, ThreadFacts DEF EngineInv, CommTid
<1>11. Counted'
  <2>1. \A u \in Threads : Len(reqtab[ProcOf(u)]) \in Nat
    BY ThreadFacts DEF EngineInv, EngineTypes
  <2> QED
    BY <1>2, <1>3, <1>4, <1>7, <1>9, <2>1 DEF EngineInv, Counted, Handled, Index, Communicating
<1>12. Distinct' /\ PostedOnce' /\ SentTracked' /\ SentDead' /\ Reception'
  BY <1>2 DEF EngineInv, Distinct, PostedOnce, SentTracked, SentDead, Reception
<1> QED
  BY <1>6, <1>10, <1>11, <1>12 DEF EngineInv

LEMMA TestInv ==
    ASSUME EngineInv, NEW t \in Threads, Test(t)
    PROVE  EngineInv'
<1> DEFINE p == ProcOf(t)
           S == Completed(p, nbreq[t])
<1>1. p \in Procs /\ t \in ThreadsOf(p) /\ NoThread \notin Threads
  BY ThreadFacts
<1>2. UNCHANGED <<incoming, outgoing, posted, commtid, nbreq, nbfree, held, rcoeftab, sending, net>>
  BY DEF Test
<1>3. /\ pc[t] = "test" /\ pc'[t] \in {"handle", "leave"} /\ (pc'[t] = "leave" => S = {})
      /\ \A u \in Threads : u # t => pc'[u] = pc[u]
  BY DEF EngineInv, EngineTypes, Test, Goto
<1>4. /\ \A u \in Threads : indexes'[u] = IF u = t THEN S ELSE indexes[u]
      /\ \A q \in Procs : q # p => reqtab'[q] = reqtab[q] /\ recvreq'[q] = recvreq[q]
      /\ recvreq'[p] = IF \E i \in S : reqtab[p][i].idx = NoIdx THEN "inactive" ELSE recvreq[p]
  BY <1>1 DEF EngineInv, EngineTypes, Test
<1>5. Len(reqtab[p]) \in Nat /\ reqtab[p] \in Seq(Entry)
  BY <1>1 DEF EngineInv, EngineTypes
<1>6. nbreq[t] \in Nat /\ nbreq[t] <= Len(reqtab[p])
  BY DEF EngineInv, EngineTypes, Counted
<1>7. S \subseteq 1 .. nbreq[t] /\ S \subseteq 1 .. Len(reqtab[p])
  BY <1>5, <1>6 DEF Completed
<1>8. \A i \in S : /\ reqtab[p][i].live
                   /\ reqtab[p][i].idx = NoIdx => recvreq[p] = "done"
                   /\ reqtab[p][i].idx # NoIdx => reqtab[p][i].idx \notin sending
  BY DEF Completed
<1> DEFINE b(i) == reqtab[p][i].live /\ (i \in S => reqtab[p][i].idx = NoIdx)
<1>9. reqtab'[p] = [i \in 1 .. Len(reqtab[p]) |-> [live |-> b(i), idx |-> reqtab[p][i].idx]]
  <2>1. DOMAIN reqtab[p] = 1 .. Len(reqtab[p])
    BY <1>5
  <2>2. reqtab' = [reqtab EXCEPT ![p] =
              [i \in DOMAIN reqtab[p] |-> [live |-> b(i), idx |-> reqtab[p][i].idx]]]
    BY DEF Test
  <2> HIDE DEF b
  <2> QED
    BY <1>1, <2>1, <2>2 DEF EngineInv, EngineTypes
<1> HIDE DEF S
<1>10. \A i \in 1 .. Len(reqtab[p]) :
          /\ reqtab[p][i] \in Entry /\ reqtab[p][i].live \in BOOLEAN
          /\ reqtab'[p][i] \in Entry
          /\ reqtab'[p][i].idx = reqtab[p][i].idx
          /\ reqtab'[p][i].live <=> reqtab[p][i].live /\ (i \in S => reqtab[p][i].idx = NoIdx)
  <2> SUFFICES ASSUME NEW i \in 1 .. Len(reqtab[p])
               PROVE  /\ reqtab[p][i] \in Entry /\ reqtab[p][i].live \in BOOLEAN
                      /\ reqtab'[p][i] \in Entry
                      /\ reqtab'[p][i].idx = reqtab[p][i].idx
                      /\ reqtab'[p][i].live <=> reqtab[p][i].live /\ (i \in S => reqtab[p][i].idx = NoIdx)
    OBVIOUS
  <2>1. reqtab[p][i] \in Entry
    BY <1>5
  <2>2. b(i) \in BOOLEAN
    OBVIOUS
  <2>3. reqtab'[p][i] = [live |-> b(i), idx |-> reqtab[p][i].idx]
    BY <1>9
  <2>4. reqtab'[p][i].live = b(i) /\ reqtab'[p][i].idx = reqtab[p][i].idx /\ reqtab'[p][i] \in Entry
    <3> HIDE DEF b
    <3> QED
      BY <2>1, <2>2, <2>3, EntryFields
  <2> QED
    BY <2>1, <2>4, EntryFields
<1>11. reqtab'[p] \in Seq(Entry) /\ Len(reqtab'[p]) = Len(reqtab[p])
  <2>1. reqtab'[p] \in [1 .. Len(reqtab[p]) -> Entry] /\ Len(reqtab[p]) \in Nat
    <3> HIDE DEF b
    <3> QED
      BY <1>5, <1>9, <1>10
  <2> QED
    BY <2>1
<1>12. \A q \in Procs : /\ Len(reqtab'[q]) = Len(reqtab[q])
                        /\ \A i \in 1 .. Len(reqtab[q]) : reqtab'[q][i].idx = reqtab[q][i].idx
  BY <1>4, <1>10, <1>11
<1>13. EngineTypes'
  <2>1. pc' = [u \in Threads |-> pc'[u]]
    BY DEF EngineInv, EngineTypes, Test, Goto
  <2>2. indexes' \in [Threads -> SUBSET Nat]
    <3>1. S \subseteq Nat
      BY <1>6, <1>7
    <3> QED
      BY <3>1 DEF EngineInv, EngineTypes, Test, S
  <2>3. reqtab' \in [Procs -> Seq(Entry)]
    <3>1. reqtab' = [reqtab EXCEPT ![p] = reqtab'[p]]
      BY <1>1 DEF EngineInv, EngineTypes, Test
    <3> QED
      BY <1>11, <3>1 DEF EngineInv, EngineTypes
  <2>4. recvreq' \in [Procs -> {"active", "done", "inactive", "freed"}]
    BY <1>1 DEF EngineInv, EngineTypes, Test
  <2> QED
    BY <1>2, <2>1, <2>2, <2>3, <2>4 DEF EngineInv, EngineTypes
<1>14. \A u \in Threads : Elected(u)' <=> Elected(u)
  BY <1>2, <1>3 DEF Elected, Communicating
<1>15. CommTid'
  BY <1>2, <1>14 DEF EngineInv, CommTid
<1>16. held[t] = NoMsg /\ commtid[p] = t
  BY <1>3 DEF EngineInv, Counted, CommTid, Elected, Communicating
<1>17. \A u \in Threads : held[u] # NoMsg => u # t /\ ProcOf(u) # p
  BY <1>16 DEF EngineInv, CommTid, Elected
<1>18. Counted'
  <2> SUFFICES ASSUME NEW u \in Threads
               PROVE  /\ ~ Elected(u)' => nbreq'[u] = 0
                      /\ nbreq'[u] <= Len(reqtab'[ProcOf(u)]) /\ indexes'[u] \subseteq 1 .. nbreq'[u]
                      /\ indexes'[u] # {} => pc'[u] = "handle" \/ held'[u] # NoMsg
                      /\ held'[u] # NoMsg => /\ pc'[u] \notin Communicating \cup {"elect"}
                                             /\ indexes'[u] # {} /\ Handled(u)' = NoIdx
    BY DEF Counted
  <2>1. ProcOf(u) \in Procs
    BY ThreadFacts
  <2>2. CASE u = t
    BY <1>2, <1>3, <1>4, <1>6, <1>7, <1>11, <1>14, <1>16, <2>2 DEF EngineInv, Counted
  <2>3. CASE u # t
    <3>1. held[u] # NoMsg => Handled(u)' = Handled(u)
      BY <1>2, <1>4, <1>17, <2>1, <2>3 DEF Handled, Index
    <3> QED
      BY <1>2, <1>3, <1>4, <1>12, <1>14, <2>1, <2>3, <3>1 DEF EngineInv, Counted
  <2> QED
    BY <2>2, <2>3
<1>19. Distinct'
  <2> SUFFICES ASSUME NEW q \in Procs, NEW r \in Procs, NEW i \in 1 .. Len(reqtab'[q]), NEW j \in 1 .. Len(reqtab'[r]),
                      reqtab'[q][i].idx = reqtab'[r][j].idx, q = r \/ reqtab'[q][i].idx # NoIdx
               PROVE  q = r /\ i = j
    BY DEF Distinct
  <2>1. /\ i \in 1 .. Len(reqtab[q]) /\ reqtab'[q][i].idx = reqtab[q][i].idx
        /\ j \in 1 .. Len(reqtab[r]) /\ reqtab'[r][j].idx = reqtab[r][j].idx
    BY <1>12
  <2>2. reqtab[q][i].idx = reqtab[r][j].idx /\ (q = r \/ reqtab[q][i].idx # NoIdx)
    BY <2>1
  <2>3. Distinct
    BY DEF EngineInv
  <2> QED
    BY <2>1, <2>2, <2>3, OnceInTables
<1>20. PostedOnce'
  BY <1>2, <1>12 DEF EngineInv, PostedOnce
<1>21. SentTracked'
  <2> SUFFICES ASSUME NEW x \in sending, ~ \E u \in Threads : posted[u] = x
               PROVE  \E q \in Procs : \E i \in 1 .. Len(reqtab'[q]) : reqtab'[q][i].live /\ reqtab'[q][i].idx = x
    BY <1>2 DEF SentTracked
  <2>0. PICK q \in Procs : \E i \in 1 .. Len(reqtab[q]) : reqtab[q][i].live /\ reqtab[q][i].idx = x
    BY DEF EngineInv, SentTracked
  <2>1. PICK i \in 1 .. Len(reqtab[q]) : reqtab[q][i].live /\ reqtab[q][i].idx = x
    BY <2>0
  <2>2. reqtab'[q][i].live
    <3>1. CASE q = p
      <4>1. i \notin S \/ x = NoIdx
        BY <1>8, <2>1, <3>1
      <4> QED
        BY <1>10, <2>1, <3>1, <4>1
    <3>2. CASE q # p
      BY <1>4, <2>1, <3>2
    <3> QED
      BY <3>1, <3>2
  <2> QED
    BY <1>12, <2>1, <2>2
<1>22. \A u \in Threads : u # t /\ ProcOf(u) = p => indexes[u] = {}
  <2>1. \A u \in Threads : u # t /\ ProcOf(u) = p => ~ Elected(u)
    BY <1>16 DEF EngineInv, CommTid
  <2> QED
    BY <2>1 DEF EngineInv, Counted
<1>23. SentDead'
  <2> SUFFICES ASSUME NEW u \in Threads, NEW i \in indexes'[u], reqtab'[ProcOf(u)][i].idx # NoIdx
               PROVE  ~ reqtab'[ProcOf(u)][i].live
    BY DEF SentDead
  <2>1. CASE u = t
    BY <1>4, <1>7, <1>10, <2>1
  <2>2. CASE u # t
    <3>1. ProcOf(u) # p /\ ProcOf(u) \in Procs /\ i \in indexes[u]
      BY <1>4, <1>22, <2>2, ThreadFacts
    <3> QED
      BY <1>4, <3>1 DEF EngineInv, SentDead
  <2> QED
    BY <2>1, <2>2
<1>24. Reception'
  <2> SUFFICES ASSUME NEW q \in Procs
               PROVE  /\ recvreq'[q] # "freed" <=> incoming'[q] > 0
                      /\ recvreq'[q] # "freed" <=>
                           \E i \in 1 .. Len(reqtab'[q]) : reqtab'[q][i].live /\ reqtab'[q][i].idx = NoIdx
                      /\ \A u \in ThreadsOf(q) : \A i \in indexes'[u] :
                           held'[u] = NoMsg /\ reqtab'[q][i].idx = NoIdx =>
                              recvreq'[q] = "inactive" /\ reqtab'[q][i].live
    BY DEF Reception
  <2>1. /\ recvreq[q] # "freed" <=> incoming[q] > 0
        /\ recvreq[q] # "freed" <=>
              \E i \in 1 .. Len(reqtab[q]) : reqtab[q][i].live /\ reqtab[q][i].idx = NoIdx
        /\ \A u \in ThreadsOf(q) : \A i \in indexes[u] :
              held[u] = NoMsg /\ reqtab[q][i].idx = NoIdx => recvreq[q] = "inactive" /\ reqtab[q][i].live
    BY DEF EngineInv, Reception
  <2>2. CASE q # p
    <3>1. \A u \in ThreadsOf(q) : u \in Threads /\ u # t
      BY <1>1, <2>2, ThreadFacts
    <3> QED
      BY <1>2, <1>4, <2>1, <2>2, <3>1
  <2>3. CASE q = p
    <3>1. recvreq'[p] # "freed" <=> recvreq[p] # "freed"
      BY <1>4, <1>8
    <3>2. \A i \in 1 .. Len(reqtab[p]) : reqtab[p][i].idx = NoIdx => (reqtab'[p][i].live <=> reqtab[p][i].live)
      BY <1>10
    <3>3. \A u \in ThreadsOf(p) : u # t => indexes'[u] = {}
      BY <1>1, <1>4, <1>22, ThreadFacts
    <3>4. \A i \in indexes'[t] : reqtab'[p][i].idx = NoIdx => recvreq'[p] = "inactive" /\ reqtab'[p][i].live
      BY <1>4, <1>7, <1>8, <1>10
    <3> QED
      BY <1>2, <1>11, <1>12, <2>1, <2>3, <3>1, <3>2, <3>3, <3>4
  <2> QED
    BY <2>2, <2>3
<1> QED
  BY <1>13, <1>15, <1>18, <1>19, <1>20, <1>21, <1>23, <1>24 DEF EngineInv

(* What a thread knows of the request it handles.                          *)
LEMMA HandledFacts ==
    ASSUME EngineInv, NEW t \in Threads, indexes[t] # {}
    PROVE  /\ Index(t) \in indexes[t] /\ Index(t) \in 1 .. Len(reqtab[ProcOf(t)])
           /\ indexes[t] \subseteq 1 .. Len(reqtab[ProcOf(t)])
           /\ reqtab[ProcOf(t)][Index(t)] \in Entry
           /\ Handled(t) \in FanIns \cup {NoIdx}
           /\ Elected(t) /\ commtid[ProcOf(t)] = t
           /\ \A u \in Threads : u # t /\ ProcOf(u) = ProcOf(t) =>
                 ~ Elected(u) /\ held[u] = NoMsg /\ nbreq[u] = 0 /\ indexes[u] = {}
<1>1. ProcOf(t) \in Procs
  BY ThreadFacts
<1>2. reqtab[ProcOf(t)] \in Seq(Entry) /\ Len(reqtab[ProcOf(t)]) \in Nat
  BY <1>1 DEF EngineInv, EngineTypes
<1>3. indexes[t] \in SUBSET Nat /\ nbreq[t] \in Nat
  BY DEF EngineInv, EngineTypes
<1>4. indexes[t] \subseteq 1 .. nbreq[t] /\ nbreq[t] <= Len(reqtab[ProcOf(t)])
  BY DEF EngineInv, Counted
<1>5. Index(t) \in indexes[t]
  BY <1>3, MinOfNats DEF Index
<1>6. indexes[t] \subseteq 1 .. Len(reqtab[ProcOf(t)])
  BY <1>2, <1>3, <1>4
<1>7. reqtab[ProcOf(t)][Index(t)] \in Entry
  BY <1>2, <1>5, <1>6
<1>8. Elected(t) /\ commtid[ProcOf(t)] = t
  BY DEF EngineInv, Counted, CommTid, Elected, Communicating
<1>9. \A u \in Threads : u # t /\ ProcOf(u) = ProcOf(t) => ~ Elected(u)
  BY <1>8 DEF EngineInv, CommTid
<1>10. ASSUME NEW u \in Threads, ~ Elected(u)
       PROVE  held[u] = NoMsg /\ nbreq[u] = 0 /\ indexes[u] = {}
  BY <1>10 DEF EngineInv, Counted, Elected, Communicating
<1> QED
  BY <1>5, <1>6, <1>7, <1>8, <1>9, <1>10, EntryFields DEF Handled

LEMMA TakeMessageInv ==
    ASSUME EngineInv, NEW t \in Threads, NEW l, l \notin Communicating \cup {"elect"},
           TakeMessage(t), Goto(t, l), rcoeftab[ProcOf(t)] # NoMsg
    PROVE  EngineInv'
<1> DEFINE p == ProcOf(t)
           i0 == Index(t)
<1>1. p \in Procs /\ t \in ThreadsOf(p) /\ NoThread \notin Threads
  BY ThreadFacts
<1>2. UNCHANGED <<outgoing, posted, commtid, nbreq, indexes, rcoeftab, sending, net>>
  BY DEF TakeMessage
<1>3. /\ pc[t] = "handle" /\ indexes[t] # {} /\ Handled(t) = NoIdx
      /\ pc'[t] = l /\ \A u \in Threads : u # t => pc'[u] = pc[u]
  BY DEF EngineInv, EngineTypes, TakeMessage, Handles, Goto
<1>4. /\ i0 \in indexes[t] /\ i0 \in 1 .. Len(reqtab[p]) /\ reqtab[p][i0] \in Entry
      /\ \A u \in Threads : u # t /\ ProcOf(u) = p => ~ Elected(u) /\ held[u] = NoMsg /\ indexes[u] = {}
  BY <1>3, HandledFacts
<1>5. held[t] = NoMsg /\ commtid[p] = t
  BY <1>3 DEF EngineInv, Counted, CommTid, Elected, Communicating
<1>6. \A u \in Threads : held'[u] = IF u = t THEN rcoeftab[p] ELSE held[u]
  BY DEF EngineInv, EngineTypes, TakeMessage
<1>7. \A q \in Procs : incoming'[q] = IF q = p THEN incoming[p] - 1 ELSE incoming[q]
  BY <1>1 DEF EngineInv, EngineTypes, TakeMessage
<1>8. reqtab[p][i0].idx = NoIdx /\ recvreq[p] = "inactive" /\ reqtab[p][i0].live
  BY <1>1, <1>3, <1>4, <1>5 DEF EngineInv, Reception, Handled
<1>9. \A i \in 1 .. Len(reqtab[p]) : reqtab[p][i].idx = NoIdx => i = i0
  BY <1>1, <1>4, <1>8 DEF EngineInv, Distinct
<1>10. incoming[p] \in Int /\ reqtab[p] \in Seq(Entry) /\ Len(reqtab[p]) \in Nat
  BY <1>1 DEF EngineInv, EngineTypes
<1>13. /\ pc' = [u \in Threads |-> pc'[u]] /\ held' = [u \in Threads |-> held'[u]]
       /\ incoming' \in [Procs -> Int]
  <2>1. pc' = [u \in Threads |-> pc'[u]]
    BY DEF EngineInv, EngineTypes, Goto
  <2>2. held' = [u \in Threads |-> held'[u]]
    BY DEF EngineInv, EngineTypes, TakeMessage
  <2>3. incoming' \in [Procs -> Int]
    BY <1>1 DEF EngineInv, EngineTypes, TakeMessage
  <2> QED
    BY <2>1, <2>2, <2>3
<1> HIDE DEF i0
<1>11. CASE incoming'[p] > 0
  <2>1. UNCHANGED <<reqtab, nbfree>> /\ recvreq' = [recvreq EXCEPT ![p] = "active"]
    BY <1>1, <1>7, <1>10, <1>11 DEF TakeMessage
  <2>2. \A q \in Procs : recvreq'[q] = IF q = p THEN "active" ELSE recvreq[q]
    BY <1>1, <2>1 DEF EngineInv, EngineTypes
  <2>3. EngineTypes'
    <3>1. recvreq' \in [Procs -> {"active", "done", "inactive", "freed"}]
      BY <1>1, <2>1 DEF EngineInv, EngineTypes
    <3> QED
      BY <1>2, <1>13, <2>1, <3>1 DEF EngineInv, EngineTypes
  <2>4. \A u \in Threads : Elected(u)' <=> Elected(u)
    BY <1>3, <1>6 DEF Elected, Communicating
  <2>5. CommTid'
    BY <1>2, <2>4 DEF EngineInv, CommTid
  <2>6. \A u \in Threads : Handled(u)' = Handled(u)
    BY <1>2, <2>1 DEF Handled, Index
  <2>7. Counted'
    BY <1>2, <1>3, <1>6, <2>1, <2>4, <2>6 DEF EngineInv, Counted
  <2>8. Distinct' /\ PostedOnce' /\ SentTracked' /\ SentDead'
    BY <1>2, <2>1 DEF EngineInv, Distinct, PostedOnce, SentTracked, SentDead
  <2>9. Reception'
    <3> SUFFICES ASSUME NEW q \in Procs
                 PROVE  /\ recvreq'[q] # "freed" <=> incoming'[q] > 0
                        /\ recvreq'[q] # "freed" <=>
                             \E i \in 1 .. Len(reqtab'[q]) : reqtab'[q][i].live /\ reqtab'[q][i].idx = NoIdx
                        /\ \A u \in ThreadsOf(q) : \A i \in indexes'[u] :
                             held'[u] = NoMsg /\ reqtab'[q][i].idx = NoIdx =>
                                recvreq'[q] = "inactive" /\ reqtab'[q][i].live
      BY DEF Reception
    <3>1. CASE q = p
      <4>1. \A u \in ThreadsOf(p) : \A i \in indexes'[u] : held'[u] # NoMsg
        BY <1>1, <1>2, <1>4, <1>6, ThreadFacts
      <4> QED
        BY <1>4, <1>8, <1>11, <2>1, <2>2, <3>1, <4>1
    <3>2. CASE q # p
      <4>1. \A u \in ThreadsOf(q) : held'[u] = held[u]
        BY <1>1, <1>6, <3>2, ThreadFacts
      <4> QED
        BY <1>2, <1>7, <2>1, <2>2, <3>2, <4>1 DEF EngineInv, Reception
    <3> QED
      BY <3>1, <3>2
  <2> QED
    BY <2>3, <2>5, <2>7, <2>8, <2>9 DEF EngineInv
<1>12. CASE ~ (incoming'[p] > 0)
  <2>1. /\ reqtab' = [reqtab EXCEPT ![p][i0].live = FALSE] /\ nbfree' = [nbfree EXCEPT ![t] = @ + 1]
        /\ recvreq' = [recvreq EXCEPT ![p] = "freed"]
    BY <1>1, <1>7, <1>10, <1>12 DEF TakeMessage, i0
  <2>2. \A q \in Procs : recvreq'[q] = IF q = p THEN "freed" ELSE recvreq[q]
    BY <1>1, <2>1 DEF EngineInv, EngineTypes
  <2>3. /\ \A q \in Procs : q # p => reqtab'[q] = reqtab[q]
        /\ reqtab'[p] = [reqtab[p] EXCEPT ![i0] = [reqtab[p][i0] EXCEPT !.live = FALSE]]
    BY <1>1, <2>1 DEF EngineInv, EngineTypes
  <2>4. /\ [reqtab[p][i0] EXCEPT !.live = FALSE] \in Entry
        /\ ~ [reqtab[p][i0] EXCEPT !.live = FALSE].live
        /\ [reqtab[p][i0] EXCEPT !.live = FALSE].idx = reqtab[p][i0].idx
    BY <1>4 DEF Entry
  <2>5. /\ reqtab'[p] \in Seq(Entry) /\ Len(reqtab'[p]) = Len(reqtab[p])
        /\ \A i \in 1 .. Len(reqtab[p]) : i # i0 => reqtab'[p][i] = reqtab[p][i]
        /\ ~ reqtab'[p][i0].live /\ reqtab'[p][i0].idx = reqtab[p][i0].idx
    <3> DEFINE r == [reqtab[p][i0] EXCEPT !.live = FALSE]
    <3>1. r \in Entry /\ ~ r.live /\ r.idx = reqtab[p][i0].idx /\ reqtab'[p] = [reqtab[p] EXCEPT ![i0] = r]
      BY <2>3, <2>4
    <3> HIDE DEF r
    <3> QED
      BY <1>4, <1>10, <3>1, ExceptSeq
  <2>6. \A q \in Procs : /\ Len(reqtab'[q]) = Len(reqtab[q])
                         /\ \A i \in 1 .. Len(reqtab[q]) : reqtab'[q][i].idx = reqtab[q][i].idx
    BY <2>3, <2>5
  <2>7. EngineTypes'
    <3>1. reqtab' \in [Procs -> Seq(Entry)]
      <4>1. reqtab' = [reqtab EXCEPT ![p] = reqtab'[p]]
        BY <1>1, <2>1 DEF EngineInv, EngineTypes
      <4> QED
        BY <2>5, <4>1 DEF EngineInv, EngineTypes
    <3>2. nbfree' \in [Threads -> Nat] /\ recvreq' \in [Procs -> {"active", "done", "inactive", "freed"}]
      BY <1>1, <2>1 DEF EngineInv, EngineTypes
    <3> QED
      BY <1>2, <1>13, <3>1, <3>2 DEF EngineInv, EngineTypes
  <2>8. \A u \in Threads : Elected(u)' <=> Elected(u)
    BY <1>3, <1>6 DEF Elected, Communicating
  <2>9. CommTid'
    BY <1>2, <2>8 DEF EngineInv, CommTid
  <2>10. \A u \in Threads : indexes[u] # {} => Handled(u)' = Handled(u)
    <3> SUFFICES ASSUME NEW u \in Threads, indexes[u] # {} PROVE Handled(u)' = Handled(u)
      OBVIOUS
    <3>1. Index(u) \in 1 .. Len(reqtab[ProcOf(u)]) /\ ProcOf(u) \in Procs
      BY HandledFacts, ThreadFacts
    <3>2. Index(u)' = Index(u)
      BY <1>2 DEF Index
    <3> QED
      BY <2>6, <3>1, <3>2 DEF Handled
  <2>11. Counted'
    <3>1. \A u \in Threads : ProcOf(u) \in Procs
      BY ThreadFacts
    <3> QED
      BY <1>2, <1>3, <1>6, <2>6, <2>8, <2>10, <3>1 DEF EngineInv, Counted
  <2>12. Distinct' /\ PostedOnce'
    BY <1>2, <2>6 DEF EngineInv, Distinct, PostedOnce
  <2>13. SentTracked'
    <3> SUFFICES ASSUME NEW x \in sending, ~ \E u \in Threads : posted[u] = x
                 PROVE  \E q \in Procs : \E i \in 1 .. Len(reqtab'[q]) : reqtab'[q][i].live /\ reqtab'[q][i].idx = x
      BY <1>2 DEF SentTracked
    <3>1. PICK q \in Procs : \E i \in 1 .. Len(reqtab[q]) : reqtab[q][i].live /\ reqtab[q][i].idx = x
      BY DEF EngineInv, SentTracked
    <3>2. PICK i \in 1 .. Len(reqtab[q]) : reqtab[q][i].live /\ reqtab[q][i].idx = x
      BY <3>1
    <3>3. x # NoIdx
      BY FanInFacts DEF EngineInv, EngineTypes
    <3>4. reqtab'[q][i] = reqtab[q][i]
      BY <1>8, <2>3, <2>5, <3>2, <3>3
    <3> QED
      BY <2>6, <3>2, <3>4
  <2>14. SentDead'
    <3> SUFFICES ASSUME NEW u \in Threads, NEW i \in indexes[u], reqtab'[ProcOf(u)][i].idx # NoIdx
                 PROVE  ~ reqtab'[ProcOf(u)][i].live
      BY <1>2 DEF SentDead
    <3>1. i \in 1 .. Len(reqtab[ProcOf(u)]) /\ ProcOf(u) \in Procs
      BY HandledFacts, ThreadFacts
    <3>2. reqtab'[ProcOf(u)][i].live => reqtab[ProcOf(u)][i].live
      BY <2>3, <2>5, <3>1
    <3> QED
      BY <2>6, <3>1, <3>2 DEF EngineInv, SentDead
  <2>15. Reception'
    <3> SUFFICES ASSUME NEW q \in Procs
                 PROVE  /\ recvreq'[q] # "freed" <=> incoming'[q] > 0
                        /\ recvreq'[q] # "freed" <=>
                             \E i \in 1 .. Len(reqtab'[q]) : reqtab'[q][i].live /\ reqtab'[q][i].idx = NoIdx
                        /\ \A u \in ThreadsOf(q) : \A i \in indexes'[u] :
                             held'[u] = NoMsg /\ reqtab'[q][i].idx = NoIdx =>
                                recvreq'[q] = "inactive" /\ reqtab'[q][i].live
      BY DEF Reception
    <3>1. CASE q = p
      <4>1. \A u \in ThreadsOf(p) : \A i \in indexes'[u] : held'[u] # NoMsg
        BY <1>1, <1>2, <1>4, <1>6, ThreadFacts
      <4>2. ~ \E i \in 1 .. Len(reqtab'[p]) : reqtab'[p][i].live /\ reqtab'[p][i].idx = NoIdx
        BY <1>9, <2>5
      <4> QED
        BY <1>12, <2>2, <3>1, <4>1, <4>2
    <3>2. CASE q # p
      <4>1. \A u \in ThreadsOf(q) : held'[u] = held[u]
        BY <1>1, <1>6, <3>2, ThreadFacts
      <4> QED
        BY <1>2, <1>7, <2>2, <2>3, <3>2, <4>1 DEF EngineInv, Reception
    <3> QED
      BY <3>1, <3>2
  <2> QED
    BY <2>7, <2>9, <2>11, <2>12, <2>13, <2>14, <2>15 DEF EngineInv
<1> QED
  BY <1>11, <1>12

LEMMA DropMessageInv ==
    ASSUME EngineInv, NEW t \in Threads, DropMessage(t), held[t] # NoMsg
    PROVE  EngineInv'
<1> DEFINE p == ProcOf(t)
           i0 == Index(t)
<1>1. p \in Procs /\ t \in ThreadsOf(p) /\ NoThread \notin Threads
  BY ThreadFacts
<1>2. UNCHANGED <<tableVars, commtid, nbreq, nbfree, mpiVars>>
  BY DEF DropMessage
<1> USE DEF tableVars, mpiVars
<1>3. /\ indexes[t] # {} /\ Handled(t) = NoIdx
      /\ pc'[t] = "handle" /\ \A u \in Threads : u # t => pc'[u] = pc[u]
  BY DEF EngineInv, EngineTypes, Counted, DropMessage, Goto
<1>4. /\ i0 \in indexes[t] /\ indexes[t] \subseteq 1 .. Len(reqtab[p])
      /\ \A u \in Threads : u # t /\ ProcOf(u) = p => ~ Elected(u) /\ indexes[u] = {}
  BY <1>3, HandledFacts
<1>5. /\ \A u \in Threads : held'[u] = IF u = t THEN NoMsg ELSE held[u]
      /\ \A u \in Threads : indexes'[u] = IF u = t THEN indexes[t] \ {i0} ELSE indexes[u]
  BY DEF EngineInv, EngineTypes, DropMessage
<1>6. reqtab[p][i0].idx = NoIdx
  BY <1>3 DEF Handled
<1> HIDE DEF i0
<1>7. \A i \in indexes'[t] : reqtab[p][i].idx # NoIdx
  BY <1>1, <1>4, <1>5, <1>6 DEF EngineInv, Distinct
<1>8. EngineTypes'
  <2>1. pc' = [u \in Threads |-> pc'[u]]
    BY DEF EngineInv, EngineTypes, DropMessage, Goto
  <2>2. held' = [u \in Threads |-> held'[u]]
    BY DEF EngineInv, EngineTypes, DropMessage
  <2>3. indexes' \in [Threads -> SUBSET Nat]
    BY DEF EngineInv, EngineTypes, DropMessage
  <2> QED
    BY <1>2, <2>1, <2>2, <2>3 DEF EngineInv, EngineTypes
<1>9. \A u \in Threads : Elected(u)' <=> Elected(u)
  BY <1>3, <1>5 DEF Elected, Communicating
<1>10. CommTid'
  BY <1>2, <1>9 DEF EngineInv, CommTid
<1>11. Counted'
  <2>1. \A u \in Threads : u # t => Handled(u)' = Handled(u)
    BY <1>2, <1>5 DEF Handled, Index
  <2> QED
    BY <1>2, <1>3, <1>5, <1>9, <2>1 DEF EngineInv, Counted
<1>12. Distinct' /\ PostedOnce' /\ SentTracked'
  BY <1>2 DEF EngineInv, Distinct, PostedOnce, SentTracked
<1>13. SentDead'
  BY <1>2, <1>5 DEF EngineInv, SentDead
<1>14. Reception'
  <2> SUFFICES ASSUME NEW q \in Procs, NEW u \in ThreadsOf(q), NEW i \in indexes'[u],
                      held'[u] = NoMsg, reqtab[q][i].idx = NoIdx
               PROVE  recvreq[q] = "inactive" /\ reqtab[q][i].live
    BY <1>2 DEF EngineInv, Reception
  <2>1. u \in Threads /\ ProcOf(u) = q
    BY ThreadFacts
  <2>2. u # t
    BY <1>7, <2>1
  <2> QED
    BY <1>5, <2>1, <2>2 DEF EngineInv, Reception
<1> QED
  BY <1>8, <1>10, <1>11, <1>12, <1>13, <1>14 DEF EngineInv

LEMMA TakeSentInv ==
    ASSUME EngineInv, NEW t \in Threads, TakeSent(t)
    PROVE  EngineInv'
<1> DEFINE p == ProcOf(t)
           i0 == Index(t)
<1>1. p \in Procs /\ t \in ThreadsOf(p) /\ NoThread \notin Threads
  BY ThreadFacts
<1>2. UNCHANGED <<pc, reqtab, incoming, posted, commtid, nbreq, held, mpiVars>>
  BY DEF TakeSent
<1> USE DEF mpiVars
<1>3. pc[t] = "handle" /\ indexes[t] # {} /\ held[t] = NoMsg
  BY DEF EngineInv, Counted, TakeSent, Handles, Communicating
<1>4. \A u \in Threads : indexes'[u] = IF u = t THEN indexes[t] \ {i0} ELSE indexes[u]
  BY DEF EngineInv, EngineTypes, TakeSent
<1> HIDE DEF i0
<1>5. EngineTypes'
  <2>1. indexes' \in [Threads -> SUBSET Nat] /\ nbfree' \in [Threads -> Nat]
    BY DEF EngineInv, EngineTypes, TakeSent
  <2>2. outgoing' \in [Procs -> Int]
    BY <1>1 DEF EngineInv, EngineTypes, TakeSent
  <2> QED
    BY <1>2, <2>1, <2>2 DEF EngineInv, EngineTypes
<1>6. \A u \in Threads : Elected(u)' <=> Elected(u)
  BY <1>2 DEF Elected
<1>7. CommTid'
  BY <1>2, <1>6 DEF EngineInv, CommTid
<1>8. Counted'
  <2>1. \A u \in Threads : u # t => Handled(u)' = Handled(u)
    BY <1>2, <1>4 DEF Handled, Index
  <2> QED
    BY <1>2, <1>3, <1>4, <1>6, <2>1 DEF EngineInv, Counted
<1>9. Distinct' /\ PostedOnce' /\ SentTracked'
  BY <1>2 DEF EngineInv, Distinct, PostedOnce, SentTracked
<1>10. \A u \in Threads : indexes'[u] \subseteq indexes[u]
  BY <1>4
<1>11. SentDead'
  BY <1>2, <1>10 DEF EngineInv, SentDead
<1>12. Reception'
  <2>1. \A q \in Procs : \A u \in ThreadsOf(q) : indexes'[u] \subseteq indexes[u]
    BY <1>10, ThreadFacts
  <2> QED
    BY <1>2, <2>1 DEF EngineInv, Reception
<1> QED
  BY <1>5, <1>7, <1>8, <1>9, <1>11, <1>12 DEF EngineInv

LEMMA PackInv ==
    ASSUME EngineInv, NEW t \in Threads, Pack(t)
    PROVE  EngineInv'
<1> DEFINE p == ProcOf(t)
           s == reqtab[p]
<1>1. p \in Procs /\ t \in ThreadsOf(p) /\ NoThread \notin Threads
  BY ThreadFacts
<1>2. UNCHANGED <<incoming, outgoing, posted, commtid, indexes, held, mpiVars>>
  BY DEF Pack
<1> USE DEF mpiVars
<1>3. /\ pc[t] = "handle" /\ indexes[t] = {} /\ pc'[t] \in {"test", "leave"}
      /\ \A u \in Threads : u # t => pc'[u] = pc[u]
  BY DEF EngineInv, EngineTypes, Pack, Goto
<1>4. held[t] = NoMsg /\ commtid[p] = t
  BY <1>3 DEF EngineInv, Counted, CommTid, Elected, Communicating
<1>5. \A u \in Threads : u # t /\ ProcOf(u) = p =>
         ~ Elected(u) /\ held[u] = NoMsg /\ nbreq[u] = 0 /\ indexes[u] = {}
  <2>1. \A u \in Threads : u # t /\ ProcOf(u) = p => ~ Elected(u)
    BY <1>4 DEF EngineInv, CommTid
  <2> QED
    BY <2>1 DEF EngineInv, Counted, Elected, Communicating
<1>6. s \in Seq(Entry) /\ Len(s) \in Nat /\ \A r \in Entry : r.live \in BOOLEAN
  BY <1>1, EntryFields DEF EngineInv, EngineTypes
<1>7. /\ \A q \in Procs : q # p => reqtab'[q] = reqtab[q]
      /\ reqtab'[p] = s \/ reqtab'[p] = Packed(s)
  BY <1>1 DEF EngineInv, EngineTypes, Pack
<1>8. \A i, j \in 1 .. Len(s) : s[i].idx = s[j].idx => i = j
  BY <1>1 DEF EngineInv, Distinct
<1>9. /\ reqtab'[p] \in Seq(Entry) /\ Len(reqtab'[p]) \in Nat
      /\ \A i \in 1 .. Len(reqtab'[p]) : \E j \in 1 .. Len(s) : reqtab'[p][i] = s[j]
      /\ \A j \in 1 .. Len(s) : s[j].live => \E i \in 1 .. Len(reqtab'[p]) : reqtab'[p][i] = s[j]
      /\ \A i, j \in 1 .. Len(reqtab'[p]) : reqtab'[p][i].idx = reqtab'[p][j].idx => i = j
  <2>1. CASE reqtab'[p] = s
    BY <1>6, <1>8, <2>1
  <2>2. CASE reqtab'[p] = Packed(s)
    <3> HIDE DEF s
    <3>1. Packed(s) \in Seq(Entry)
      BY <1>6, PackedProperties
    <3>2. \A i \in 1 .. Len(Packed(s)) : \E j \in 1 .. Len(s) : s[j].live /\ Packed(s)[i] = s[j]
      BY <1>6, PackedProperties
    <3>3. \A j \in 1 .. Len(s) : s[j].live => \E i \in 1 .. Len(Packed(s)) : Packed(s)[i] = s[j]
      BY <1>6, PackedProperties
    <3>4. \A i, j \in 1 .. Len(Packed(s)) : Packed(s)[i].idx = Packed(s)[j].idx => i = j
      BY <1>6, <1>8, PackedProperties
    <3> QED
      BY <2>2, <3>1, <3>2, <3>3, <3>4
  <2> QED
    BY <1>7, <2>1, <2>2
<1>10. \A u \in Threads : nbreq'[u] = IF u = t THEN Len(reqtab'[p]) ELSE nbreq[u]
  BY DEF EngineInv, EngineTypes, Pack
<1>11. EngineTypes'
  <2>1. pc' = [u \in Threads |-> pc'[u]]
    BY DEF EngineInv, EngineTypes, Pack, Goto
  <2>2. reqtab' \in [Procs -> Seq(Entry)]
    <3>1. reqtab' = [reqtab EXCEPT ![p] = reqtab'[p]]
      BY <1>1 DEF EngineInv, EngineTypes, Pack
    <3>2. reqtab'[p] \in Seq(Entry) /\ reqtab \in [Procs -> Seq(Entry)]
      BY <1>9 DEF EngineInv, EngineTypes
    <3> QED
      BY <3>1, <3>2
  <2>3. nbreq' \in [Threads -> Nat]
    BY <1>9 DEF EngineInv, EngineTypes, Pack
  <2>4. nbfree' \in [Threads -> Nat]
    BY DEF EngineInv, EngineTypes, Pack
  <2> QED
    BY <1>2, <2>1, <2>2, <2>3, <2>4 DEF EngineInv, EngineTypes
<1> HIDE DEF s
<1>12. \A u \in Threads : Elected(u)' <=> Elected(u)
  BY <1>2, <1>3 DEF Elected, Communicating
<1>13. CommTid'
  BY <1>2, <1>12 DEF EngineInv, CommTid
<1>14. Counted'
  <2> SUFFICES ASSUME NEW u \in Threads
               PROVE  /\ ~ Elected(u)' => nbreq'[u] = 0
                      /\ nbreq'[u] <= Len(reqtab'[ProcOf(u)]) /\ indexes'[u] \subseteq 1 .. nbreq'[u]
                      /\ indexes'[u] # {} => pc'[u] = "handle" \/ held'[u] # NoMsg
                      /\ held'[u] # NoMsg => /\ pc'[u] \notin Communicating \cup {"elect"}
                                             /\ indexes'[u] # {} /\ Handled(u)' = NoIdx
    BY DEF Counted
  <2>1. ProcOf(u) \in Procs
    BY ThreadFacts
  <2>2. CASE u = t
    <3>1. Elected(t)
      BY <1>3 DEF Elected, Communicating
    <3> QED
      BY <1>2, <1>3, <1>4, <1>9, <1>10, <1>12, <2>2, <3>1
  <2>3. CASE u # t /\ ProcOf(u) = p
    BY <1>2, <1>3, <1>5, <1>9, <1>10, <1>12, <2>3 DEF EngineInv, Counted
  <2>4. CASE u # t /\ ProcOf(u) # p
    <3>1. Handled(u)' = Handled(u)
      BY <1>2, <1>7, <2>1, <2>4 DEF Handled, Index
    <3> QED
      BY <1>2, <1>3, <1>7, <1>10, <1>12, <2>1, <2>4, <3>1 DEF EngineInv, Counted
  <2> QED
    BY <2>2, <2>3, <2>4
<1>15. \A q \in Procs : \A i \in 1 .. Len(reqtab'[q]) : \E j \in 1 .. Len(reqtab[q]) : reqtab'[q][i] = reqtab[q][j]
  BY <1>7, <1>9 DEF s
<1>16. \A q \in Procs : \A j \in 1 .. Len(reqtab[q]) : reqtab[q][j].live =>
          \E i \in 1 .. Len(reqtab'[q]) : reqtab'[q][i] = reqtab[q][j]
  <2>1. ASSUME NEW j \in 1 .. Len(reqtab[p]), reqtab[p][j].live
        PROVE  \E i \in 1 .. Len(reqtab'[p]) : reqtab'[p][i] = reqtab[p][j]
    BY <1>9, <2>1 DEF s
  <2>2. \A q \in Procs : q # p => reqtab'[q] = reqtab[q]
    BY <1>7
  <2> QED
    BY <2>1, <2>2
<1>17. Distinct'
  <2> SUFFICES ASSUME NEW q \in Procs, NEW r \in Procs, NEW i \in 1 .. Len(reqtab'[q]), NEW j \in 1 .. Len(reqtab'[r]),
                      reqtab'[q][i].idx = reqtab'[r][j].idx, q = r \/ reqtab'[q][i].idx # NoIdx
               PROVE  q = r /\ i = j
    BY DEF Distinct
  <2>1. PICK k \in 1 .. Len(reqtab[q]) : reqtab'[q][i] = reqtab[q][k]
    BY <1>15
  <2>2. PICK m \in 1 .. Len(reqtab[r]) : reqtab'[r][j] = reqtab[r][m]
    BY <1>15
  <2>3. q = r
    BY <2>1, <2>2 DEF EngineInv, Distinct
  <2>4. CASE q = p
    BY <1>9, <2>3, <2>4
  <2>5. CASE q # p
    BY <1>7, <2>3, <2>5 DEF EngineInv, Distinct
  <2> QED
    BY <2>3, <2>4, <2>5
<1>18. PostedOnce'
  <2> SUFFICES ASSUME NEW u \in Threads, posted[u] # NoIdx
               PROVE  /\ \A q \in Procs : \A j \in 1 .. Len(reqtab'[q]) : reqtab'[q][j].idx # posted[u]
                      /\ \A v \in Threads : posted[v] = posted[u] => v = u
    BY <1>2 DEF PostedOnce
  <2>1. \A q \in Procs : \A j \in 1 .. Len(reqtab[q]) : reqtab[q][j].idx # posted[u]
    BY DEF EngineInv, PostedOnce
  <2>2. ASSUME NEW q \in Procs, NEW j \in 1 .. Len(reqtab'[q]) PROVE reqtab'[q][j].idx # posted[u]
    <3>1. PICK i \in 1 .. Len(reqtab[q]) : reqtab'[q][j] = reqtab[q][i]
      BY <1>15
    <3> QED
      BY <2>1, <3>1
  <2> QED
    BY <2>2 DEF EngineInv, PostedOnce
<1>19. SentTracked'
  <2> SUFFICES ASSUME NEW x \in sending, ~ \E u \in Threads : posted[u] = x
               PROVE  \E q \in Procs : \E i \in 1 .. Len(reqtab'[q]) : reqtab'[q][i].live /\ reqtab'[q][i].idx = x
    BY <1>2 DEF SentTracked
  <2>1. PICK q \in Procs : \E i \in 1 .. Len(reqtab[q]) : reqtab[q][i].live /\ reqtab[q][i].idx = x
    BY DEF EngineInv, SentTracked
  <2>2. PICK i \in 1 .. Len(reqtab[q]) : reqtab[q][i].live /\ reqtab[q][i].idx = x
    BY <2>1
  <2>3. PICK j \in 1 .. Len(reqtab'[q]) : reqtab'[q][j] = reqtab[q][i]
    BY <1>16, <2>2
  <2> QED
    BY <2>2, <2>3
<1>20. \A u \in Threads : indexes[u] # {} => ProcOf(u) # p /\ ProcOf(u) \in Procs
  BY <1>3, <1>5, ThreadFacts
<1>21. SentDead'
  <2> SUFFICES ASSUME NEW u \in Threads, NEW i \in indexes[u], reqtab'[ProcOf(u)][i].idx # NoIdx
               PROVE  ~ reqtab'[ProcOf(u)][i].live
    BY <1>2 DEF SentDead
  <2> QED
    BY <1>7, <1>20 DEF EngineInv, SentDead
<1>22. Reception'
  <2> SUFFICES ASSUME NEW q \in Procs
               PROVE  /\ recvreq'[q] # "freed" <=> incoming'[q] > 0
                      /\ recvreq'[q] # "freed" <=>
                           \E i \in 1 .. Len(reqtab'[q]) : reqtab'[q][i].live /\ reqtab'[q][i].idx = NoIdx
                      /\ \A u \in ThreadsOf(q) : \A i \in indexes'[u] :
                           held'[u] = NoMsg /\ reqtab'[q][i].idx = NoIdx =>
                              recvreq'[q] = "inactive" /\ reqtab'[q][i].live
    BY DEF Reception
  <2>1. /\ recvreq[q] # "freed" <=> incoming[q] > 0
        /\ recvreq[q] # "freed" <=>
              \E i \in 1 .. Len(reqtab[q]) : reqtab[q][i].live /\ reqtab[q][i].idx = NoIdx
        /\ \A u \in ThreadsOf(q) : \A i \in indexes[u] :
              held[u] = NoMsg /\ reqtab[q][i].idx = NoIdx => recvreq[q] = "inactive" /\ reqtab[q][i].live
    BY DEF EngineInv, Reception
  <2>2. (\E i \in 1 .. Len(reqtab'[q]) : reqtab'[q][i].live /\ reqtab'[q][i].idx = NoIdx)
           <=> (\E i \in 1 .. Len(reqtab[q]) : reqtab[q][i].live /\ reqtab[q][i].idx = NoIdx)
    <3>1. ASSUME NEW i \in 1 .. Len(reqtab'[q]), reqtab'[q][i].live, reqtab'[q][i].idx = NoIdx
          PROVE  \E j \in 1 .. Len(reqtab[q]) : reqtab[q][j].live /\ reqtab[q][j].idx = NoIdx
      <4>1. PICK j \in 1 .. Len(reqtab[q]) : reqtab'[q][i] = reqtab[q][j]
        BY <1>15
      <4> QED
        BY <3>1, <4>1
    <3>2. ASSUME NEW j \in 1 .. Len(reqtab[q]), reqtab[q][j].live, reqtab[q][j].idx = NoIdx
          PROVE  \E i \in 1 .. Len(reqtab'[q]) : reqtab'[q][i].live /\ reqtab'[q][i].idx = NoIdx
      <4>1. PICK i \in 1 .. Len(reqtab'[q]) : reqtab'[q][i] = reqtab[q][j]
        BY <1>16, <3>2
      <4> QED
        BY <3>2, <4>1
    <3> QED
      BY <3>1, <3>2
  <2>3. \A u \in ThreadsOf(q) : \A i \in indexes[u] : reqtab'[q] = reqtab[q]
    BY <1>7, <1>20, ThreadFacts
  <2> QED
    BY <1>2, <2>1, <2>2, <2>3
<1> QED
  BY <1>11, <1>13, <1>14, <1>17, <1>18, <1>19, <1>21, <1>22 DEF EngineInv

LEMMA RegisterInv ==
    ASSUME EngineInv, NEW t \in Threads, NEW l, l \notin Communicating, l = "elect" => held[t] = NoMsg,
           Register(t), Goto(t, l), pc[t] \notin Communicating, posted[t] # NoIdx
    PROVE  EngineInv'
<1> DEFINE p == ProcOf(t)
           s == reqtab[p]
           n == Len(s)
           r == Request(posted[t])
<1>1. p \in Procs /\ t \in ThreadsOf(p) /\ NoThread \notin Threads
  BY ThreadFacts
<1>2. UNCHANGED <<incoming, outgoing, threadVars, mpiVars>>
  BY DEF Register
<1> USE DEF threadVars, mpiVars
<1>3. pc'[t] = l /\ \A u \in Threads : u # t => pc'[u] = pc[u]
  BY DEF EngineInv, EngineTypes, Goto
<1>4. \A u \in Threads : posted'[u] = IF u = t THEN NoIdx ELSE posted[u]
  BY DEF EngineInv, EngineTypes, Register
<1>5. s \in Seq(Entry) /\ n \in Nat
  BY <1>1 DEF EngineInv, EngineTypes
<1>6. r \in Entry /\ r.live /\ r.idx = posted[t]
  BY DEF EngineInv, EngineTypes, Entry, Request
<1>7. (\A q \in Procs : q # p => reqtab'[q] = reqtab[q]) /\ reqtab'[p] = Append(s, r)
  BY <1>1 DEF EngineInv, EngineTypes, Register
<1> HIDE DEF r
<1>8. /\ reqtab'[p] \in Seq(Entry) /\ Len(reqtab'[p]) = n + 1
      /\ \A i \in 1 .. n : reqtab'[p][i] = s[i]
      /\ reqtab'[p][n + 1] = r
  BY <1>5, <1>6, <1>7, AppendProperties
<1>9. 1 .. n + 1 = (1 .. n) \cup {n + 1} /\ n + 1 \notin 1 .. n
  BY <1>5
<1> HIDE DEF s, n
<1>10. \A q \in Procs : \A i \in 1 .. Len(reqtab[q]) : i \in 1 .. Len(reqtab'[q]) /\ reqtab'[q][i] = reqtab[q][i]
  BY <1>7, <1>8, <1>9 DEF s, n
<1>11. \A q \in Procs : \A i \in 1 .. Len(reqtab'[q]) : i \in 1 .. Len(reqtab[q]) \/ (q = p /\ i = n + 1)
  BY <1>7, <1>8, <1>9 DEF s, n
<1>12. \A q \in Procs : Len(reqtab[q]) <= Len(reqtab'[q]) /\ Len(reqtab[q]) \in Nat /\ Len(reqtab'[q]) \in Nat
  <2> SUFFICES ASSUME NEW q \in Procs
               PROVE  Len(reqtab[q]) <= Len(reqtab'[q]) /\ Len(reqtab[q]) \in Nat /\ Len(reqtab'[q]) \in Nat
    OBVIOUS
  <2>1. Len(reqtab[q]) \in Nat
    BY DEF EngineInv, EngineTypes
  <2> QED
    BY <1>5, <1>7, <1>8, <2>1 DEF s, n
<1>13. EngineTypes'
  <2>1. pc' = [u \in Threads |-> pc'[u]]
    BY DEF EngineInv, EngineTypes, Goto
  <2>2. reqtab' \in [Procs -> Seq(Entry)]
    <3>1. reqtab' = [reqtab EXCEPT ![p] = reqtab'[p]]
      BY <1>1 DEF EngineInv, EngineTypes, Register
    <3>2. reqtab'[p] \in Seq(Entry) /\ reqtab \in [Procs -> Seq(Entry)]
      BY <1>8 DEF EngineInv, EngineTypes
    <3> QED
      BY <3>1, <3>2
  <2>3. posted' \in [Threads -> FanIns \cup {NoIdx}]
    BY DEF EngineInv, EngineTypes, Register
  <2> QED
    BY <1>2, <2>1, <2>2, <2>3 DEF EngineInv, EngineTypes
<1>14. \A u \in Threads : Elected(u)' <=> Elected(u)
  BY <1>2, <1>3 DEF Elected
<1>15. CommTid'
  BY <1>2, <1>14 DEF EngineInv, CommTid
<1>16. \A u \in Threads : \A i \in indexes[u] :
          /\ ProcOf(u) \in Procs /\ i \in 1 .. Len(reqtab[ProcOf(u)])
          /\ reqtab'[ProcOf(u)][i] = reqtab[ProcOf(u)][i]
  <2>1. \A u \in Threads : ProcOf(u) \in Procs
    BY ThreadFacts
  <2>2. \A u \in Threads : \A i \in indexes[u] : i \in 1 .. Len(reqtab[ProcOf(u)])
    BY HandledFacts
  <2> QED
    BY <1>10, <2>1, <2>2
<1>17. Counted'
  <2> SUFFICES ASSUME NEW u \in Threads
               PROVE  /\ ~ Elected(u)' => nbreq'[u] = 0
                      /\ nbreq'[u] <= Len(reqtab'[ProcOf(u)]) /\ indexes'[u] \subseteq 1 .. nbreq'[u]
                      /\ indexes'[u] # {} => pc'[u] = "handle" \/ held'[u] # NoMsg
                      /\ held'[u] # NoMsg => /\ pc'[u] \notin Communicating \cup {"elect"}
                                             /\ indexes'[u] # {} /\ Handled(u)' = NoIdx
    BY DEF Counted
  <2>1. ProcOf(u) \in Procs /\ nbreq[u] \in Nat
    BY ThreadFacts DEF EngineInv, EngineTypes
  <2>2. nbreq'[u] <= Len(reqtab'[ProcOf(u)])
    BY <1>2, <1>12, <2>1 DEF EngineInv, Counted
  <2>3. held[u] # NoMsg => Handled(u)' = NoIdx
    <3> SUFFICES ASSUME held[u] # NoMsg PROVE Handled(u)' = NoIdx
      OBVIOUS
    <3>1. indexes[u] # {} /\ Handled(u) = NoIdx
      BY DEF EngineInv, Counted
    <3>2. Index(u) \in indexes[u] /\ Index(u)' = Index(u)
      BY <1>2, <3>1, HandledFacts DEF Index
    <3> QED
      BY <1>16, <3>1, <3>2 DEF Handled
  <2> QED
    BY <1>2, <1>3, <1>14, <2>2, <2>3 DEF EngineInv, Counted, Communicating
<1>18. \A q \in Procs : \A i \in 1 .. Len(reqtab[q]) : reqtab[q][i].idx # posted[t]
  BY DEF EngineInv, PostedOnce
<1>19. Distinct'
  <2> SUFFICES ASSUME NEW q \in Procs, NEW v \in Procs, NEW i \in 1 .. Len(reqtab'[q]), NEW j \in 1 .. Len(reqtab'[v]),
                      reqtab'[q][i].idx = reqtab'[v][j].idx, q = v \/ reqtab'[q][i].idx # NoIdx
               PROVE  q = v /\ i = j
    BY DEF Distinct
  <2>1. CASE i \in 1 .. Len(reqtab[q]) /\ j \in 1 .. Len(reqtab[v])
    <3>1. reqtab'[q][i] = reqtab[q][i] /\ reqtab'[v][j] = reqtab[v][j]
      BY <1>10, <2>1
    <3>2. reqtab[q][i].idx = reqtab[v][j].idx /\ (q = v \/ reqtab[q][i].idx # NoIdx)
      BY <3>1
    <3> QED
      BY <2>1, <3>2 DEF EngineInv, Distinct
  <2>2. CASE i \in 1 .. Len(reqtab[q]) /\ v = p /\ j = n + 1
    BY <1>6, <1>8, <1>10, <1>18, <2>2
  <2>3. CASE j \in 1 .. Len(reqtab[v]) /\ q = p /\ i = n + 1
    BY <1>6, <1>8, <1>10, <1>18, <2>3
  <2> QED
    BY <1>11, <2>1, <2>2, <2>3
<1>20. PostedOnce'
  <2> SUFFICES ASSUME NEW u \in Threads, posted'[u] # NoIdx
               PROVE  /\ \A q \in Procs : \A j \in 1 .. Len(reqtab'[q]) : reqtab'[q][j].idx # posted'[u]
                      /\ \A v \in Threads : posted'[v] = posted'[u] => v = u
    BY DEF PostedOnce
  <2>1. u # t /\ posted'[u] = posted[u]
    BY <1>4
  <2>2. posted[t] # posted[u]
    BY <2>1 DEF EngineInv, PostedOnce
  <2>3. \A q \in Procs : \A j \in 1 .. Len(reqtab[q]) : reqtab[q][j].idx # posted[u]
    BY <2>1 DEF EngineInv, PostedOnce
  <2>4. \A q \in Procs : \A j \in 1 .. Len(reqtab'[q]) : reqtab'[q][j].idx # posted[u]
    BY <1>6, <1>8, <1>10, <1>11, <2>2, <2>3
  <2> QED
    BY <1>4, <2>1, <2>4 DEF EngineInv, PostedOnce
<1>21. SentTracked'
  <2> SUFFICES ASSUME NEW x \in sending, ~ \E u \in Threads : posted'[u] = x
               PROVE  \E q \in Procs : \E i \in 1 .. Len(reqtab'[q]) : reqtab'[q][i].live /\ reqtab'[q][i].idx = x
    BY <1>2 DEF SentTracked
  <2>1. CASE posted[t] = x
    <3>1. n + 1 \in 1 .. Len(reqtab'[p])
      BY <1>5, <1>8
    <3> QED
      BY <1>1, <1>6, <1>8, <2>1, <3>1
  <2>2. CASE posted[t] # x
    <3>1. ~ \E u \in Threads : posted[u] = x
      BY <1>4, <2>2
    <3>2. PICK q \in Procs : \E i \in 1 .. Len(reqtab[q]) : reqtab[q][i].live /\ reqtab[q][i].idx = x
      BY <3>1 DEF EngineInv, SentTracked
    <3> QED
      BY <1>10, <3>2
  <2> QED
    BY <2>1, <2>2
<1>22. SentDead'
  BY <1>2, <1>16 DEF EngineInv, SentDead
<1>23. Reception'
  <2> SUFFICES ASSUME NEW q \in Procs
               PROVE  /\ recvreq'[q] # "freed" <=> incoming'[q] > 0
                      /\ recvreq'[q] # "freed" <=>
                           \E i \in 1 .. Len(reqtab'[q]) : reqtab'[q][i].live /\ reqtab'[q][i].idx = NoIdx
                      /\ \A u \in ThreadsOf(q) : \A i \in indexes'[u] :
                           held'[u] = NoMsg /\ reqtab'[q][i].idx = NoIdx =>
                              recvreq'[q] = "inactive" /\ reqtab'[q][i].live
    BY DEF Reception
  <2>1. /\ recvreq[q] # "freed" <=> incoming[q] > 0
        /\ recvreq[q] # "freed" <=>
              \E i \in 1 .. Len(reqtab[q]) : reqtab[q][i].live /\ reqtab[q][i].idx = NoIdx
        /\ \A u \in ThreadsOf(q) : \A i \in indexes[u] :
              held[u] = NoMsg /\ reqtab[q][i].idx = NoIdx => recvreq[q] = "inactive" /\ reqtab[q][i].live
    BY DEF EngineInv, Reception
  <2>2. (\E i \in 1 .. Len(reqtab'[q]) : reqtab'[q][i].live /\ reqtab'[q][i].idx = NoIdx)
           <=> (\E i \in 1 .. Len(reqtab[q]) : reqtab[q][i].live /\ reqtab[q][i].idx = NoIdx)
    BY <1>6, <1>8, <1>10, <1>11
  <2>3. \A u \in ThreadsOf(q) : \A i \in indexes[u] : reqtab'[q][i] = reqtab[q][i]
    BY <1>16, ThreadFacts
  <2> QED
    BY <1>2, <2>1, <2>2, <2>3
<1> QED
  BY <1>13, <1>15, <1>17, <1>19, <1>20, <1>21, <1>22, <1>23 DEF EngineInv

LEMMA IsendInv ==
    ASSUME EngineInv, NEW t \in Threads, NEW l, l \notin Communicating, l = "elect" => held[t] = NoMsg,
           NEW x \in FanIns, NEW q, NEW tag, NEW data,
           Isend(t, x, q, tag, data), Goto(t, l), pc[t] \notin Communicating, posted[t] = NoIdx,
           \A v \in Procs : \A j \in 1 .. Len(reqtab[v]) : reqtab[v][j].idx # x,
           \A u \in Threads : posted[u] # x
    PROVE  EngineInv'
<1>2. UNCHANGED <<reqtab, incoming, outgoing, threadVars, recvreq, rcoeftab>>
  BY DEF Isend
<1> USE DEF threadVars
<1>3. pc'[t] = l /\ \A u \in Threads : u # t => pc'[u] = pc[u]
  BY DEF EngineInv, EngineTypes, Goto
<1>4. \A u \in Threads : posted'[u] = IF u = t THEN x ELSE posted[u]
  BY DEF EngineInv, EngineTypes, Isend
<1>5. sending' = sending \cup {x}
  BY DEF Isend
<1>6. EngineTypes'
  <2>1. pc' = [u \in Threads |-> pc'[u]]
    BY DEF EngineInv, EngineTypes, Goto
  <2>2. net' = [pq \in Procs \X Procs |-> net'[pq]]
    BY DEF EngineInv, EngineTypes, Isend
  <2>3. posted' \in [Threads -> FanIns \cup {NoIdx}] /\ sending' \subseteq FanIns
    BY DEF EngineInv, EngineTypes, Isend
  <2> QED
    BY <1>2, <2>1, <2>2, <2>3 DEF EngineInv, EngineTypes
<1>7. \A u \in Threads : Elected(u)' <=> Elected(u)
  BY <1>2, <1>3 DEF Elected
<1>8. CommTid'
  BY <1>2, <1>7 DEF EngineInv, CommTid
<1>9. Counted'
  <2>1. \A u \in Threads : Handled(u)' = Handled(u)
    BY <1>2 DEF Handled, Index
  <2> QED
    BY <1>2, <1>3, <1>7, <2>1 DEF EngineInv, Counted, Communicating
<1>10. Distinct' /\ SentDead' /\ Reception'
  BY <1>2 DEF EngineInv, Distinct, SentDead, Reception
<1>11. PostedOnce'
  BY <1>2, <1>4 DEF EngineInv, PostedOnce
<1>12. SentTracked'
  <2> SUFFICES ASSUME NEW y \in sending', ~ \E u \in Threads : posted'[u] = y
               PROVE  \E v \in Procs : \E i \in 1 .. Len(reqtab[v]) : reqtab[v][i].live /\ reqtab[v][i].idx = y
    BY <1>2 DEF SentTracked
  <2>1. y \in sending /\ y # NoIdx
    BY <1>4, <1>5, FanInFacts DEF EngineInv, EngineTypes
  <2>2. ~ \E u \in Threads : posted[u] = y
    BY <1>4, <2>1
  <2> QED
    BY <2>1, <2>2 DEF EngineInv, SentTracked
<1> QED
  BY <1>6, <1>8, <1>9, <1>10, <1>11, <1>12 DEF EngineInv

LEMMA WaitSentInv ==
    ASSUME EngineInv, NEW p \in Procs, WaitSent(p), UNCHANGED pc, \A t \in ThreadsOf(p) : ~ Elected(t)
    PROVE  EngineInv'
<1> DEFINE s == reqtab[p]
<1>2. UNCHANGED <<pc, incoming, outgoing, posted, threadVars, mpiVars>>
  BY DEF WaitSent
<1> USE DEF threadVars, mpiVars
<1>3. s \in Seq(Entry) /\ s # <<>> /\ Len(s) \in Nat
  BY DEF EngineInv, EngineTypes, WaitSent
<1>4. (\A q \in Procs : q # p => reqtab'[q] = reqtab[q]) /\ reqtab'[p] = Tail(s)
  BY DEF EngineInv, EngineTypes, WaitSent
<1>5. s[1].idx \in FanIns \ sending
  BY <1>3 DEF WaitSent
<1>6. /\ reqtab'[p] \in Seq(Entry) /\ Len(reqtab'[p]) = Len(s) - 1
      /\ \A i \in 1 .. Len(s) - 1 : reqtab'[p][i] = s[i + 1]
  BY <1>3, <1>4, HeadTailProperties
<1>7. EngineTypes'
  <2>1. reqtab' \in [Procs -> Seq(Entry)]
    <3>1. reqtab' = [reqtab EXCEPT ![p] = reqtab'[p]]
      BY DEF EngineInv, EngineTypes, WaitSent
    <3>2. reqtab'[p] \in Seq(Entry) /\ reqtab \in [Procs -> Seq(Entry)]
      BY <1>6 DEF EngineInv, EngineTypes
    <3> QED
      BY <3>1, <3>2
  <2> QED
    BY <1>2, <2>1 DEF EngineInv, EngineTypes
<1>8. \A u \in Threads : Elected(u)' <=> Elected(u)
  BY <1>2 DEF Elected
<1>9. CommTid'
  BY <1>2, <1>8 DEF EngineInv, CommTid
<1>10. \A u \in Threads : ProcOf(u) = p => ~ Elected(u) /\ nbreq[u] = 0 /\ indexes[u] = {} /\ held[u] = NoMsg
  <2>1. \A u \in Threads : ProcOf(u) = p => ~ Elected(u)
    BY ThreadFacts
  <2> QED
    BY <2>1 DEF EngineInv, Counted, Elected, Communicating
<1>11. Counted'
  <2> SUFFICES ASSUME NEW u \in Threads
               PROVE  /\ ~ Elected(u)' => nbreq'[u] = 0
                      /\ nbreq'[u] <= Len(reqtab'[ProcOf(u)]) /\ indexes'[u] \subseteq 1 .. nbreq'[u]
                      /\ indexes'[u] # {} => pc'[u] = "handle" \/ held'[u] # NoMsg
                      /\ held'[u] # NoMsg => /\ pc'[u] \notin Communicating \cup {"elect"}
                                             /\ indexes'[u] # {} /\ Handled(u)' = NoIdx
    BY DEF Counted
  <2>1. CASE ProcOf(u) = p
    <3>1. Len(reqtab'[p]) \in Nat
      BY <1>6
    <3> QED
      BY <1>2, <1>8, <1>10, <2>1, <3>1
  <2>2. CASE ProcOf(u) # p
    <3>1. ProcOf(u) \in Procs
      BY ThreadFacts
    <3>2. Handled(u)' = Handled(u)
      BY <1>2, <1>4, <2>2, <3>1 DEF Handled, Index
    <3> QED
      BY <1>2, <1>4, <1>8, <2>2, <3>1, <3>2 DEF EngineInv, Counted
  <2> QED
    BY <2>1, <2>2
<1> HIDE DEF s
<1>12. \A i \in 1 .. Len(reqtab'[p]) : i + 1 \in 1 .. Len(reqtab[p]) /\ reqtab'[p][i] = reqtab[p][i + 1]
  BY <1>3, <1>6 DEF s
<1>13. \A j \in 1 .. Len(reqtab[p]) : j # 1 => j - 1 \in 1 .. Len(reqtab'[p]) /\ reqtab'[p][j - 1] = reqtab[p][j]
  BY <1>3, <1>6 DEF s
<1>14. Distinct'
  <2> SUFFICES ASSUME NEW q \in Procs, NEW v \in Procs, NEW i \in 1 .. Len(reqtab'[q]), NEW j \in 1 .. Len(reqtab'[v]),
                      reqtab'[q][i].idx = reqtab'[v][j].idx, q = v \/ reqtab'[q][i].idx # NoIdx
               PROVE  q = v /\ i = j
    BY DEF Distinct
  <2> DEFINE k == IF q = p THEN i + 1 ELSE i
             m == IF v = p THEN j + 1 ELSE j
  <2>1. k \in 1 .. Len(reqtab[q]) /\ reqtab'[q][i] = reqtab[q][k]
    BY <1>4, <1>12
  <2>2. m \in 1 .. Len(reqtab[v]) /\ reqtab'[v][j] = reqtab[v][m]
    BY <1>4, <1>12
  <2>3. q = v /\ k = m
    <3> HIDE DEF k, m
    <3>1. reqtab[q][k].idx = reqtab[v][m].idx /\ (q = v \/ reqtab[q][k].idx # NoIdx)
      BY <2>1, <2>2
    <3>2. Distinct
      BY DEF EngineInv
    <3> QED
      BY <2>1, <2>2, <3>1, <3>2, OnceInTables
  <2> QED
    BY <2>3
<1>15. \A q \in Procs : \A i \in 1 .. Len(reqtab'[q]) : \E j \in 1 .. Len(reqtab[q]) : reqtab'[q][i] = reqtab[q][j]
  BY <1>4, <1>12
<1>16. \A q \in Procs : \A j \in 1 .. Len(reqtab[q]) :
          (q = p /\ j = 1) \/ \E i \in 1 .. Len(reqtab'[q]) : reqtab'[q][i] = reqtab[q][j]
  BY <1>4, <1>13
<1>17. PostedOnce'
  <2> SUFFICES ASSUME NEW u \in Threads, posted[u] # NoIdx
               PROVE  /\ \A q \in Procs : \A j \in 1 .. Len(reqtab'[q]) : reqtab'[q][j].idx # posted[u]
                      /\ \A v \in Threads : posted[v] = posted[u] => v = u
    BY <1>2 DEF PostedOnce
  <2>1. \A q \in Procs : \A j \in 1 .. Len(reqtab[q]) : reqtab[q][j].idx # posted[u]
    BY DEF EngineInv, PostedOnce
  <2>2. ASSUME NEW q \in Procs, NEW j \in 1 .. Len(reqtab'[q]) PROVE reqtab'[q][j].idx # posted[u]
    <3>1. PICK i \in 1 .. Len(reqtab[q]) : reqtab'[q][j] = reqtab[q][i]
      BY <1>15
    <3> QED
      BY <2>1, <3>1
  <2> QED
    BY <2>2 DEF EngineInv, PostedOnce
<1>18. SentTracked'
  <2> SUFFICES ASSUME NEW x \in sending, ~ \E u \in Threads : posted[u] = x
               PROVE  \E q \in Procs : \E i \in 1 .. Len(reqtab'[q]) : reqtab'[q][i].live /\ reqtab'[q][i].idx = x
    BY <1>2 DEF SentTracked
  <2>1. PICK q \in Procs : \E i \in 1 .. Len(reqtab[q]) : reqtab[q][i].live /\ reqtab[q][i].idx = x
    BY DEF EngineInv, SentTracked
  <2>2. PICK i \in 1 .. Len(reqtab[q]) : reqtab[q][i].live /\ reqtab[q][i].idx = x
    BY <2>1
  <2>3. ~ (q = p /\ i = 1)
    BY <1>5, <2>2 DEF s
  <2>4. PICK j \in 1 .. Len(reqtab'[q]) : reqtab'[q][j] = reqtab[q][i]
    BY <1>16, <2>2, <2>3
  <2> QED
    BY <2>2, <2>4
<1>19. \A u \in Threads : indexes[u] # {} => ProcOf(u) # p /\ ProcOf(u) \in Procs
  BY <1>10, ThreadFacts
<1>20. SentDead'
  BY <1>2, <1>4, <1>19 DEF EngineInv, SentDead
<1>21. Reception'
  <2> SUFFICES ASSUME NEW q \in Procs
               PROVE  /\ recvreq'[q] # "freed" <=> incoming'[q] > 0
                      /\ recvreq'[q] # "freed" <=>
                           \E i \in 1 .. Len(reqtab'[q]) : reqtab'[q][i].live /\ reqtab'[q][i].idx = NoIdx
                      /\ \A u \in ThreadsOf(q) : \A i \in indexes'[u] :
                           held'[u] = NoMsg /\ reqtab'[q][i].idx = NoIdx =>
                              recvreq'[q] = "inactive" /\ reqtab'[q][i].live
    BY DEF Reception
  <2>1. /\ recvreq[q] # "freed" <=> incoming[q] > 0
        /\ recvreq[q] # "freed" <=>
              \E i \in 1 .. Len(reqtab[q]) : reqtab[q][i].live /\ reqtab[q][i].idx = NoIdx
        /\ \A u \in ThreadsOf(q) : \A i \in indexes[u] :
              held[u] = NoMsg /\ reqtab[q][i].idx = NoIdx => recvreq[q] = "inactive" /\ reqtab[q][i].live
    BY DEF EngineInv, Reception
  <2>2. (\E i \in 1 .. Len(reqtab'[q]) : reqtab'[q][i].live /\ reqtab'[q][i].idx = NoIdx)
           <=> (\E i \in 1 .. Len(reqtab[q]) : reqtab[q][i].live /\ reqtab[q][i].idx = NoIdx)
    <3>1. ASSUME NEW i \in 1 .. Len(reqtab'[q]), reqtab'[q][i].live, reqtab'[q][i].idx = NoIdx
          PROVE  \E j \in 1 .. Len(reqtab[q]) : reqtab[q][j].live /\ reqtab[q][j].idx = NoIdx
      <4>1. PICK j \in 1 .. Len(reqtab[q]) : reqtab'[q][i] = reqtab[q][j]
        BY <1>15
      <4> QED
        BY <3>1, <4>1
    <3>2. ASSUME NEW j \in 1 .. Len(reqtab[q]), reqtab[q][j].live, reqtab[q][j].idx = NoIdx
          PROVE  \E i \in 1 .. Len(reqtab'[q]) : reqtab'[q][i].live /\ reqtab'[q][i].idx = NoIdx
      <4>1. ~ (q = p /\ j = 1)
        BY <1>5, <3>2, FanInFacts DEF s
      <4>2. PICK i \in 1 .. Len(reqtab'[q]) : reqtab'[q][i] = reqtab[q][j]
        BY <1>16, <4>1
      <4> QED
        BY <3>2, <4>2
    <3> QED
      BY <3>1, <3>2
  <2>3. \A u \in ThreadsOf(q) : \A i \in indexes[u] : reqtab'[q] = reqtab[q]
    BY <1>4, <1>19, ThreadFacts
  <2> QED
    BY <1>2, <2>1, <2>2, <2>3
<1> QED
  BY <1>7, <1>9, <1>11, <1>14, <1>17, <1>18, <1>20, <1>21 DEF EngineInv

LEMMA DeliverInv ==
    ASSUME EngineInv, NEW p \in Procs, NEW q \in Procs, Deliver(p, q)
    PROVE  EngineInv'
<1>1. UNCHANGED <<pc, tableVars, threadVars, sending>>
  BY DEF Deliver
<1> USE DEF tableVars, threadVars
<1>2. recvreq[q] = "active" /\ \A v \in Procs : recvreq'[v] = IF v = q THEN "done" ELSE recvreq[v]
  BY DEF EngineInv, EngineTypes, Deliver
<1>3. EngineTypes'
  <2>1. recvreq' \in [Procs -> {"active", "done", "inactive", "freed"}]
    BY DEF EngineInv, EngineTypes, Deliver
  <2>2. rcoeftab' = [v \in Procs |-> rcoeftab'[v]]
    BY DEF EngineInv, EngineTypes, Deliver
  <2>3. net' = [pq \in Procs \X Procs |-> net'[pq]]
    BY DEF EngineInv, EngineTypes, Deliver
  <2> QED
    BY <1>1, <2>1, <2>2, <2>3 DEF EngineInv, EngineTypes
<1>4. \A u \in Threads : (Elected(u)' <=> Elected(u)) /\ Handled(u)' = Handled(u)
  BY <1>1 DEF Elected, Handled, Index
<1>5. CommTid' /\ Counted'
  BY <1>1, <1>4 DEF EngineInv, CommTid, Counted
<1>6. Distinct' /\ PostedOnce' /\ SentTracked' /\ SentDead'
  BY <1>1 DEF EngineInv, Distinct, PostedOnce, SentTracked, SentDead
<1>7. Reception'
  BY <1>1, <1>2 DEF EngineInv, Reception
<1> QED
  BY <1>3, <1>5, <1>6, <1>7 DEF EngineInv

LEMMA SendDoneInv ==
    ASSUME EngineInv, NEW x \in FanIns, SendDone(x)
    PROVE  EngineInv'
<1>1. UNCHANGED <<pc, tableVars, threadVars, recvreq, rcoeftab, net>> /\ sending' \subseteq sending
  BY DEF SendDone
<1> USE DEF tableVars, threadVars
<1>2. EngineTypes'
  BY <1>1 DEF EngineInv, EngineTypes
<1>3. \A u \in Threads : (Elected(u)' <=> Elected(u)) /\ Handled(u)' = Handled(u)
  BY <1>1 DEF Elected, Handled, Index
<1>4. CommTid' /\ Counted'
  BY <1>1, <1>3 DEF EngineInv, CommTid, Counted
<1>5. Distinct' /\ PostedOnce' /\ SentTracked' /\ SentDead' /\ Reception'
  BY <1>1 DEF EngineInv, Distinct, PostedOnce, SentTracked, SentDead, Reception
<1> QED
  BY <1>2, <1>4, <1>5 DEF EngineInv

(* A step of a thread that touches nothing of the engine.                  *)
LEMMA OtherInv ==
    ASSUME EngineInv, UNCHANGED engineVars, pc' = [t \in Threads |-> pc'[t]],
           \A t \in Threads : \/ pc'[t] = pc[t]
                              \/ /\ pc[t] \notin Communicating /\ pc'[t] \notin Communicating
                                 /\ pc'[t] = "elect" => held[t] = NoMsg
    PROVE  EngineInv'
<1>1. UNCHANGED <<tableVars, threadVars, mpiVars>>
  BY DEF engineVars
<1> USE DEF tableVars, threadVars, mpiVars
<1>2. EngineTypes'
  BY <1>1 DEF EngineInv, EngineTypes
<1>3. \A u \in Threads : (Elected(u)' <=> Elected(u)) /\ Handled(u)' = Handled(u)
  BY <1>1 DEF Elected, Handled, Index
<1>4. CommTid' /\ Counted'
  BY <1>1, <1>3 DEF EngineInv, CommTid, Counted, Communicating
<1>5. Distinct' /\ PostedOnce' /\ SentTracked' /\ SentDead' /\ Reception'
  BY <1>1 DEF EngineInv, Distinct, PostedOnce, SentTracked, SentDead, Reception
<1> QED
  BY <1>2, <1>4, <1>5 DEF EngineInv

LEMMA OpenRequestsInv ==
    ASSUME EngineInv, NEW p \in Procs, NEW in \in Nat, NEW out \in Int, OpenRequests(p, in, out),
           reqtab[p] = <<>>, pc' = [t \in Threads |-> pc'[t]],
           \A t \in Threads : \/ pc'[t] = pc[t]
                              \/ pc[t] \notin Communicating /\ pc'[t] \notin Communicating \cup {"elect"},
           \A t \in ThreadsOf(p) : ~ Elected(t)
    PROVE  EngineInv'
<1>1. UNCHANGED <<posted, threadVars, rcoeftab, sending, net>>
  BY DEF OpenRequests
<1> USE DEF threadVars
<1>2. /\ \A q \in Procs : q # p => /\ reqtab'[q] = reqtab[q] /\ recvreq'[q] = recvreq[q]
                                   /\ incoming'[q] = incoming[q]
      /\ incoming'[p] = in
      /\ reqtab'[p] = IF in = 0 THEN <<>> ELSE <<Request(NoIdx)>>
      /\ recvreq'[p] = IF in = 0 THEN "freed" ELSE "active"
  BY DEF EngineInv, EngineTypes, OpenRequests
<1>3. /\ <<Request(NoIdx)>> \in Seq(Entry) /\ Len(<<Request(NoIdx)>>) = 1
      /\ <<Request(NoIdx)>>[1].live /\ <<Request(NoIdx)>>[1].idx = NoIdx
  BY DEF Request, Entry
<1>4. /\ reqtab'[p] \in Seq(Entry)
      /\ in = 0 => Len(reqtab'[p]) = 0
      /\ in # 0 => Len(reqtab'[p]) = 1 /\ reqtab'[p][1].live /\ reqtab'[p][1].idx = NoIdx
  BY <1>2, <1>3
<1>5. EngineTypes'
  <2>1. reqtab' \in [Procs -> Seq(Entry)]
    <3>1. reqtab' = [reqtab EXCEPT ![p] = reqtab'[p]]
      BY DEF EngineInv, EngineTypes, OpenRequests
    <3>2. reqtab'[p] \in Seq(Entry) /\ reqtab \in [Procs -> Seq(Entry)]
      BY <1>4 DEF EngineInv, EngineTypes
    <3> QED
      BY <3>1, <3>2
  <2>2. incoming' \in [Procs -> Int] /\ outgoing' \in [Procs -> Int]
    BY DEF EngineInv, EngineTypes, OpenRequests
  <2>3. recvreq' \in [Procs -> {"active", "done", "inactive", "freed"}]
    BY DEF EngineInv, EngineTypes, OpenRequests
  <2> QED
    BY <1>1, <2>1, <2>2, <2>3 DEF EngineInv, EngineTypes
<1>6. \A u \in Threads : Elected(u)' <=> Elected(u)
  BY <1>1 DEF Elected
<1>7. CommTid'
  BY <1>1, <1>6 DEF EngineInv, CommTid
<1>8. \A u \in Threads : ProcOf(u) = p => ~ Elected(u) /\ nbreq[u] = 0 /\ indexes[u] = {} /\ held[u] = NoMsg
  <2>1. \A u \in Threads : ProcOf(u) = p => ~ Elected(u)
    BY ThreadFacts
  <2> QED
    BY <2>1 DEF EngineInv, Counted, Elected, Communicating
<1>9. Counted'
  <2> SUFFICES ASSUME NEW u \in Threads
               PROVE  /\ ~ Elected(u)' => nbreq'[u] = 0
                      /\ nbreq'[u] <= Len(reqtab'[ProcOf(u)]) /\ indexes'[u] \subseteq 1 .. nbreq'[u]
                      /\ indexes'[u] # {} => pc'[u] = "handle" \/ held'[u] # NoMsg
                      /\ held'[u] # NoMsg => /\ pc'[u] \notin Communicating \cup {"elect"}
                                             /\ indexes'[u] # {} /\ Handled(u)' = NoIdx
    BY DEF Counted
  <2>1. CASE ProcOf(u) = p
    BY <1>1, <1>4, <1>6, <1>8, <2>1
  <2>2. CASE ProcOf(u) # p
    <3>1. ProcOf(u) \in Procs
      BY ThreadFacts
    <3>2. Handled(u)' = Handled(u)
      BY <1>1, <1>2, <2>2, <3>1 DEF Handled, Index
    <3> QED
      BY <1>1, <1>2, <1>6, <2>2, <3>1, <3>2 DEF EngineInv, Counted, Communicating
  <2> QED
    BY <2>1, <2>2
<1>10. Len(reqtab[p]) = 0
  OBVIOUS
<1>11. \A i \in 1 .. Len(reqtab'[p]) : i = 1 /\ reqtab'[p][i].idx = NoIdx
  BY <1>4
<1>12. Distinct'
  <2> SUFFICES ASSUME NEW q \in Procs, NEW r \in Procs, NEW i \in 1 .. Len(reqtab'[q]), NEW j \in 1 .. Len(reqtab'[r]),
                      reqtab'[q][i].idx = reqtab'[r][j].idx, q = r \/ reqtab'[q][i].idx # NoIdx
               PROVE  q = r /\ i = j
    BY DEF Distinct
  <2>1. CASE q = p /\ r = p
    BY <1>11, <2>1
  <2>2. CASE (q = p /\ r # p) \/ (q # p /\ r = p)
    BY <1>11, <2>2
  <2>3. CASE q # p /\ r # p
    <3>1. reqtab'[q] = reqtab[q] /\ reqtab'[r] = reqtab[r]
      BY <1>2, <2>3
    <3>2. i \in 1 .. Len(reqtab[q]) /\ j \in 1 .. Len(reqtab[r])
      BY <3>1
    <3>3. reqtab[q][i].idx = reqtab[r][j].idx /\ (q = r \/ reqtab[q][i].idx # NoIdx)
      BY <3>1
    <3>4. Distinct
      BY DEF EngineInv
    <3> QED
      BY <3>2, <3>3, <3>4, OnceInTables
  <2> QED
    BY <2>1, <2>2, <2>3
<1>13. PostedOnce'
  BY <1>1, <1>2, <1>11 DEF EngineInv, PostedOnce
<1>14. SentTracked'
  BY <1>1, <1>2, <1>10 DEF EngineInv, SentTracked
<1>15. \A u \in Threads : indexes[u] # {} => ProcOf(u) # p /\ ProcOf(u) \in Procs
  BY <1>8, ThreadFacts
<1>16. SentDead'
  BY <1>1, <1>2, <1>15 DEF EngineInv, SentDead
<1>17. Reception'
  <2> SUFFICES ASSUME NEW q \in Procs
               PROVE  /\ recvreq'[q] # "freed" <=> incoming'[q] > 0
                      /\ recvreq'[q] # "freed" <=>
                           \E i \in 1 .. Len(reqtab'[q]) : reqtab'[q][i].live /\ reqtab'[q][i].idx = NoIdx
                      /\ \A u \in ThreadsOf(q) : \A i \in indexes'[u] :
                           held'[u] = NoMsg /\ reqtab'[q][i].idx = NoIdx =>
                              recvreq'[q] = "inactive" /\ reqtab'[q][i].live
    BY DEF Reception
  <2>1. CASE q # p
    BY <1>1, <1>2, <2>1 DEF EngineInv, Reception
  <2>2. CASE q = p
    <3>1. \A u \in ThreadsOf(p) : indexes'[u] = {}
      BY <1>1, <1>8, ThreadFacts
    <3>2. CASE in = 0
      BY <1>2, <1>4, <2>2, <3>1, <3>2
    <3>3. CASE in # 0
      <4>1. 1 \in 1 .. Len(reqtab'[p]) /\ recvreq'[p] # "freed" /\ incoming'[p] > 0
        BY <1>2, <1>4, <3>3
      <4> QED
        BY <1>4, <2>2, <3>1, <3>3, <4>1
    <3> QED
      BY <3>2, <3>3
  <2> QED
    BY <2>1, <2>2
<1> QED
  BY <1>5, <1>7, <1>9, <1>12, <1>13, <1>14, <1>16, <1>17 DEF EngineInv

LEMMA EngineInitInv == EngineInit /\ pc = [t \in Threads |-> "idle"] => EngineInv
<1> SUFFICES ASSUME EngineInit, pc = [t \in Threads |-> "idle"] PROVE EngineInv
  OBVIOUS
<1>1. NoThread \notin Threads
  BY ThreadFacts
<1>2. \A p \in Procs : reqtab[p] = <<>> /\ Len(reqtab[p]) = 0
  BY DEF EngineInit
<1>3. EngineTypes
  BY <1>2 DEF EngineInit, EngineTypes
<1>4. \A t \in Threads : ~ Elected(t) /\ indexes[t] = {} /\ nbreq[t] = 0 /\ posted[t] = NoIdx /\ held[t] = NoMsg
  BY DEF EngineInit, Elected, Communicating
<1>5. CommTid
  BY <1>1, <1>4, ThreadFacts DEF EngineInit, CommTid
<1>6. Counted
  BY <1>2, <1>4, ThreadFacts DEF Counted
<1>7. Distinct /\ PostedOnce /\ SentDead
  BY <1>2, <1>4 DEF Distinct, PostedOnce, SentDead
<1>8. SentTracked
  BY DEF EngineInit, SentTracked
<1>9. Reception
  BY <1>2, <1>4, ThreadFacts DEF EngineInit, Reception
<1> QED
  BY <1>3, <1>5, <1>6, <1>7, <1>8, <1>9 DEF EngineInv

-----------------------------------------------------------------------------
(* What the invariant says.                                                *)

(* A table holds no more requests than there are column blocks to send,    *)
(* and the reception.                                                      *)
LEMMA TableSize ==
    ASSUME EngineInv, NEW p \in Procs, NEW T \in SUBSET FanIns,
           \A i \in 1 .. Len(reqtab[p]) : reqtab[p][i].idx \in T \cup {NoIdx}
    PROVE  Len(reqtab[p]) \in Nat /\ Len(reqtab[p]) <= Cardinality(T) + 1
<1> DEFINE n == Len(reqtab[p])
           U == T \cup {NoIdx}
           f == [i \in 1 .. n |-> reqtab[p][i].idx]
<1>1. n \in Nat
  BY DEF EngineInv, EngineTypes
<1>2. \A i, j \in 1 .. n : f[i] = f[j] => i = j
  BY DEF EngineInv, Distinct
<1>3. f \in Injection(1 .. n, U)
  <2>1. f \in [1 .. n -> U]
    OBVIOUS
  <2>2. IsInjective(f)
    BY <1>2 DEF IsInjective
  <2> QED
    BY <2>1, <2>2 DEF Injection
<1>4. IsFiniteSet(T) /\ NoIdx \notin T /\ Cardinality(T) \in Nat
  BY FanInsFinite, FanInFacts
<1>5. IsFiniteSet(U) /\ Cardinality(U) = Cardinality(T) + 1
  BY <1>4, FS_AddElement
<1>6. IsFiniteSet(1 .. n) /\ Cardinality(1 .. n) = n
  BY <1>1, FS_Interval
<1> HIDE DEF f, n, U
<1>7. Cardinality(1 .. n) <= Cardinality(U)
  BY <1>3, <1>5, FS_Injection
<1> QED
  BY <1>1, <1>5, <1>6, <1>7 DEF n

(* One thread communicates, and the requests are tracked.                  *)
LEMMA TrackedByInv == EngineInv => RequestsTracked
<1> SUFFICES ASSUME EngineInv PROVE RequestsTracked
  OBVIOUS
<1>1. OneCommThread
  BY DEF EngineInv, CommTid, Elected, OneCommThread
<1> DEFINE R(x) == {r \in Procs \X (1 .. Cardinality(FanIns) + 1) :
                        r[2] \in DOMAIN reqtab[r[1]] /\ reqtab[r[1]][r[2]] = Request(x)}
           P(x) == {t \in Threads : posted[t] = x}
<1>2. ASSUME NEW x \in sending PROVE Cardinality(R(x)) + Cardinality(P(x)) = 1
  <2>1. x \in FanIns /\ x # NoIdx
    BY <1>2, FanInFacts DEF EngineInv, EngineTypes
  <2>2. \A p \in Procs : /\ reqtab[p] \in Seq(Entry) /\ DOMAIN reqtab[p] = 1 .. Len(reqtab[p])
                         /\ Len(reqtab[p]) \in Nat
    BY DEF EngineInv, EngineTypes
  <2>3. \A p \in Procs : Len(reqtab[p]) <= Cardinality(FanIns) + 1
    <3> SUFFICES ASSUME NEW p \in Procs PROVE Len(reqtab[p]) <= Cardinality(FanIns) + 1
      OBVIOUS
    <3>1. \A i \in 1 .. Len(reqtab[p]) : reqtab[p][i] \in Entry
      BY <2>2
    <3>2. \A i \in 1 .. Len(reqtab[p]) : reqtab[p][i].idx \in FanIns \cup {NoIdx}
      BY <3>1, EntryFields
    <3> QED
      BY <3>2, TableSize
  <2>4. CASE \E t \in Threads : posted[t] = x
    <3>1. PICK t \in Threads : posted[t] = x
      BY <2>4
    <3>2. P(x) = {t}
      BY <2>1, <3>1 DEF EngineInv, PostedOnce
    <3>3. R(x) = {}
      <4> SUFFICES ASSUME NEW r \in R(x) PROVE FALSE
        OBVIOUS
      <4>1. r[1] \in Procs /\ r[2] \in 1 .. Len(reqtab[r[1]]) /\ reqtab[r[1]][r[2]].idx = x
        BY <2>2 DEF Request
      <4> QED
        BY <2>1, <3>1, <4>1 DEF EngineInv, PostedOnce
    <3>8. Cardinality(R(x)) = 0
      BY <3>3, FS_EmptySet
    <3>9. Cardinality(P(x)) = 1
      BY <3>2, FS_Singleton
    <3> HIDE DEF R, P
    <3> QED
      BY <3>8, <3>9
  <2>5. CASE ~ \E t \in Threads : posted[t] = x
    <3>1. PICK p \in Procs : \E i \in 1 .. Len(reqtab[p]) : reqtab[p][i].live /\ reqtab[p][i].idx = x
      BY <1>2, <2>5 DEF EngineInv, SentTracked
    <3>2. PICK i \in 1 .. Len(reqtab[p]) : reqtab[p][i].live /\ reqtab[p][i].idx = x
      BY <3>1
    <3>3. P(x) = {}
      BY <2>5
    <3>4. reqtab[p][i] = Request(x)
      <4>1. reqtab[p][i] \in Entry
        BY <2>2
      <4> QED
        BY <3>2, <4>1 DEF Entry, Request
    <3>5. <<p, i>> \in R(x)
      <4>1. i \in 1 .. Cardinality(FanIns) + 1
        <5>1. Cardinality(FanIns) \in Nat
          BY FanInsFinite
        <5> QED
          BY <2>2, <2>3, <3>2, <5>1
      <4> QED
        BY <2>2, <3>2, <3>4, <4>1
    <3>6. \A r \in R(x) : r = <<p, i>>
      <4> SUFFICES ASSUME NEW r \in R(x) PROVE r = <<p, i>>
        OBVIOUS
      <4>1. r = <<r[1], r[2]>> /\ r[1] \in Procs /\ r[2] \in 1 .. Len(reqtab[r[1]]) /\ reqtab[r[1]][r[2]].idx = x
        BY <2>2 DEF Request
      <4>2. r[1] = p /\ r[2] = i
        BY <2>1, <3>2, <4>1 DEF EngineInv, Distinct
      <4> QED
        BY <4>1, <4>2
    <3>7. R(x) = {<<p, i>>}
      BY <3>5, <3>6
    <3>8. Cardinality(P(x)) = 0
      BY <3>3, FS_EmptySet
    <3>9. Cardinality(R(x)) = 1
      BY <3>7, FS_Singleton
    <3> HIDE DEF R, P
    <3> QED
      BY <3>8, <3>9
  <2> QED
    BY <2>4, <2>5
<1>3. RequestsOnce
  BY <1>2 DEF RequestsOnce
<1> QED
  BY <1>1, <1>3 DEF RequestsTracked

-----------------------------------------------------------------------------
(* The emissions whose end was not handled, step by step.                  *)

Pending(x) ==
    \/ \E t \in Threads : posted[t] = x
    \/ \E p \in Procs : \E i \in 1 .. Len(reqtab[p]) :
          /\ reqtab[p][i].idx = x
          /\ reqtab[p][i].live \/ \E t \in ThreadsOf(p) : i \in indexes[t]

(* The tables name no other column block than they did.                    *)
TablesShrink ==
    \A p \in Procs : \A i \in 1 .. Len(reqtab'[p]) : \E j \in 1 .. Len(reqtab[p]) :
        reqtab'[p][i].idx = reqtab[p][j].idx

LEMMA TestPending ==
    ASSUME EngineInv, NEW t \in Threads, Test(t)
    PROVE  TablesShrink /\ \A x \in FanIns : Pending(x)' <=> Pending(x)
<1> DEFINE p == ProcOf(t)
           S == Completed(p, nbreq[t])
<1>1. p \in Procs /\ t \in ThreadsOf(p) /\ pc[t] = "test" /\ UNCHANGED posted
  BY ThreadFacts DEF Test
<1>2. indexes[t] = {} /\ nbreq[t] \in Nat /\ nbreq[t] <= Len(reqtab[p])
  BY <1>1 DEF EngineInv, EngineTypes, Counted, Communicating
<1>3. reqtab[p] \in Seq(Entry) /\ Len(reqtab[p]) \in Nat
  BY <1>1 DEF EngineInv, EngineTypes
<1>4. S \subseteq 1 .. Len(reqtab[p]) /\ \A i \in S : reqtab[p][i].live
  BY <1>2, <1>3 DEF Completed
<1>5. /\ \A u \in Threads : indexes'[u] = IF u = t THEN S ELSE indexes[u]
      /\ \A q \in Procs : q # p => reqtab'[q] = reqtab[q]
  BY <1>1 DEF EngineInv, EngineTypes, Test
<1> DEFINE b(i) == reqtab[p][i].live /\ (i \in S => reqtab[p][i].idx = NoIdx)
<1>6. reqtab'[p] = [i \in 1 .. Len(reqtab[p]) |-> [live |-> b(i), idx |-> reqtab[p][i].idx]]
  <2>1. DOMAIN reqtab[p] = 1 .. Len(reqtab[p])
    BY <1>3
  <2>2. reqtab' = [reqtab EXCEPT ![p] =
              [i \in DOMAIN reqtab[p] |-> [live |-> b(i), idx |-> reqtab[p][i].idx]]]
    BY DEF Test
  <2> HIDE DEF b
  <2> QED
    BY <1>1, <2>1, <2>2 DEF EngineInv, EngineTypes
<1>7. Len(reqtab'[p]) = Len(reqtab[p])
  BY <1>3, <1>6
<1>8. \A i \in 1 .. Len(reqtab[p]) : reqtab'[p][i].idx = reqtab[p][i].idx /\ reqtab'[p][i].live = b(i)
  <2> HIDE DEF b
  <2> QED
    BY <1>6
<1> HIDE DEF S
<1>9. \A i \in 1 .. Len(reqtab[p]) : reqtab'[p][i].live <=> reqtab[p][i].live /\ (i \in S => reqtab[p][i].idx = NoIdx)
  BY <1>8
<1>10. TablesShrink
  BY <1>5, <1>7, <1>8 DEF TablesShrink
<1>11. ASSUME NEW x \in FanIns PROVE Pending(x)' <=> Pending(x)
  <2> DEFINE At(q) == \E i \in 1 .. Len(reqtab[q]) :
                         /\ reqtab[q][i].idx = x
                         /\ reqtab[q][i].live \/ \E u \in ThreadsOf(q) : i \in indexes[u]
             AtNext(q) == \E i \in 1 .. Len(reqtab'[q]) :
                         /\ reqtab'[q][i].idx = x
                         /\ reqtab'[q][i].live \/ \E u \in ThreadsOf(q) : i \in indexes'[u]
  <2>1. ASSUME NEW q \in Procs, q # p PROVE AtNext(q) <=> At(q)
    BY <1>5, <2>1, ThreadFacts
  <2>2. AtNext(p) <=> At(p)
    <3>1. ASSUME NEW i \in 1 .. Len(reqtab[p]), reqtab[p][i].idx = x
          PROVE  (reqtab'[p][i].live \/ \E u \in ThreadsOf(p) : i \in indexes'[u])
                 <=> (reqtab[p][i].live \/ \E u \in ThreadsOf(p) : i \in indexes[u])
      <4>1. x # NoIdx
        BY FanInFacts
      <4>2. \A u \in ThreadsOf(p) : u \in Threads
        BY <1>1, ThreadFacts
      <4> QED
        BY <1>1, <1>2, <1>4, <1>5, <1>9, <3>1, <4>1, <4>2
    <3> QED
      BY <1>7, <1>8, <3>1
  <2>3. Pending(x) <=> (\E u \in Threads : posted[u] = x) \/ \E q \in Procs : At(q)
    BY DEF Pending
  <2>4. Pending(x)' <=> (\E u \in Threads : posted'[u] = x) \/ \E q \in Procs : AtNext(q)
    BY DEF Pending
  <2> HIDE DEF At, AtNext
  <2> QED
    BY <1>1, <2>1, <2>2, <2>3, <2>4
<1> QED
  BY <1>10, <1>11

(* The other threads of the process of a thread that was elected handle    *)
(* nothing.                                                                *)
LEMMA Alone ==
    ASSUME EngineInv, NEW t \in Threads, Elected(t)
    PROVE  \A u \in ThreadsOf(ProcOf(t)) : u # t => indexes[u] = {} /\ held[u] = NoMsg
<1> SUFFICES ASSUME NEW u \in ThreadsOf(ProcOf(t)), u # t PROVE indexes[u] = {} /\ held[u] = NoMsg
  OBVIOUS
<1>1. u \in Threads /\ ProcOf(u) = ProcOf(t)
  BY ThreadFacts
<1>2. ~ Elected(u)
  BY <1>1 DEF EngineInv, CommTid
<1> QED
  BY <1>1, <1>2 DEF EngineInv, Counted, Elected, Communicating

LEMMA PackPending ==
    ASSUME EngineInv, NEW t \in Threads, Pack(t)
    PROVE  TablesShrink /\ \A x \in FanIns : Pending(x)' <=> Pending(x)
<1> DEFINE p == ProcOf(t)
           s == reqtab[p]
<1>1. p \in Procs /\ t \in ThreadsOf(p) /\ UNCHANGED <<posted, indexes>> /\ pc[t] = "handle" /\ indexes[t] = {}
  BY ThreadFacts DEF Pack
<1>2. s \in Seq(Entry) /\ Len(s) \in Nat /\ \A r \in Entry : r.live \in BOOLEAN
  BY <1>1, EntryFields DEF EngineInv, EngineTypes
<1>3. /\ \A q \in Procs : q # p => reqtab'[q] = reqtab[q]
      /\ reqtab'[p] = s \/ reqtab'[p] = Packed(s)
  BY <1>1 DEF EngineInv, EngineTypes, Pack
<1>4. /\ \A i \in 1 .. Len(reqtab'[p]) : \E j \in 1 .. Len(s) : reqtab'[p][i] = s[j]
      /\ \A j \in 1 .. Len(s) : s[j].live => \E i \in 1 .. Len(reqtab'[p]) : reqtab'[p][i] = s[j]
  <2>1. CASE reqtab'[p] = s
    BY <2>1
  <2>2. CASE reqtab'[p] = Packed(s)
    <3> HIDE DEF s
    <3>1. \A i \in 1 .. Len(Packed(s)) : \E j \in 1 .. Len(s) : s[j].live /\ Packed(s)[i] = s[j]
      BY <1>2, PackedProperties
    <3>2. \A j \in 1 .. Len(s) : s[j].live => \E i \in 1 .. Len(Packed(s)) : Packed(s)[i] = s[j]
      BY <1>2, PackedProperties
    <3> QED
      BY <2>2, <3>1, <3>2
  <2> QED
    BY <1>3, <2>1, <2>2
<1>5. \A u \in ThreadsOf(p) : indexes[u] = {}
  BY <1>1, Alone DEF Elected, Communicating
<1>6. TablesShrink
  <2>1. ASSUME NEW q \in Procs, NEW i \in 1 .. Len(reqtab'[q])
        PROVE  \E j \in 1 .. Len(reqtab[q]) : reqtab'[q][i].idx = reqtab[q][j].idx
    <3>1. CASE q = p
      BY <1>4, <3>1
    <3>2. CASE q # p
      BY <1>3, <3>2
    <3> QED
      BY <3>1, <3>2
  <2> QED
    BY <2>1 DEF TablesShrink
<1>7. ASSUME NEW x \in FanIns PROVE Pending(x)' <=> Pending(x)
  <2> DEFINE At(q) == \E i \in 1 .. Len(reqtab[q]) :
                         /\ reqtab[q][i].idx = x
                         /\ reqtab[q][i].live \/ \E u \in ThreadsOf(q) : i \in indexes[u]
             AtNext(q) == \E i \in 1 .. Len(reqtab'[q]) :
                         /\ reqtab'[q][i].idx = x
                         /\ reqtab'[q][i].live \/ \E u \in ThreadsOf(q) : i \in indexes'[u]
  <2>1. ASSUME NEW q \in Procs, q # p PROVE AtNext(q) <=> At(q)
    BY <1>1, <1>3, <2>1
  <2>2. At(p) <=> \E i \in 1 .. Len(s) : s[i].idx = x /\ s[i].live
    BY <1>5
  <2>3. AtNext(p) <=> \E i \in 1 .. Len(reqtab'[p]) : reqtab'[p][i].idx = x /\ reqtab'[p][i].live
    BY <1>1, <1>5
  <2>4. AtNext(p) <=> At(p)
    <3>1. CASE reqtab'[p] = s
      BY <2>2, <2>3, <3>1
    <3>2. CASE reqtab'[p] = Packed(s)
      <4> HIDE DEF s
      <4>1. \A i \in 1 .. Len(Packed(s)) : \E j \in 1 .. Len(s) : s[j].live /\ Packed(s)[i] = s[j]
        BY <1>2, PackedProperties
      <4>2. \A j \in 1 .. Len(s) : s[j].live => \E i \in 1 .. Len(Packed(s)) : Packed(s)[i] = s[j]
        BY <1>2, PackedProperties
      <4> HIDE DEF At, AtNext
      <4> QED
        BY <2>2, <2>3, <3>2, <4>1, <4>2
    <3> QED
      BY <1>3, <3>1, <3>2
  <2>5. Pending(x) <=> (\E u \in Threads : posted[u] = x) \/ \E q \in Procs : At(q)
    BY DEF Pending
  <2>6. Pending(x)' <=> (\E u \in Threads : posted'[u] = x) \/ \E q \in Procs : AtNext(q)
    BY DEF Pending
  <2> HIDE DEF At, AtNext
  <2> QED
    BY <1>1, <2>1, <2>4, <2>5, <2>6
<1> QED
  BY <1>6, <1>7

(* What a process waits for in its table.                                  *)
PendingAt(q, x) ==
    \E i \in 1 .. Len(reqtab[q]) :
        /\ reqtab[q][i].idx = x
        /\ reqtab[q][i].live \/ \E u \in ThreadsOf(q) : i \in indexes[u]

LEMMA PendingSplit ==
    /\ \A x : Pending(x) <=> (\E t \in Threads : posted[t] = x) \/ \E q \in Procs : PendingAt(q, x)
    /\ \A x : Pending(x)' <=> (\E t \in Threads : posted'[t] = x) \/ \E q \in Procs : PendingAt(q, x)'
BY DEF Pending, PendingAt

LEMMA TakeMessagePending ==
    ASSUME EngineInv, NEW t \in Threads, TakeMessage(t)
    PROVE  TablesShrink /\ \A x \in FanIns : Pending(x)' <=> Pending(x)
<1> DEFINE p == ProcOf(t)
           i0 == Index(t)
<1>1. p \in Procs /\ t \in ThreadsOf(p) /\ UNCHANGED <<posted, indexes>> /\ indexes[t] # {}
  BY ThreadFacts DEF TakeMessage, Handles
<1>2. i0 \in 1 .. Len(reqtab[p]) /\ reqtab[p] \in Seq(Entry) /\ Len(reqtab[p]) \in Nat
  BY <1>1, HandledFacts DEF EngineInv, EngineTypes
<1>3. reqtab[p][i0].idx = NoIdx
  BY DEF TakeMessage, Handled
<1>4. reqtab' = reqtab \/ reqtab' = [reqtab EXCEPT ![p][i0].live = FALSE]
  BY DEF TakeMessage
<1>5. /\ \A q \in Procs : q # p => reqtab'[q] = reqtab[q]
      /\ reqtab'[p] = reqtab[p] \/ reqtab'[p] = [reqtab[p] EXCEPT ![i0].live = FALSE]
  BY <1>1, <1>4 DEF EngineInv, EngineTypes
<1> HIDE DEF i0
<1>6. /\ Len(reqtab'[p]) = Len(reqtab[p])
      /\ \A i \in 1 .. Len(reqtab[p]) : /\ reqtab'[p][i].idx = reqtab[p][i].idx
                                        /\ i # i0 => reqtab'[p][i] = reqtab[p][i]
  <2>1. CASE reqtab'[p] = reqtab[p]
    BY <2>1
  <2>2. CASE reqtab'[p] = [reqtab[p] EXCEPT ![i0].live = FALSE]
    <3>1. Len(reqtab'[p]) = Len(reqtab[p])
      BY <1>2, <2>2
    <3>2. \A i \in 1 .. Len(reqtab[p]) : i # i0 => reqtab'[p][i] = reqtab[p][i]
      BY <1>2, <2>2
    <3>3. reqtab'[p][i0] = [reqtab[p][i0] EXCEPT !.live = FALSE] /\ reqtab[p][i0] \in Entry
      BY <1>2, <2>2
    <3>4. reqtab'[p][i0].idx = reqtab[p][i0].idx
      BY <3>3 DEF Entry
    <3> QED
      BY <3>1, <3>2, <3>4
  <2> QED
    BY <1>5, <2>1, <2>2
<1>7. TablesShrink
  BY <1>5, <1>6 DEF TablesShrink
<1>8. ASSUME NEW x \in FanIns, NEW q \in Procs PROVE PendingAt(q, x)' <=> PendingAt(q, x)
  <2>1. x # NoIdx
    BY FanInFacts
  <2>2. CASE q = p
    <3>1. \A i \in 1 .. Len(reqtab[p]) : reqtab[p][i].idx = x => reqtab'[p][i] = reqtab[p][i]
      BY <1>3, <1>6, <2>1
    <3> QED
      BY <1>1, <1>6, <2>2, <3>1 DEF PendingAt
  <2>3. CASE q # p
    BY <1>1, <1>5, <2>3 DEF PendingAt
  <2> QED
    BY <2>2, <2>3
<1> QED
  BY <1>1, <1>7, <1>8, PendingSplit

(* The next completed request.                                             *)
LEMMA NextPending ==
    ASSUME EngineInv, NEW t \in Threads, indexes[t] # {}, UNCHANGED <<reqtab, posted>>,
           indexes' = [indexes EXCEPT ![t] = @ \ {Index(t)}],
           Handled(t) # NoIdx => ~ reqtab[ProcOf(t)][Index(t)].live
    PROVE  \A x \in FanIns : Pending(x)' <=> Pending(x) /\ x # Handled(t)
<1> DEFINE p == ProcOf(t)
           i0 == Index(t)
<1>1. p \in Procs /\ t \in ThreadsOf(p) /\ i0 \in indexes[t] /\ i0 \in 1 .. Len(reqtab[p])
  BY HandledFacts, ThreadFacts
<1>2. \A u \in ThreadsOf(p) : u # t => indexes[u] = {}
  BY HandledFacts, Alone
<1>3. \A u \in Threads : indexes'[u] = IF u = t THEN indexes[t] \ {i0} ELSE indexes[u]
  BY DEF EngineInv, EngineTypes
<1>4. reqtab[p][i0].idx = Handled(t)
  BY DEF Handled
<1> HIDE DEF i0
<1>5. ASSUME NEW x \in FanIns
      PROVE  Pending(x)' <=> Pending(x) /\ x # Handled(t)
  <2>0. x # NoIdx
    BY FanInFacts
  <2>1. ASSUME NEW q \in Procs, q # p PROVE PendingAt(q, x)' <=> PendingAt(q, x)
    BY <1>1, <1>3, <2>1, ThreadFacts DEF PendingAt
  <2>2. CASE x # Handled(t)
    <3>1. PendingAt(p, x)' <=> PendingAt(p, x)
      <4>1. \A i \in 1 .. Len(reqtab[p]) : reqtab[p][i].idx = x => i # i0
        BY <1>4, <2>2
      <4>2. \A u \in ThreadsOf(p) : u \in Threads
        BY <1>1, ThreadFacts
      <4>3. \A i \in 1 .. Len(reqtab[p]) : reqtab[p][i].idx = x =>
               ((\E u \in ThreadsOf(p) : i \in indexes'[u]) <=> \E u \in ThreadsOf(p) : i \in indexes[u])
        BY <1>3, <4>1, <4>2
      <4> QED
        BY <4>3 DEF PendingAt
    <3> QED
      BY <2>1, <2>2, <3>1, PendingSplit
  <2>3. CASE x = Handled(t)
    <3>1. ~ PendingAt(p, x)'
      <4>1. \A i \in 1 .. Len(reqtab[p]) : reqtab[p][i].idx = x => i = i0
        BY <1>1, <1>4, <2>0, <2>3 DEF EngineInv, Distinct
      <4>2. ~ reqtab[p][i0].live
        BY <2>0, <2>3 DEF i0
      <4>3. \A u \in ThreadsOf(p) : i0 \notin indexes'[u]
        BY <1>1, <1>2, <1>3, ThreadFacts
      <4> QED
        BY <4>1, <4>2, <4>3 DEF PendingAt
    <3>2. \A q \in Procs : q # p => ~ PendingAt(q, x)'
      <4>1. \A q \in Procs : q # p => \A i \in 1 .. Len(reqtab[q]) : reqtab[q][i].idx # x
        BY <1>1, <1>4, <2>0, <2>3 DEF EngineInv, Distinct
      <4> QED
        BY <4>1 DEF PendingAt
    <3>3. \A u \in Threads : posted[u] # x
      <4> SUFFICES ASSUME NEW u \in Threads, posted[u] = x PROVE FALSE
        OBVIOUS
      <4> QED
        BY <1>1, <1>4, <2>0, <2>3 DEF EngineInv, PostedOnce
    <3> QED
      BY <2>3, <3>1, <3>2, <3>3, PendingSplit
  <2> QED
    BY <2>2, <2>3
<1> QED
  BY <1>5

LEMMA DropMessagePending ==
    ASSUME EngineInv, NEW t \in Threads, DropMessage(t), held[t] # NoMsg
    PROVE  \A x \in FanIns : Pending(x)' <=> Pending(x)
<1>1. indexes[t] # {} /\ Handled(t) = NoIdx
  BY DEF EngineInv, Counted
<1>2. \A x \in FanIns : Pending(x)' <=> Pending(x) /\ x # Handled(t)
  BY <1>1, NextPending DEF DropMessage, tableVars
<1> QED
  BY <1>1, <1>2, FanInFacts

LEMMA TakeSentPending ==
    ASSUME EngineInv, NEW t \in Threads, TakeSent(t)
    PROVE  /\ Handled(t) \in FanIns /\ Pending(Handled(t))
           /\ \A x \in FanIns : Pending(x)' <=> Pending(x) /\ x # Handled(t)
<1>1. indexes[t] # {} /\ Handled(t) # NoIdx
  BY DEF TakeSent, Handles
<1>2. Index(t) \in indexes[t] /\ Handled(t) \in FanIns /\ Index(t) \in 1 .. Len(reqtab[ProcOf(t)])
  BY <1>1, HandledFacts
<1>3. ~ reqtab[ProcOf(t)][Index(t)].live
  BY <1>1, <1>2 DEF EngineInv, SentDead, Handled
<1>4. \A x \in FanIns : Pending(x)' <=> Pending(x) /\ x # Handled(t)
  BY <1>1, <1>3, NextPending DEF TakeSent
<1>5. Pending(Handled(t))
  BY <1>2, ThreadFacts DEF Pending, Handled
<1> QED
  BY <1>2, <1>4, <1>5

LEMMA IsendPending ==
    ASSUME EngineInv, NEW t \in Threads, NEW x \in FanIns, NEW q, NEW tag, NEW data,
           Isend(t, x, q, tag, data), posted[t] = NoIdx
    PROVE  \A y \in FanIns : Pending(y)' <=> Pending(y) \/ y = x
<1>1. \A u \in Threads : posted'[u] = IF u = t THEN x ELSE posted[u]
  BY DEF EngineInv, EngineTypes, Isend
<1>2. UNCHANGED <<reqtab, indexes>>
  BY DEF Isend, threadVars
<1> QED
  BY <1>1, <1>2, FanInFacts DEF Pending

LEMMA RegisterPending ==
    ASSUME EngineInv, NEW t \in Threads, Register(t), posted[t] # NoIdx
    PROVE  /\ \A q \in Procs : \A i \in 1 .. Len(reqtab'[q]) :
                 \/ q = ProcOf(t) /\ reqtab'[q][i].idx = posted[t]
                 \/ \E j \in 1 .. Len(reqtab[q]) : reqtab'[q][i].idx = reqtab[q][j].idx
           /\ \A x \in FanIns : Pending(x)' <=> Pending(x)
<1> DEFINE p == ProcOf(t)
           s == reqtab[p]
           n == Len(s)
           r == Request(posted[t])
<1>1. p \in Procs /\ UNCHANGED indexes
  BY ThreadFacts DEF Register, threadVars
<1>2. s \in Seq(Entry) /\ n \in Nat /\ r \in Entry /\ posted[t] \in FanIns
  <2>1. s \in Seq(Entry) /\ n \in Nat
    BY <1>1 DEF EngineInv, EngineTypes
  <2>2. posted[t] \in FanIns
    BY DEF EngineInv, EngineTypes
  <2>3. r \in Entry
    BY <2>2 DEF Request, Entry
  <2> QED
    BY <2>1, <2>2, <2>3
<1>3. (\A q \in Procs : q # p => reqtab'[q] = reqtab[q]) /\ reqtab'[p] = Append(s, r)
  BY <1>1 DEF EngineInv, EngineTypes, Register
<1>4. /\ Len(reqtab'[p]) = n + 1 /\ reqtab'[p][n + 1] = r /\ r.live /\ r.idx = posted[t]
      /\ \A i \in 1 .. n : reqtab'[p][i] = s[i]
  <2>1. r.live /\ r.idx = posted[t]
    BY DEF Request
  <2> HIDE DEF r, s
  <2> QED
    BY <1>2, <1>3, <2>1, AppendProperties
<1>5. \A u \in Threads : posted'[u] = IF u = t THEN NoIdx ELSE posted[u]
  BY DEF EngineInv, EngineTypes, Register
<1> HIDE DEF r, n
<1>6. \A i \in 1 .. n + 1 : i \in 1 .. n \/ i = n + 1
  BY <1>2
<1>7. 1 .. n \subseteq 1 .. n + 1 /\ n + 1 \in 1 .. n + 1
  BY <1>2
<1>8. ASSUME NEW q \in Procs, NEW i \in 1 .. Len(reqtab'[q])
      PROVE  \/ q = p /\ reqtab'[q][i].idx = posted[t]
             \/ \E j \in 1 .. Len(reqtab[q]) : reqtab'[q][i].idx = reqtab[q][j].idx
  BY <1>3, <1>4, <1>6 DEF n
<1>9. ASSUME NEW x \in FanIns PROVE Pending(x)' <=> Pending(x)
  <2>1. ASSUME NEW q \in Procs, q # p PROVE PendingAt(q, x)' <=> PendingAt(q, x)
    BY <1>1, <1>3, <2>1 DEF PendingAt
  <2>2. PendingAt(p, x)' <=> PendingAt(p, x) \/ x = posted[t]
    <3>1. PendingAt(p, x) <=> \E i \in 1 .. n : /\ s[i].idx = x
                                                /\ s[i].live \/ \E u \in ThreadsOf(p) : i \in indexes[u]
      BY DEF PendingAt, n
    <3>2. PendingAt(p, x)' <=>
             \E i \in 1 .. n + 1 : /\ reqtab'[p][i].idx = x
                                   /\ reqtab'[p][i].live \/ \E u \in ThreadsOf(p) : i \in indexes[u]
      BY <1>1, <1>4 DEF PendingAt
    <3> HIDE DEF s
    <3> QED
      BY <1>4, <1>6, <1>7, <3>1, <3>2
  <2>3. x # NoIdx
    BY FanInFacts
  <2>4. (\E u \in Threads : posted[u] = x) <=> (\E u \in Threads : posted'[u] = x) \/ x = posted[t]
    BY <1>5, <2>3
  <2> QED
    BY <1>1, <2>1, <2>2, <2>4, PendingSplit
<1> QED
  BY <1>8, <1>9

LEMMA WaitSentPending ==
    ASSUME EngineInv, NEW p \in Procs, WaitSent(p), \A t \in ThreadsOf(p) : ~ Elected(t)
    PROVE  /\ TablesShrink /\ Head(reqtab[p]).idx \in FanIns
           /\ Len(reqtab[p]) > 0 /\ Head(reqtab[p]) = reqtab[p][1]
           /\ \A x \in FanIns : x # Head(reqtab[p]).idx => (Pending(x)' <=> Pending(x))
           /\ \A x \in FanIns : Pending(x)' => Pending(x)
<1> DEFINE s == reqtab[p]
<1>1. UNCHANGED <<posted, indexes>>
  BY DEF WaitSent, threadVars
<1>2. s \in Seq(Entry) /\ s # <<>> /\ Len(s) \in Nat /\ Head(s) = s[1]
  BY DEF EngineInv, EngineTypes, WaitSent
<1>3. (\A q \in Procs : q # p => reqtab'[q] = reqtab[q]) /\ reqtab'[p] = Tail(s)
  BY DEF EngineInv, EngineTypes, WaitSent
<1>4. Len(reqtab'[p]) = Len(s) - 1 /\ \A i \in 1 .. Len(s) - 1 : reqtab'[p][i] = s[i + 1]
  BY <1>2, <1>3, HeadTailProperties
<1>5. Head(s).idx \in FanIns
  BY DEF WaitSent
<1>6. \A u \in ThreadsOf(p) : indexes[u] = {}
  BY ThreadFacts DEF EngineInv, Counted, Elected, Communicating
<1>7. Len(s) > 0
  BY <1>2
<1> HIDE DEF s
<1>8. TablesShrink
  <2>1. \A i \in 1 .. Len(s) - 1 : i + 1 \in 1 .. Len(s)
    BY <1>2
  <2>2. ASSUME NEW q \in Procs, NEW i \in 1 .. Len(reqtab'[q])
        PROVE  \E j \in 1 .. Len(reqtab[q]) : reqtab'[q][i].idx = reqtab[q][j].idx
    <3>1. CASE q = p
      BY <1>4, <2>1, <3>1 DEF s
    <3>2. CASE q # p
      BY <1>3, <3>2
    <3> QED
      BY <3>1, <3>2
  <2> QED
    BY <2>2 DEF TablesShrink
<1>9. ASSUME NEW x \in FanIns
      PROVE  (Pending(x)' => Pending(x)) /\ (x # Head(s).idx => (Pending(x)' <=> Pending(x)))
  <2>1. ASSUME NEW q \in Procs, q # p PROVE PendingAt(q, x)' <=> PendingAt(q, x)
    BY <1>1, <1>3, <2>1 DEF PendingAt
  <2>2. PendingAt(p, x) <=> \E i \in 1 .. Len(s) : s[i].idx = x /\ s[i].live
    BY <1>6 DEF PendingAt, s
  <2>3. PendingAt(p, x)' <=> \E i \in 1 .. Len(s) - 1 : reqtab'[p][i].idx = x /\ reqtab'[p][i].live
    BY <1>1, <1>4, <1>6 DEF PendingAt
  <2>4. \A i \in 1 .. Len(s) : i = 1 \/ (i - 1 \in 1 .. Len(s) - 1 /\ (i - 1) + 1 = i)
    BY <1>2
  <2>5. \A i \in 1 .. Len(s) - 1 : i + 1 \in 1 .. Len(s)
    BY <1>2
  <2>6. PendingAt(p, x)' => PendingAt(p, x)
    BY <1>4, <2>2, <2>3, <2>5
  <2>7. x # Head(s).idx /\ PendingAt(p, x) => PendingAt(p, x)'
    <3> SUFFICES ASSUME x # Head(s).idx, PendingAt(p, x) PROVE PendingAt(p, x)'
      OBVIOUS
    <3>1. PICK i \in 1 .. Len(s) : s[i].idx = x /\ s[i].live
      BY <2>2
    <3>2. i # 1
      BY <1>2, <3>1
    <3>3. i - 1 \in 1 .. Len(s) - 1 /\ reqtab'[p][i - 1] = s[i]
      BY <1>4, <2>4, <3>2
    <3> QED
      BY <2>3, <3>1, <3>3
  <2> QED
    BY <1>1, <2>1, <2>6, <2>7, PendingSplit
<1> QED
  BY <1>2, <1>5, <1>7, <1>8, <1>9 DEF s
=============================================================================
