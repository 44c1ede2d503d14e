--------------------------- MODULE SimuQueueProofs ---------------------------
(***************************************************************************)
(* TLAPS proofs about the priority queue of kernels/queue.c - for every    *)
(* set of threads and of items, every size of the table and every number   *)
(* of pushes, it is a heap, and it implements the bag of MinQueue - and    *)
(* about the simulation that keeps its tasks in such queues and leaves its *)
(* lists to the static scheduler: OneOrder and AllMapped for every         *)
(* structure and every candidates.                                         *)
(***************************************************************************)
EXTENDS PQueue, SimuRun, FiniteSetTheorems, NaturalsInduction, WellFoundedInduction, TLAPS

-----------------------------------------------------------------------------
(* The queue.                                                              *)

(* The item at j may be the father of the item at k.                       *)
Below(x, y) == ~ ItemComparison(y, x)

QueueTypeOK ==
    /\ size \in Nat /\ used \in Nat /\ used <= size
    /\ elttab \in [1 .. size -> Items \cup {NoItem}]
    /\ \A k \in 1 .. used : elttab[k] \in Items
    /\ lock \in Threads \cup {NoThread}
    /\ pc  \in [Threads -> {"out", "up", "down"}]
    /\ idx \in [Threads -> Nat]
    /\ ret \in [Threads -> Items \cup {Empty}]
    /\ pushed \in Nat

Owner == \A t \in Threads : pc[t] # "out" => lock = t

(* Around the item at i, which moves: its sons do not precede its father.  *)
Around(i) ==
    i > 1 => \A k \in 2 .. used : k \div 2 = i => Below(elttab[i \div 2], elttab[k])

(* An item that moves up may precede its father, and nothing else.         *)
UpOrder ==
    \A t \in Threads : pc[t] = "up" =>
        /\ idx[t] \in 1 .. used /\ Around(idx[t])
        /\ \A k \in 2 .. used : k # idx[t] => Below(elttab[k \div 2], elttab[k])

(* An item that moves down may be preceded by its sons, and nothing else.  *)
DownOrder ==
    \A t \in Threads : pc[t] = "down" =>
        /\ idx[t] >= 1 /\ Around(idx[t])
        /\ \A k \in 2 .. used : k \div 2 # idx[t] => Below(elttab[k \div 2], elttab[k])

Ordered == \A k \in 2 .. used : Below(elttab[k \div 2], elttab[k])

QueueInv ==
    /\ QueueTypeOK /\ Owner /\ UpOrder /\ DownOrder
    /\ lock = NoThread => Ordered

-----------------------------------------------------------------------------
LEMMA Half ==
    ASSUME NEW k \in Nat, k >= 2
    PROVE  /\ k \div 2 \in Nat /\ k \div 2 >= 1 /\ k \div 2 < k
           /\ k = 2 * (k \div 2) \/ k = 2 * (k \div 2) + 1
  OBVIOUS

LEMMA HalfOfSon ==
    ASSUME NEW i \in Nat, i >= 1
    PROVE  /\ (2 * i) \div 2 = i /\ (2 * i + 1) \div 2 = i
           /\ \A n \in Nat : i <= n \div 2 <=> 2 * i <= n
  OBVIOUS

(* pqueueItemComparison is a strict order, of which Below is the total     *)
(* preorder.                                                               *)
LEMMA Comparison ==
    ASSUME NEW x \in Items, NEW y \in Items
    PROVE  /\ ItemComparison(x, y) <=> M!Precedes(x, y)
           /\ ItemComparison(x, y) => Below(x, y)
           /\ Below(x, x)
           /\ \A z \in Items : Below(x, y) /\ Below(y, z) => Below(x, z)
  BY PQueueAssumption DEF ItemComparison, M!Precedes, Below

LEMMA InitQueue == Init => QueueInv
  BY PQueueAssumption
     DEF Init, QueueInv, QueueTypeOK, Owner, UpOrder, DownOrder, Ordered

(* The item pushed is the last one: it has no son.                         *)
LEMMA PushKeeps ==
    ASSUME QueueInv, NEW t \in Threads, NEW x \in Items, Push(t, x)
    PROVE  QueueInv'
<1> USE PQueueAssumption
<1>1. /\ lock = NoThread /\ lock' = t /\ used' = used + 1 /\ size' \in Nat /\ used' <= size' /\ size <= size'
      /\ pc' = [pc EXCEPT ![t] = "up"] /\ idx' = [idx EXCEPT ![t] = used + 1]
      /\ \A u \in Threads : pc[u] = "out"
      /\ elttab' = [k \in 1 .. size' |->
                     IF k = used + 1 THEN x ELSE IF k <= size THEN elttab[k] ELSE NoItem]
      /\ ret' = ret /\ pushed' = pushed + 1
  BY DEF Push, NewSize, Goto, QueueInv, QueueTypeOK, Owner
<1>2. /\ elttab' \in [1 .. size' -> Items \cup {NoItem}]
      /\ elttab'[used + 1] = x /\ \A k \in 1 .. used : elttab'[k] = elttab[k]
  BY <1>1 DEF QueueInv, QueueTypeOK
<1>3. QueueTypeOK'
  BY <1>1, <1>2 DEF QueueInv, QueueTypeOK
<1>4. Owner' /\ DownOrder'
  BY <1>1 DEF Owner, DownOrder, QueueInv, QueueTypeOK
<1>5. \A k \in 2 .. used : Below(elttab'[k \div 2], elttab'[k])
  BY <1>1, <1>2, Half DEF QueueInv, Ordered, QueueTypeOK
<1>6. \A k \in 2 .. used + 1 : k \div 2 # used + 1
  BY Half DEF QueueInv, QueueTypeOK
<1>7. ASSUME NEW u \in Threads, pc'[u] = "up"
      PROVE  /\ idx'[u] \in 1 .. used' /\ Around(idx[u])'
             /\ \A k \in 2 .. used' : k # idx'[u] => Below(elttab'[k \div 2], elttab'[k])
  <2>1. idx'[u] = used + 1
    BY <1>1, <1>7 DEF QueueInv, QueueTypeOK
  <2>2. used \in Nat /\ used' = used + 1
    BY <1>1 DEF QueueInv, QueueTypeOK
  <2>3. Around(idx[u])'
    BY <1>6, <2>1, <2>2 DEF Around
  <2> QED
    BY <1>5, <2>1, <2>2, <2>3
<1>8. UpOrder'
  BY <1>7 DEF UpOrder, Below
<1> QED
  BY <1>1, <1>3, <1>4, <1>8 DEF QueueInv

LEMMA PopKeeps ==
    ASSUME QueueInv, NEW t \in Threads, Pop(t)
    PROVE  QueueInv'
<1> USE PQueueAssumption
<1>1. /\ lock = NoThread /\ lock' = t /\ used' = used - 1 /\ used >= 1 /\ size' = size
      /\ pc' = [pc EXCEPT ![t] = "down"] /\ idx' = [idx EXCEPT ![t] = 1]
      /\ \A u \in Threads : pc[u] = "out"
      /\ elttab' = [elttab EXCEPT ![1] = elttab[used]]
      /\ ret' = [ret EXCEPT ![t] = elttab[1]] /\ pushed' = pushed
  BY DEF Pop, Goto, QueueInv, QueueTypeOK, Owner
<1>2. \A k \in 2 .. used : elttab'[k] = elttab[k]
  BY <1>1 DEF QueueInv, QueueTypeOK
<1>3. QueueTypeOK'
  BY <1>1 DEF QueueInv, QueueTypeOK
<1>4. Owner' /\ UpOrder'
  BY <1>1 DEF Owner, UpOrder, QueueInv, QueueTypeOK
<1>5. \A k \in 2 .. used - 1 : k \div 2 # 1 => Below(elttab'[k \div 2], elttab'[k])
  BY <1>1, <1>2, Half DEF QueueInv, Ordered, QueueTypeOK
<1>6. DownOrder'
  BY <1>1, <1>5 DEF DownOrder, Around, QueueInv, QueueTypeOK
<1> QED
  BY <1>1, <1>3, <1>4, <1>6 DEF QueueInv

LEMMA SwapTable ==
    ASSUME QueueTypeOK, NEW i \in 1 .. used, NEW j \in 1 .. used, i # j, elttab' = Swap(elttab, i, j),
           UNCHANGED <<size, used>>
    PROVE  /\ elttab' \in [1 .. size -> Items \cup {NoItem}]
           /\ elttab'[i] = elttab[j] /\ elttab'[j] = elttab[i]
           /\ \A k \in 1 .. size : k # i /\ k # j => elttab'[k] = elttab[k]
           /\ \A k \in 1 .. used : elttab'[k] \in Items
  BY DEF QueueTypeOK, Swap

LEMMA UpKeeps ==
    ASSUME QueueInv, NEW t \in Threads, Up(t)
    PROVE  QueueInv'
<1> USE PQueueAssumption
<1> DEFINE i == idx[t]
           h == i \div 2
<1>1. /\ pc[t] = "up" /\ i \in 2 .. used /\ lock = t /\ ItemComparison(elttab[i], elttab[h])
      /\ elttab' = Swap(elttab, i, h) /\ idx' = [idx EXCEPT ![t] = h] /\ pc' = pc
      /\ UNCHANGED <<size, used, lock, ret, pushed>>
      /\ \A u \in Threads : u # t => pc[u] = "out"
  BY DEF Up, Goto, QueueInv, QueueTypeOK, UpOrder, Owner
<1>2. h \in 1 .. used /\ h # i /\ h < i
  BY <1>1, Half DEF QueueInv, QueueTypeOK
<1>3. /\ elttab' \in [1 .. size -> Items \cup {NoItem}]
      /\ elttab'[i] = elttab[h] /\ elttab'[h] = elttab[i]
      /\ \A k \in 1 .. size : k # i /\ k # h => elttab'[k] = elttab[k]
      /\ \A k \in 1 .. used : elttab'[k] \in Items /\ elttab[k] \in Items
  BY <1>1, <1>2, SwapTable DEF QueueInv, QueueTypeOK
<1>4. /\ Around(i)
      /\ \A k \in 2 .. used : k # i => Below(elttab[k \div 2], elttab[k])
  BY <1>1 DEF QueueInv, UpOrder
<1>a. i \div 2 = h
  OBVIOUS
<1> HIDE DEF i, h
<1>5. Below(elttab[i], elttab[h])
  BY <1>1, <1>2, <1>3, Comparison
<1>6. ASSUME NEW k \in 2 .. used, k # h PROVE Below(elttab'[k \div 2], elttab'[k])
  <2>1. k \div 2 \in 1 .. used /\ k \div 2 < k /\ k \in 1 .. size
    BY Half DEF QueueInv, QueueTypeOK
  <2>2. CASE k = i
    BY <1>3, <1>5, <1>a, <2>2
  <2>3. CASE k # i /\ k \div 2 = i
    BY <1>1, <1>2, <1>3, <1>4, <1>6, <1>a, <2>1, <2>3 DEF Around
  <2>4. CASE k # i /\ k \div 2 = h
    BY <1>2, <1>3, <1>4, <1>5, <1>6, <2>1, <2>4, Comparison
  <2>5. CASE k # i /\ k \div 2 # i /\ k \div 2 # h
    BY <1>3, <1>4, <1>6, <2>1, <2>5 DEF QueueInv, QueueTypeOK
  <2> QED
    BY <2>2, <2>3, <2>4, <2>5
<1>7. ASSUME h > 1, NEW k \in 2 .. used, k \div 2 = h PROVE Below(elttab'[h \div 2], elttab'[k])
  <2>1. h \div 2 \in 1 .. used /\ h \div 2 < h /\ h \in 2 .. used /\ k \in 1 .. size
    BY <1>2, <1>7, Half DEF QueueInv, QueueTypeOK
  <2>2. elttab'[h \div 2] = elttab[h \div 2] /\ Below(elttab[h \div 2], elttab[h])
    BY <1>1, <1>2, <1>3, <1>4, <2>1 DEF QueueInv, QueueTypeOK
  <2>3. CASE k = i
    BY <1>3, <2>2, <2>3
  <2>4. CASE k # i
    <3>1. elttab'[k] = elttab[k] /\ Below(elttab[h], elttab[k])
      BY <1>2, <1>3, <1>4, <1>7, <2>1, <2>4, Half
    <3> QED
      BY <1>2, <1>3, <2>1, <2>2, <3>1, Comparison
  <2> QED
    BY <2>3, <2>4
<1>8. QueueTypeOK'
  BY <1>1, <1>2, <1>3 DEF QueueInv, QueueTypeOK
<1>9. Owner' /\ DownOrder'
  BY <1>1 DEF Owner, DownOrder, QueueInv
<1>10. UpOrder'
  <2> SUFFICES ASSUME NEW u \in Threads, pc'[u] = "up"
               PROVE  /\ idx'[u] \in 1 .. used' /\ Around(idx[u])'
                      /\ \A k \in 2 .. used' : k # idx'[u] => Below(elttab'[k \div 2], elttab'[k])
    BY DEF UpOrder, Below
  <2>1. u = t /\ idx'[u] = h
    BY <1>1 DEF QueueInv, QueueTypeOK
  <2> QED
    BY <1>1, <1>2, <1>6, <1>7, <2>1 DEF Around
<1> QED
  BY <1>1, <1>8, <1>9, <1>10 DEF QueueInv

(* The son that Down takes is one that no other son precedes.              *)
LEMMA SonIs ==
    ASSUME QueueTypeOK, NEW i \in Nat, i >= 1, i <= used \div 2
    PROVE  /\ Son(i) \in 2 .. used /\ Son(i) \div 2 = i /\ Son(i) # i
           /\ \A k \in 2 .. used : k \div 2 = i => Below(elttab[Son(i)], elttab[k])
<1>1. 2 * i <= used
  BY HalfOfSon DEF QueueTypeOK
<1>2. \A k \in 1 .. used : elttab[k] \in Items
  BY DEF QueueTypeOK
<1>3. CASE 2 * i = used
  <2>1. Son(i) = 2 * i
    BY <1>3 DEF Son
  <2>2. \A k \in 2 .. used : k \div 2 = i => k = 2 * i
    BY <1>3, Half
  <2> QED
    BY <1>2, <1>3, <2>1, <2>2, HalfOfSon, Comparison
<1>4. CASE 2 * i # used
  <2>1. 2 * i + 1 <= used
    BY <1>1, <1>4 DEF QueueTypeOK
  <2>2. \A k \in 2 .. used : k \div 2 = i => k = 2 * i \/ k = 2 * i + 1
    BY Half
  <2>3. CASE ItemComparison(elttab[2 * i], elttab[2 * i + 1])
    <3>1. Son(i) = 2 * i
      BY <2>3 DEF Son
    <3>2. Below(elttab[2 * i], elttab[2 * i + 1]) /\ Below(elttab[2 * i], elttab[2 * i])
      BY <1>1, <1>2, <2>1, <2>3, Comparison
    <3>3. 2 * i \in 2 .. used /\ (2 * i) \div 2 = i /\ 2 * i # i
      BY <2>1, HalfOfSon DEF QueueTypeOK
    <3>4. \A k \in 2 .. used : k \div 2 = i => Below(elttab[2 * i], elttab[k])
      BY <2>2, <3>2
    <3> QED
      BY <3>1, <3>3, <3>4
  <2>4. CASE ~ ItemComparison(elttab[2 * i], elttab[2 * i + 1])
    <3>1. Son(i) = 2 * i + 1
      BY <1>4, <2>4 DEF Son
    <3>2. Below(elttab[2 * i + 1], elttab[2 * i])
      BY <2>4 DEF Below
    <3>3. Below(elttab[2 * i + 1], elttab[2 * i + 1])
      BY <1>2, <2>1, Comparison
    <3> QED
      BY <2>1, <2>2, <3>1, <3>2, <3>3, HalfOfSon
  <2> QED
    BY <2>3, <2>4
<1> QED
  BY <1>3, <1>4

LEMMA DownKeeps ==
    ASSUME QueueInv, NEW t \in Threads, Down(t)
    PROVE  QueueInv'
<1> USE PQueueAssumption
<1> DEFINE i == idx[t]
           s == Son(i)
<1>1. /\ pc[t] = "down" /\ i \in Nat /\ i >= 1 /\ i <= used \div 2 /\ lock = t
      /\ ~ ItemComparison(elttab[i], elttab[s])
      /\ elttab' = Swap(elttab, i, s) /\ idx' = [idx EXCEPT ![t] = s] /\ pc' = pc
      /\ UNCHANGED <<size, used, lock, ret, pushed>>
      /\ \A u \in Threads : u # t => pc[u] = "out"
  BY DEF Down, Goto, QueueInv, QueueTypeOK, DownOrder, Owner
<1>2. /\ Around(i)
      /\ \A k \in 2 .. used : k \div 2 # i => Below(elttab[k \div 2], elttab[k])
  BY <1>1 DEF QueueInv, DownOrder
<1> HIDE DEF i
<1>3. /\ s \in 2 .. used /\ s \div 2 = i /\ s # i
      /\ \A k \in 2 .. used : k \div 2 = i => Below(elttab[s], elttab[k])
  BY <1>1, SonIs DEF QueueInv
<1> HIDE DEF s
<1>4. i \in 1 .. used /\ used \in Nat /\ used <= size /\ size \in Nat
  BY <1>1, <1>3, HalfOfSon DEF QueueInv, QueueTypeOK
<1>5. /\ elttab' \in [1 .. size -> Items \cup {NoItem}]
      /\ elttab'[i] = elttab[s] /\ elttab'[s] = elttab[i]
      /\ \A k \in 1 .. size : k # i /\ k # s => elttab'[k] = elttab[k]
      /\ \A k \in 1 .. used : elttab'[k] \in Items /\ elttab[k] \in Items
  BY <1>1, <1>3, <1>4, SwapTable DEF QueueInv, QueueTypeOK
<1>6. Below(elttab[s], elttab[i])
  BY <1>1 DEF Below
<1>7. ASSUME NEW k \in 2 .. used, k \div 2 # s PROVE Below(elttab'[k \div 2], elttab'[k])
  <2>1. k \div 2 \in 1 .. used /\ k \div 2 < k /\ k \in 1 .. size /\ k \div 2 \in 1 .. size
    BY <1>4, Half
  <2>2. CASE k = s
    BY <1>3, <1>5, <1>6, <2>2
  <2>3. CASE k = i
    <3>1. i > 1 /\ i \div 2 # i /\ i \div 2 # s
      BY <1>3, <1>4, <1>7, <2>1, <2>3
    <3>2. Below(elttab[i \div 2], elttab[s])
      BY <1>2, <1>3, <3>1 DEF Around
    <3> QED
      BY <1>5, <2>1, <2>3, <3>1, <3>2
  <2>4. CASE k # s /\ k # i /\ k \div 2 = i
    BY <1>3, <1>5, <2>1, <2>4
  <2>5. CASE k # s /\ k # i /\ k \div 2 # i
    BY <1>2, <1>5, <1>7, <2>1, <2>5
  <2> QED
    BY <2>2, <2>3, <2>4, <2>5
<1>8. ASSUME NEW k \in 2 .. used, k \div 2 = s PROVE Below(elttab'[s \div 2], elttab'[k])
  <2>1. k # i /\ k # s /\ k \in 1 .. size /\ k \div 2 # i
    BY <1>3, <1>4, <1>8, Half
  <2>2. Below(elttab[s], elttab[k])
    BY <1>2, <1>8, <2>1
  <2> QED
    BY <1>3, <1>5, <2>1, <2>2
<1>9. QueueTypeOK'
  BY <1>1, <1>3, <1>5 DEF QueueInv, QueueTypeOK
<1>10. Owner' /\ UpOrder'
  BY <1>1 DEF Owner, UpOrder, QueueInv
<1>11. DownOrder'
  <2> SUFFICES ASSUME NEW u \in Threads, pc'[u] = "down"
               PROVE  /\ idx'[u] >= 1 /\ Around(idx[u])'
                      /\ \A k \in 2 .. used' : k \div 2 # idx'[u] => Below(elttab'[k \div 2], elttab'[k])
    BY DEF DownOrder, Below
  <2>1. u = t /\ idx'[u] = s
    BY <1>1 DEF QueueInv, QueueTypeOK
  <2> QED
    BY <1>1, <1>3, <1>7, <1>8, <2>1 DEF Around
<1> QED
  BY <1>1, <1>9, <1>10, <1>11 DEF QueueInv

LEMMA ReturnKeeps ==
    ASSUME QueueInv, NEW t \in Threads, PushReturns(t) \/ PopReturns(t)
    PROVE  QueueInv' /\ UNCHANGED <<used, elttab, ret>>
<1> USE PQueueAssumption
<1>1. /\ pc[t] \in {"up", "down"} /\ lock = t /\ pc' = [pc EXCEPT ![t] = "out"] /\ lock' = NoThread
      /\ idx' = [idx EXCEPT ![t] = 0]
      /\ UNCHANGED <<size, used, elttab, ret, pushed>>
      /\ \A u \in Threads : u # t => pc[u] = "out"
  BY DEF PushReturns, PopReturns, Free, QueueInv, Owner
<1>2. QueueTypeOK' /\ Owner' /\ UpOrder' /\ DownOrder'
  BY <1>1 DEF QueueInv, QueueTypeOK, Owner, UpOrder, DownOrder
<1>3. CASE PushReturns(t)
  <2>1. /\ pc[t] = "up" /\ idx[t] \in 1 .. used
        /\ idx[t] > 1 => Below(elttab[idx[t] \div 2], elttab[idx[t]])
        /\ \A k \in 2 .. used : k # idx[t] => Below(elttab[k \div 2], elttab[k])
    BY <1>3 DEF PushReturns, QueueInv, UpOrder, Below
  <2>2. Ordered
    BY <2>1 DEF Ordered, QueueInv, QueueTypeOK
  <2> QED
    BY <1>1, <1>2, <2>2 DEF Ordered, Below, QueueInv
<1>4. CASE PopReturns(t)
  <2>1. /\ pc[t] = "down" /\ idx[t] >= 1 /\ idx[t] \in Nat
        /\ idx[t] <= used \div 2 => ItemComparison(elttab[idx[t]], elttab[Son(idx[t])])
        /\ \A k \in 2 .. used : k \div 2 # idx[t] => Below(elttab[k \div 2], elttab[k])
    BY <1>4 DEF PopReturns, QueueInv, QueueTypeOK, DownOrder
  <2>2. ASSUME NEW k \in 2 .. used, k \div 2 = idx[t] PROVE Below(elttab[idx[t]], elttab[k])
    <3>1. idx[t] <= used \div 2
      BY <2>1, <2>2, Half, HalfOfSon DEF QueueInv, QueueTypeOK
    <3>2. /\ Son(idx[t]) \in 2 .. used /\ Below(elttab[Son(idx[t])], elttab[k])
      BY <2>1, <2>2, <3>1, SonIs DEF QueueInv
    <3>3. idx[t] \in 1 .. used
      BY <2>1, <2>2, Half DEF QueueInv, QueueTypeOK
    <3>4. \A j \in 1 .. used : elttab[j] \in Items
      BY DEF QueueInv, QueueTypeOK
    <3>5. elttab[k] \in Items /\ elttab[Son(idx[t])] \in Items /\ elttab[idx[t]] \in Items
      BY <3>2, <3>3, <3>4
    <3> QED
      BY <2>1, <3>1, <3>2, <3>5, Comparison
  <2>3. Ordered
    BY <2>1, <2>2 DEF Ordered
  <2> QED
    BY <1>1, <1>2, <2>3 DEF Ordered, Below, QueueInv
<1> QED
  BY <1>1, <1>3, <1>4

LEMMA NextQueue == QueueInv /\ [Next]_vars => QueueInv'
<1> SUFFICES ASSUME QueueInv, [Next]_vars PROVE QueueInv'
  OBVIOUS
<1>1. ASSUME NEW t \in Threads, NEW x \in Items, Push(t, x) PROVE QueueInv'
  BY <1>1, PushKeeps
<1>2. ASSUME NEW t \in Threads, Pop(t) PROVE QueueInv'
  BY <1>2, PopKeeps
<1>3. ASSUME NEW t \in Threads, PopEmpty(t) PROVE QueueInv'
  BY <1>3 DEF PopEmpty, QueueInv, QueueTypeOK, Owner, UpOrder, DownOrder, Around, Ordered, Below
<1>4. ASSUME NEW t \in Threads, Inside(t) PROVE QueueInv'
  BY <1>4, UpKeeps, DownKeeps, ReturnKeeps DEF Inside
<1>5. CASE UNCHANGED vars
  BY <1>5 DEF vars, QueueInv, QueueTypeOK, Owner, UpOrder, DownOrder, Around, Ordered, Below
<1> QED
  BY <1>1, <1>2, <1>3, <1>4, <1>5 DEF Next

(* The thread that has the lock is the only one inside the queue, and      *)
(* breaks the order of the heap only around the item that it moves.        *)
THEOREM QueueInvariant == Spec => []QueueInv
<1> QED
  BY InitQueue, NextQueue, PTL DEF Spec

(* The queue is a heap whenever its lock is free, and nearly one while a   *)
(* thread is inside, alone: for every set of items and of threads, every   *)
(* size of the table and every number of pushes.                           *)
THEOREM HeapOrderAlways == Spec => []HeapOrder
<1>1. ASSUME QueueInv, NEW t \in Threads, pc[t] # "out" PROVE lock = t /\ SiftOrder(t)
  <2> DEFINE i == idx[t]
  <2>1. lock = t /\ pc[t] \in {"up", "down"}
    BY <1>1 DEF QueueInv, QueueTypeOK, Owner
  <2>2. /\ Around(i)
        /\ \A k \in 2 .. used : k # i /\ k \div 2 # i => Below(elttab[k \div 2], elttab[k])
    BY <1>1, <2>1 DEF QueueInv, UpOrder, DownOrder
  <2> HIDE DEF i
  <2>3. \A k \in 2 .. used :
           /\ k # i /\ k \div 2 # i => ~ ItemComparison(elttab[k], elttab[k \div 2])
           /\ k \div 2 = i /\ i > 1 => ~ ItemComparison(elttab[k], elttab[i \div 2])
    BY <2>2 DEF Around, Below
  <2> QED
    BY <2>1, <2>3 DEF SiftOrder, i
<1>2. QueueInv => HeapOrder
  BY <1>1 DEF QueueInv, HeapOrder, Ordered, Below
<1> QED
  BY <1>2, QueueInvariant, PTL

-----------------------------------------------------------------------------
(* No item precedes the head of a heap: the first one that did would be    *)
(* preceded by its father.                                                 *)
LEMMA HeadIsMinimal ==
    ASSUME QueueTypeOK, Ordered, NEW k \in 1 .. used
    PROVE  Below(elttab[1], elttab[k])
<1> DEFINE S == {n \in 1 .. used : ~ Below(elttab[1], elttab[n])}
           R == {ss \in Nat \X Nat : ss[1] < ss[2]}
<1>1. \A n \in 1 .. used : elttab[n] \in Items
  BY DEF QueueTypeOK
<1>2. SUFFICES ASSUME S # {} PROVE FALSE
  OBVIOUS
<1>3. S \subseteq Nat
  BY DEF QueueTypeOK
<1>4. IsWellFoundedOn(R, Nat)
  BY NatLessThanWellFounded, Zenon DEF OpToRel
<1> HIDE DEF R
<1>5. PICK n \in S : \A m \in S : ~ (<<m, n>> \in R)
  BY <1>2, <1>3, <1>4, WFMin
<1>6. \A m \in S : ~ (m < n)
  BY <1>3, <1>5 DEF R
<1>7. n # 1
  BY <1>1, Comparison
<1>8. n \in 2 .. used /\ n \div 2 \in 1 .. used /\ n \div 2 < n
  BY <1>7, Half DEF QueueTypeOK
<1>9. Below(elttab[1], elttab[n \div 2]) /\ Below(elttab[n \div 2], elttab[n])
  BY <1>6, <1>8 DEF Ordered
<1>10. elttab[1] \in Items /\ elttab[n] \in Items /\ elttab[n \div 2] \in Items
  BY <1>1, <1>8 DEF QueueTypeOK
<1>11. Below(elttab[1], elttab[n])
  BY <1>9, <1>10, Comparison
<1> QED
  BY <1>11

(* The bag of the n first items of a table.                                *)
Places(tab, n, x) == {k \in 1 .. n : tab[k] = x}
BagOf(tab, n) == [x \in {tab[k] : k \in 1 .. n} |-> Cardinality(Places(tab, n, x))]

LEMMA PlacesFinite ==
    ASSUME NEW tab, NEW n \in Nat, NEW x
    PROVE  /\ IsFiniteSet(Places(tab, n, x)) /\ Cardinality(Places(tab, n, x)) \in Nat
           /\ Cardinality(Places(tab, n, x)) = 0 <=> \A k \in 1 .. n : tab[k] # x
<1>1. IsFiniteSet(1 .. n)
  BY FS_Interval
<1>2. IsFiniteSet(Places(tab, n, x))
  BY <1>1, FS_Subset DEF Places
<1>3. Cardinality(Places(tab, n, x)) = 0 <=> Places(tab, n, x) = {}
  BY <1>2, FS_EmptySet
<1> QED
  BY <1>2, <1>3, FS_CardinalityType DEF Places

LEMMA ContentIs == QueueTypeOK => Content = BagOf(elttab, used)
<1> SUFFICES ASSUME QueueTypeOK PROVE Content = BagOf(elttab, used)
  OBVIOUS
<1> DEFINE s == SubSeq(elttab, 1, used)
<1>1. elttab \in Seq(Items \cup {NoItem}) /\ Len(elttab) = size
  BY DEF QueueTypeOK
<1>2. DOMAIN s = 1 .. used /\ \A k \in 1 .. used : s[k] = elttab[k]
  BY <1>1 DEF QueueTypeOK
<1> HIDE DEF s
<1>3. Range(s) = {elttab[k] : k \in 1 .. used}
  BY <1>2 DEF Range
<1> QED
  BY <1>3 DEF Content, BagOf, Places, s

(* Only the n first items matter.                                          *)
LEMMA SameBag ==
    ASSUME NEW tab, NEW other, NEW n \in Nat, \A k \in 1 .. n : tab[k] = other[k]
    PROVE  BagOf(tab, n) = BagOf(other, n)
<1>1. \A x : Places(tab, n, x) = Places(other, n, x)
  BY DEF Places
<1>2. {tab[k] : k \in 1 .. n} = {other[k] : k \in 1 .. n}
  OBVIOUS
<1> QED
  BY <1>1, <1>2 DEF BagOf

(* An exchange of two items changes no bag.                                *)
LEMMA SwapBag ==
    ASSUME NEW tab, NEW n \in Nat, NEW i \in 1 .. n, NEW j \in 1 .. n, NEW other,
           other[i] = tab[j], other[j] = tab[i],
           \A k \in 1 .. n : k # i /\ k # j => other[k] = tab[k]
    PROVE  BagOf(other, n) = BagOf(tab, n)
<1> DEFINE f(k) == IF k = i THEN j ELSE IF k = j THEN i ELSE k
<1>1. \A k \in 1 .. n : f(k) \in 1 .. n /\ f(f(k)) = k /\ other[f(k)] = tab[k] /\ tab[f(k)] = other[k]
  OBVIOUS
<1> HIDE DEF f
<1>2. {other[k] : k \in 1 .. n} = {tab[k] : k \in 1 .. n}
  BY <1>1
<1>3. ASSUME NEW x PROVE Cardinality(Places(other, n, x)) = Cardinality(Places(tab, n, x))
  <2> DEFINE S == Places(tab, n, x)
             T == Places(other, n, x)
             g == [k \in S |-> f(k)]
  <2>1. \A k \in S : f(k) \in T /\ f(f(k)) = k
    BY <1>1 DEF Places
  <2>2. \A k \in T : f(k) \in S /\ f(f(k)) = k
    BY <1>1 DEF Places
  <2>3. IsFiniteSet(S)
    BY PlacesFinite
  <2> HIDE DEF S, T
  <2>4. g \in [S -> T] /\ \A k \in S : g[k] = f(k)
    BY <2>1
  <2>5. IsInjective(g)
    <3> SUFFICES ASSUME NEW a \in S, NEW b \in S, g[a] = g[b] PROVE a = b
      BY <2>4 DEF IsInjective
    <3> HIDE DEF g
    <3>1. f(a) = f(b)
      BY <2>4
    <3> QED
      BY <2>1, <3>1
  <2>6. \A b \in T : \E a \in S : g[a] = b
    BY <2>2, <2>4
  <2>7. g \in Bijection(S, T)
    BY <2>4, <2>5, <2>6 DEF Bijection, Injection, Surjection
  <2>8. ExistsBijection(S, T)
    BY <2>7 DEF ExistsBijection
  <2>9. Cardinality(T) = Cardinality(S)
    BY <2>3, <2>8, FS_Bijection
  <2> QED
    BY <2>9 DEF S, T
<1> QED
  BY <1>2, <1>3 DEF BagOf

(* The last item is one more in the bag.                                   *)
LEMMA LastOfBag ==
    ASSUME NEW tab, NEW n \in Nat
    PROVE  /\ BagOf(tab, n + 1) = M!BagAdd(BagOf(tab, n), tab[n + 1])
           /\ M!BagRemove(BagOf(tab, n + 1), tab[n + 1]) = BagOf(tab, n)
<1> DEFINE x == tab[n + 1]
           B == BagOf(tab, n)
           C == BagOf(tab, n + 1)
           D == {tab[k] : k \in 1 .. n}
<1>1. 1 .. n + 1 = (1 .. n) \cup {n + 1} /\ n + 1 \notin 1 .. n
  OBVIOUS
<1>2. \A y : Places(tab, n + 1, y) = IF y = x THEN Places(tab, n, y) \cup {n + 1} ELSE Places(tab, n, y)
  BY <1>1 DEF Places
<1>3. n + 1 \notin Places(tab, n, x)
  BY <1>1 DEF Places
<1>4. \A y : Cardinality(Places(tab, n + 1, y))
              = IF y = x THEN Cardinality(Places(tab, n, y)) + 1 ELSE Cardinality(Places(tab, n, y))
  <2>1. IsFiniteSet(Places(tab, n, x))
    BY PlacesFinite
  <2>2. Cardinality(Places(tab, n, x) \cup {n + 1}) = Cardinality(Places(tab, n, x)) + 1
    <3> DEFINE P == Places(tab, n, x)
    <3>1. IsFiniteSet(P) /\ n + 1 \notin P
      BY <1>3, <2>1
    <3> HIDE DEF P, x
    <3>2. Cardinality(P \cup {n + 1}) = Cardinality(P) + 1
      BY <3>1, FS_AddElement
    <3> QED
      BY <3>2 DEF P
  <2> HIDE DEF x
  <2> QED
    BY <1>2, <2>2
<1>5. DOMAIN C = D \cup {x} /\ DOMAIN B = D
  BY <1>1 DEF BagOf
<1>6. \A y \in D : B[y] = Cardinality(Places(tab, n, y))
  BY DEF BagOf
<1>7. \A y \in D \cup {x} : C[y] = Cardinality(Places(tab, n + 1, y))
  BY <1>1 DEF BagOf
<1>8. /\ x \in D => Cardinality(Places(tab, n, x)) \in Nat \ {0}
      /\ x \notin D => Cardinality(Places(tab, n, x)) = 0
  BY PlacesFinite
<1>9. C = [y \in D \cup {x} |-> C[y]] /\ B = [y \in D |-> B[y]]
  BY <1>1 DEF BagOf
<1> HIDE DEF x, B, C, D
<1>10. C = M!BagAdd(B, x)
  <2>1. CASE x \in D
    <3>1. C = [y \in D |-> C[y]] /\ DOMAIN B = D
      <4>1. D \cup {x} = D
        BY <2>1
      <4> QED
        BY <1>5, <1>9, <4>1
    <3>2. \A y \in D : C[y] = IF y = x THEN B[y] + 1 ELSE B[y]
      BY <1>4, <1>6, <1>7
    <3>3. C = [y \in D |-> IF y = x THEN B[y] + 1 ELSE B[y]]
      BY <3>1, <3>2
    <3> QED
      BY <2>1, <3>1, <3>3 DEF M!BagAdd
  <2>2. CASE x \notin D
    <3>1. \A y \in D \cup {x} : C[y] = IF y = x THEN 1 ELSE B[y]
      BY <1>4, <1>6, <1>7, <1>8, <2>2
    <3>2. C = [y \in D \cup {x} |-> IF y = x THEN 1 ELSE B[y]]
      BY <1>9, <3>1
    <3>3. M!BagAdd(B, x) = [y \in D \cup {x} |-> IF y = x THEN 1 ELSE B[y]]
      BY <1>5, <2>2 DEF M!BagAdd
    <3> QED
      BY <3>2, <3>3
  <2> QED
    BY <2>1, <2>2
<1>11. M!BagRemove(C, x) = B
  <2>1. CASE x \in D
    <3>1. C[x] # 1 /\ DOMAIN C = D
      BY <1>4, <1>5, <1>6, <1>7, <1>8, <2>1
    <3>2. \A y \in D : B[y] \in Nat
      <4>1. \A y \in D : Cardinality(Places(tab, n, y)) \in Nat
        BY PlacesFinite
      <4> QED
        BY <1>6, <4>1
    <3>3. \A y \in D : B[y] = IF y = x THEN C[y] - 1 ELSE C[y]
      BY <1>4, <1>6, <1>7, <3>2
    <3>4. B = [y \in D |-> IF y = x THEN C[y] - 1 ELSE C[y]]
      BY <1>9, <3>3
    <3> QED
      BY <2>1, <3>1, <3>4 DEF M!BagRemove
  <2>2. CASE x \notin D
    <3>1. C[x] = 1 /\ x \in DOMAIN C /\ (D \cup {x}) \ {x} = D
      BY <1>4, <1>5, <1>7, <1>8, <2>2
    <3> QED
      BY <1>4, <1>5, <1>6, <1>7, <1>9, <2>2, <3>1 DEF M!BagRemove
  <2> QED
    BY <2>1, <2>2
<1> QED
  BY <1>10, <1>11 DEF x, B, C

-----------------------------------------------------------------------------
LEMMA InitMapped == Init => M!QInit
<1> SUFFICES ASSUME Init PROVE M!QInit
  OBVIOUS
<1>1. Content = BagOf(elttab, 0)
  BY InitQueue, ContentIs DEF Init, QueueInv
<1>2. {elttab[k] : k \in 1 .. 0} = {}
  OBVIOUS
<1>3. Content = [x \in {} |-> 1]
  BY <1>1, <1>2 DEF BagOf
<1> QED
  BY <1>3 DEF Init, M!QInit, M!EmptyBag, M!SetToBag

LEMMA PushMapped ==
    ASSUME QueueInv, QueueInv', NEW t \in Threads, NEW x \in Items, Push(t, x)
    PROVE  M!Put(x)
<1>1. /\ used' = used + 1 /\ ret' = ret /\ elttab'[used + 1] = x /\ used \in Nat
      /\ \A k \in 1 .. used : elttab'[k] = elttab[k]
  BY DEF Push, NewSize, QueueInv, QueueTypeOK
<1>2. Content' = BagOf(elttab', used + 1)
  <2>1. QueueTypeOK'
    BY DEF QueueInv
  <2>2. (Content = BagOf(elttab, used))'
    BY <2>1, ContentIs, PTL
  <2> QED
    BY <1>1, <2>2
<1>3. Content = BagOf(elttab', used)
  BY <1>1, ContentIs, SameBag DEF QueueInv
<1> QED
  BY <1>1, <1>2, <1>3, LastOfBag DEF M!Put

LEMMA NextContent ==
    ASSUME QueueInv'
    PROVE  Content' = BagOf(elttab', used')
<1>1. QueueTypeOK'
  BY DEF QueueInv
<1>2. (Content = BagOf(elttab, used))'
  BY <1>1, ContentIs, PTL
<1> QED
  BY <1>2

(* The head leaves the bag, the last item takes its place in the table.    *)
LEMMA PopMapped ==
    ASSUME QueueInv, QueueInv', NEW t \in Threads, Pop(t)
    PROVE  \E x \in Items : M!Take(t, x)
<1> DEFINE n == used - 1
           x == elttab[1]
           swapped == [k \in 1 .. used |-> IF k = 1 THEN elttab[used] ELSE IF k = used THEN elttab[1] ELSE elttab[k]]
<1>1. /\ used' = n /\ used >= 1 /\ used = n + 1 /\ n \in Nat /\ ret' = [ret EXCEPT ![t] = x] /\ lock = NoThread
      /\ elttab' = [elttab EXCEPT ![1] = elttab[used]] /\ x \in Items
  BY DEF Pop, QueueInv, QueueTypeOK
<1>2. Content = BagOf(elttab, n + 1)
  BY <1>1, ContentIs DEF QueueInv
<1>3. /\ \A k \in 1 .. used : k # 1 /\ k # used => swapped[k] = elttab[k]
      /\ swapped[1] = elttab[used] /\ swapped[used] = elttab[1]
      /\ \A k \in 1 .. n : swapped[k] = elttab'[k]
  BY <1>1 DEF QueueInv, QueueTypeOK
<1> HIDE DEF swapped
<1>4. BagOf(swapped, n + 1) = BagOf(elttab, n + 1)
  BY <1>1, <1>3, SwapBag
<1>5. Content' = BagOf(swapped, n)
  <2>1. Content' = BagOf(elttab', n)
    BY <1>1, NextContent
  <2>2. BagOf(swapped, n) = BagOf(elttab', n)
    <3>1. n \in Nat /\ \A k \in 1 .. n : swapped[k] = elttab'[k]
      BY <1>1, <1>3
    <3> HIDE DEF n
    <3> QED
      BY <3>1, SameBag
  <2> QED
    BY <2>1, <2>2
<1>6. Content' = M!BagRemove(Content, x)
  <2>1. swapped[n + 1] = x
    BY <1>1, <1>3
  <2>2. M!BagRemove(BagOf(swapped, n + 1), swapped[n + 1]) = BagOf(swapped, n)
    BY <1>1, LastOfBag
  <2> HIDE DEF n, x
  <2> QED
    BY <1>2, <1>4, <1>5, <2>1, <2>2
<1>7. M!BagToSet(Content) = {elttab[k] : k \in 1 .. used}
  BY <1>1, <1>2 DEF M!BagToSet, BagOf
<1>8. ASSUME NEW k \in 1 .. used PROVE ~ M!Precedes(elttab[k], x)
  <2>1. Below(x, elttab[k]) /\ elttab[k] \in Items
    BY <1>1, HeadIsMinimal DEF QueueInv, QueueTypeOK
  <2> QED
    BY <1>1, <2>1, Comparison DEF Below
<1>9. x \in M!BagToSet(Content) /\ \A y \in M!BagToSet(Content) : ~ M!Precedes(y, x)
  BY <1>1, <1>7, <1>8
<1> HIDE DEF x
<1> QED
  BY <1>1, <1>6, <1>9 DEF M!Take

LEMMA SiftMapped ==
    ASSUME QueueInv, QueueInv', NEW t \in Threads, Inside(t)
    PROVE  UNCHANGED <<Content, ret>>
<1> DEFINE i == idx[t]
<1>1. CASE PushReturns(t) \/ PopReturns(t)
  BY <1>1, ReturnKeeps, NextContent, ContentIs DEF QueueInv
<1>2. ASSUME NEW j \in 1 .. used, i \in 1 .. used, j # i, elttab' = Swap(elttab, i, j),
             UNCHANGED <<size, used, ret>>
      PROVE  UNCHANGED <<Content, ret>>
  <2>1. /\ elttab'[i] = elttab[j] /\ elttab'[j] = elttab[i]
        /\ \A k \in 1 .. used : k # i /\ k # j => elttab'[k] = elttab[k]
    BY <1>2, SwapTable DEF QueueInv, QueueTypeOK
  <2>2. BagOf(elttab', used) = BagOf(elttab, used)
    <3>1. used \in Nat
      BY DEF QueueInv, QueueTypeOK
    <3> HIDE DEF i
    <3> QED
      BY <1>2, <2>1, <3>1, SwapBag
  <2> QED
    BY <1>2, <2>2, NextContent, ContentIs DEF QueueInv
<1>3. CASE Up(t)
  <2>1. i \in 2 .. used /\ elttab' = Swap(elttab, i, i \div 2) /\ UNCHANGED <<size, used, ret>>
    BY <1>3 DEF Up, QueueInv, QueueTypeOK, UpOrder
  <2>2. i \div 2 \in 1 .. used /\ i \div 2 # i
    BY <2>1, Half DEF QueueInv, QueueTypeOK
  <2> QED
    BY <1>2, <2>1, <2>2
<1>4. CASE Down(t)
  <2>1. /\ i \in Nat /\ i >= 1 /\ i <= used \div 2
        /\ elttab' = Swap(elttab, i, Son(i)) /\ UNCHANGED <<size, used, ret>>
    BY <1>4 DEF Down, QueueInv, QueueTypeOK, DownOrder
  <2>2. Son(i) \in 1 .. used /\ Son(i) # i
    BY <2>1, SonIs DEF QueueInv
  <2>3. i \in 1 .. used
    BY <2>1, HalfOfSon DEF QueueInv, QueueTypeOK
  <2> QED
    BY <1>2, <2>1, <2>2, <2>3
<1> QED
  BY <1>1, <1>3, <1>4 DEF Inside

LEMMA NextMapped == QueueInv /\ QueueInv' /\ [Next]_vars => [M!QNext]_<<Content, ret>>
<1> SUFFICES ASSUME QueueInv, QueueInv', [Next]_vars PROVE M!QNext \/ UNCHANGED <<Content, ret>>
  OBVIOUS
<1>1. ASSUME NEW t \in Threads, NEW x \in Items, Push(t, x) PROVE M!QNext
  BY <1>1, PushMapped DEF M!QNext
<1>2. ASSUME NEW t \in Threads, Pop(t) PROVE M!QNext
  BY <1>2, PopMapped DEF M!QNext
<1>3. ASSUME NEW t \in Threads, PopEmpty(t) PROVE M!QNext
  <2>1. used = 0 /\ elttab' = elttab /\ used' = used /\ ret' = [ret EXCEPT ![t] = Empty]
    BY <1>3 DEF PopEmpty
  <2>2. Content = BagOf(elttab, 0) /\ Content' = BagOf(elttab, 0)
    BY <2>1, ContentIs, NextContent DEF QueueInv
  <2>3. {elttab[k] : k \in 1 .. 0} = {}
    OBVIOUS
  <2>4. Content = M!EmptyBag
    BY <2>2, <2>3 DEF BagOf, M!EmptyBag, M!SetToBag
  <2>5. M!TakeNothing(t)
    BY <2>1, <2>2, <2>4 DEF M!TakeNothing
  <2> QED
    BY <2>5 DEF M!QNext
<1>4. ASSUME NEW t \in Threads, Inside(t) PROVE UNCHANGED <<Content, ret>>
  BY <1>4, SiftMapped
<1>5. CASE UNCHANGED vars
  BY <1>5, ContentIs, NextContent DEF vars, QueueInv
<1> QED
  BY <1>1, <1>2, <1>3, <1>4, <1>5 DEF Next

(* The queue is a bag of items, from which a thread takes one that no      *)
(* other precedes, or gets nothing if and only if it is empty: no push     *)
(* loses an item when the table grows, no pop duplicates one.              *)
THEOREM QueueImplementsMinQueue == Spec => ImplementsMinQueue
<1> QED
  BY InitMapped, NextMapped, QueueInvariant, PTL DEF Spec, ImplementsMinQueue, M!QSpec

-----------------------------------------------------------------------------
(* The simulation.                                                         *)

(* The contributions to f of the column blocks that are not mapped yet.    *)
Left(f) == {x \in CtrbTo(f) : x[1] \notin Mapped}

SimuTypeOK ==
    /\ symb \in Symbols /\ candtab \in Candidates(symb)
    /\ phase \in {"start", "run", "done"}
    /\ ctrbcnt \in [Cblks -> Int]
    /\ queue \in [Cores -> SUBSET Cblks]
    /\ ownetab \in [Cblks -> Cores \cup {-1}]
    /\ tasktab \in [Cores -> Seq(Cblks)]
    /\ prionum \in [Cblks -> Int]
    /\ clustprio \in [Clusts -> Nat]
    /\ rank \in [Cblks -> Nat]

(* The counters: a task is queued on its candidates from its last          *)
(* contribution until it is mapped.                                        *)
Counts ==
    /\ phase = "start" => Mapped = {} /\ \A p \in Cores : queue[p] = {}
    /\ phase # "start" => \A f \in Cblks : ctrbcnt[f] = Cardinality(Left(f))
    /\ \A p \in Cores : \A c \in queue[p] : c \notin Mapped /\ ctrbcnt[c] = 0
    /\ phase # "start" =>
          \A c \in Cblks \ Mapped : ctrbcnt[c] = 0 =>
              \A p \in Cores : IsCand(p, c) => c \in queue[p]
    /\ phase = "done" => \A p \in Cores : queue[p] = {}
    /\ \A p \in Cores : \A c \in queue[p] : IsCand(p, c)

(* The order: rank and prionum grow together.                              *)
Ranks ==
    /\ \A c \in Mapped :
          /\ IsCand(ownetab[c], c)
          /\ rank[c] < Cardinality(Mapped)
          /\ prionum[c] < clustprio[Core2Clust(ownetab[c])]
    /\ \A c, d \in Mapped :
          Core2Clust(ownetab[c]) = Core2Clust(ownetab[d]) /\ prionum[c] < prionum[d]
              => rank[c] < rank[d]
    /\ \A d \in Mapped : \A c \in Cblks :
          d \in symb[c] => c \in Mapped /\ rank[c] < rank[d]

(* The lists hold what is mapped, in the order of rank.                    *)
Lists ==
    \A p \in Cores :
        /\ \A i \in 1 .. Len(tasktab[p]) :
              /\ tasktab[p][i] \in Mapped /\ ownetab[tasktab[p][i]] = p
              /\ \A j \in 1 .. Len(tasktab[p]) :
                    i < j => rank[tasktab[p][i]] < rank[tasktab[p][j]]
        /\ \A c \in Mapped : ownetab[c] = p => \E i \in 1 .. Len(tasktab[p]) : tasktab[p][i] = c

SimuInv == SimuTypeOK /\ Counts /\ Ranks /\ Lists

-----------------------------------------------------------------------------
(* The cluster of a core is a process.                                     *)
LEMMA CoreIsInClust ==
    ASSUME NEW p \in Cores
    PROVE  Core2Clust(p) \in Clusts
<1>1. PICK n \in 1 .. CoreNbr : CoreNbr = n * ClustNbr
  BY SizeAssumption
<1>2. n \in Nat \ {0} /\ ClustNbr \in Nat \ {0} /\ CoreNbr \in Nat
  BY SizeAssumption
<1>3. CoreNbr \div ClustNbr = n
  BY <1>1, <1>2, SMTT(30)
<1>4. p \in Nat /\ p < n * ClustNbr
  BY <1>1, <1>2 DEF Cores
<1>5. p \div n \in Nat
  BY <1>2, <1>4
<1>6. n * (p \div n) <= p
  BY <1>2, <1>4
<1>7. p \div n < ClustNbr
  <2>1. SUFFICES ASSUME p \div n >= ClustNbr PROVE FALSE
    BY <1>2, <1>5
  <2>2. n * (p \div n) >= n * ClustNbr
    BY <2>1, <1>2, <1>5, SMTT(30)
  <2> QED BY <2>2, <1>2, <1>4, <1>5, <1>6, SMTT(30)
<1> QED BY <1>2, <1>3, <1>5, <1>7 DEF Core2Clust, Clusts

(* There are finitely many contributions and column blocks.                *)
LEMMA CtrbFinite ==
    ASSUME symb \in Symbols, NEW f \in Cblks
    PROVE  /\ CtrbTo(f) \subseteq Cblks \X Cblks
           /\ IsFiniteSet(CtrbTo(f)) /\ IsFiniteSet(Left(f))
<1>1. CblkNbr \in Nat
  BY SizeAssumption
<1>2. IsFiniteSet(Cblks)
  BY <1>1, FS_Interval DEF Cblks
<1>3. IsFiniteSet(Cblks \X Cblks)
  BY <1>2, FS_Product
<1>4. CtrbTo(f) \subseteq Cblks \X Cblks
  BY SymbolAssumption DEF CtrbTo, Contributions
<1>5. IsFiniteSet(CtrbTo(f))
  BY <1>3, <1>4, FS_Subset
<1> QED BY <1>4, <1>5, FS_Subset DEF Left

(* There are finitely many mapped column blocks.                           *)
LEMMA MappedFinite == IsFiniteSet(Mapped)
<1>1. IsFiniteSet(Cblks)
  BY SizeAssumption, FS_Interval DEF Cblks
<1> QED BY <1>1, FS_Subset DEF Mapped

(* A set of column blocks that is not empty has a smallest element.        *)
LEMMA SmallestCblk ==
    ASSUME NEW S \in SUBSET Cblks, S # {}
    PROVE  \E c \in S : \A d \in S : ~ (d < c)
<1>1. S \subseteq Nat
  BY SizeAssumption DEF Cblks
<1> DEFINE R == {ss \in Nat \X Nat : ss[1] < ss[2]}
<1>2. IsWellFoundedOn(R, Nat)
  BY NatLessThanWellFounded, Zenon DEF OpToRel
<1> HIDE DEF R
<1>3. \E c \in S : \A d \in S : ~ (<<d, c>> \in R)
  BY <1>1, <1>2, WFMin
<1> QED BY <1>1, <1>3 DEF R

(* A counter is zero when all that contributes is mapped, and only then.   *)
LEMMA NoneLeft ==
    ASSUME symb \in Symbols, NEW f \in Cblks, Cardinality(Left(f)) = 0, NEW c \in Cblks, f \in symb[c]
    PROVE  c \in Mapped
<1>1. Left(f) = {}
  BY CtrbFinite, FS_EmptySet
<1>2. <<c, f>> \in Contributions(c, f)
  BY SymbolAssumption, SizeAssumption DEF Contributions, Cblks
<1>3. <<c, f>> \in CtrbTo(f)
  BY <1>2 DEF CtrbTo
<1> QED BY <1>1, <1>3 DEF Left

-----------------------------------------------------------------------------
LEMMA SimuInitInv == SimuInit => SimuInv
<1> SUFFICES ASSUME SimuInit PROVE SimuInv
  OBVIOUS
<1>1. Mapped = {}
  BY DEF SimuInit, Mapped
<1>2. SimuTypeOK
  BY DEF SimuInit, SimuTypeOK
<1>3. Counts
  BY <1>1 DEF SimuInit, Counts
<1>4. Ranks
  BY <1>1 DEF Ranks
<1>5. Lists
  BY <1>1 DEF SimuInit, Lists
<1> QED BY <1>2, <1>3, <1>4, <1>5 DEF SimuInv

LEMMA SimuStart == SimuInv /\ Start => SimuInv'
<1> SUFFICES ASSUME SimuInv, Start PROVE SimuInv'
  OBVIOUS
<1>1. Mapped' = Mapped /\ Mapped = {}
  BY DEF SimuInv, Counts, Start, Mapped
<1>2. \A f \in Cblks : BlockCtrbNbr[f] = Cardinality(CtrbTo(f)) /\ BlockCtrbNbr[f] \in Int
  <2>1. \A f \in Cblks : IsFiniteSet(CtrbTo(f))
    BY CtrbFinite DEF SimuInv, SimuTypeOK
  <2>2. \A f \in Cblks : Cardinality(CtrbTo(f)) \in Int
    BY <2>1, FS_CardinalityType
  <2> QED BY <2>2 DEF BlockCtrbNbr
<1>3. \A f \in Cblks : CtrbTo(f)' = CtrbTo(f) /\ Left(f)' = CtrbTo(f)
  BY <1>1 DEF Start, CtrbTo, Contributions, Left
<1>4. BlockCtrbNbr \in [Cblks -> Int]
  BY <1>2 DEF BlockCtrbNbr
<1>5. SimuTypeOK'
  BY <1>4 DEF SimuInv, SimuTypeOK, Start, PutInReadyQueues
<1>6. Counts'
  BY <1>1, <1>2, <1>3 DEF SimuInv, SimuTypeOK, Counts, Start, PutInReadyQueues, IsCand
<1>7. Ranks' /\ Lists'
  BY <1>1 DEF SimuInv, Ranks, Lists, Start
<1> QED BY <1>5, <1>6, <1>7 DEF SimuInv

LEMMA SimuStop == SimuInv /\ Stop => SimuInv'
<1> SUFFICES ASSUME SimuInv, Stop PROVE SimuInv'
  OBVIOUS
<1>1. Mapped' = Mapped
  BY DEF Stop, Mapped
<1>2. \A f \in Cblks : Left(f)' = Left(f)
  BY <1>1 DEF Stop, Left, CtrbTo, Contributions
<1>3. SimuTypeOK'
  BY DEF SimuInv, SimuTypeOK, Stop
<1>4. Counts'
  BY <1>1, <1>2 DEF SimuInv, Counts, Stop, IsCand
<1>5. Ranks' /\ Lists'
  BY <1>1 DEF SimuInv, Ranks, Lists, Stop, IsCand
<1> QED BY <1>3, <1>4, <1>5 DEF SimuInv

-----------------------------------------------------------------------------
(* What the step that maps c to p does to the parts of the invariant.      *)
LEMMA MapMapped ==
    ASSUME SimuInv, NEW p \in Cores, NEW c \in Cblks, MapTask(p, c)
    PROVE  /\ c \notin Mapped /\ ctrbcnt[c] = 0 /\ IsCand(p, c)
           /\ Mapped' = Mapped \cup {c}
           /\ Cardinality(Mapped) \in Nat
           /\ Cardinality(Mapped') = Cardinality(Mapped) + 1
           /\ \A d \in Cblks : c \in symb[d] => d \in Mapped
<1>1. c \notin Mapped /\ ctrbcnt[c] = 0 /\ IsCand(p, c)
  BY DEF SimuInv, Counts, MapTask
<1>2. Mapped' = Mapped \cup {c}
  BY SizeAssumption DEF SimuInv, SimuTypeOK, MapTask, Mapped, Cores
<1>3. Cardinality(Mapped) \in Nat /\ Cardinality(Mapped') = Cardinality(Mapped) + 1
  BY <1>1, <1>2, MappedFinite, FS_CardinalityType, FS_AddElement
<1>4. symb \in Symbols /\ Cardinality(Left(c)) = 0
  BY <1>1 DEF SimuInv, SimuTypeOK, Counts, MapTask
<1>5. \A d \in Cblks : c \in symb[d] => d \in Mapped
  BY <1>4, NoneLeft
<1> QED BY <1>1, <1>2, <1>3, <1>5

(* The counters still count what is left.                                  *)
LEMMA MapLeft ==
    ASSUME SimuInv, NEW p \in Cores, NEW c \in Cblks, MapTask(p, c), NEW f \in Cblks
    PROVE  /\ ctrbcnt'[f] = ctrbcnt[f] - Cardinality(Contributions(c, f))
           /\ ctrbcnt'[f] = Cardinality(Left(f)')
           /\ ctrbcnt'[f] \in Int
           /\ f \notin symb[c] => ctrbcnt'[f] = ctrbcnt[f]
<1>1. symb \in Symbols /\ symb' = symb /\ ctrbcnt[f] = Cardinality(Left(f)) /\ c \notin Mapped
  BY MapMapped DEF SimuInv, SimuTypeOK, Counts, MapTask
<1>2. Left(f)' = Left(f) \ Contributions(c, f)
  <2>1. CtrbTo(f)' = CtrbTo(f) /\ Mapped' = Mapped \cup {c}
    BY <1>1, MapMapped DEF CtrbTo, Contributions
  <2>2. \A x \in CtrbTo(f) : x[1] = c <=> x \in Contributions(c, f)
    BY DEF CtrbTo, Contributions
  <2> QED BY <2>1, <2>2 DEF Left
<1>3. Contributions(c, f) \subseteq Left(f)
  BY <1>1 DEF Left, CtrbTo, Contributions
<1>4. IsFiniteSet(Left(f))
  BY <1>1, CtrbFinite
<1>5. IsFiniteSet(Contributions(c, f))
  BY <1>3, <1>4, FS_Subset
<1>6. Cardinality(Left(f) \ Contributions(c, f)) = Cardinality(Left(f)) - Cardinality(Left(f) \cap Contributions(c, f))
  BY <1>4, <1>5, FS_Difference
<1>7. Left(f) \cap Contributions(c, f) = Contributions(c, f)
  BY <1>3
<1>8. ctrbcnt'[f] = ctrbcnt[f] - Cardinality(Contributions(c, f))
  BY DEF MapTask, ComputeTask
<1>9. Cardinality(Left(f)) \in Int /\ Cardinality(Contributions(c, f)) \in Int
  BY <1>4, <1>5, FS_CardinalityType
<1>10. f \notin symb[c] => Cardinality(Contributions(c, f)) = 0
  <2>1. f \notin symb[c] => Contributions(c, f) = {}
    BY DEF Contributions
  <2> QED BY <2>1, FS_EmptySet
<1>11. Cardinality(Left(f)') = Cardinality(Left(f)) - Cardinality(Contributions(c, f))
  BY <1>2, <1>6, <1>7, Zenon
<1>12. ctrbcnt'[f] = Cardinality(Left(f)')
  BY <1>1, <1>8, <1>11, Zenon
<1>13. ctrbcnt'[f] \in Int /\ (f \notin symb[c] => ctrbcnt'[f] = ctrbcnt[f])
  BY <1>1, <1>8, <1>9, <1>10
<1> QED BY <1>8, <1>12, <1>13

LEMMA MapCounts ==
    ASSUME SimuInv, NEW p \in Cores, NEW c \in Cblks, MapTask(p, c)
    PROVE  Counts'
<1> DEFINE ready == MadeReady(ctrbcnt', c)
<1>1. /\ c \notin Mapped /\ Mapped' = Mapped \cup {c} /\ phase = "run" /\ phase' = "run"
      /\ candtab' = candtab /\ symb' = symb
  BY MapMapped DEF MapTask
<1>2. queue' = [q \in Cores |-> (queue[q] \ {c}) \cup {f \in ready : IsCand(q, f)}]
  <2>1. ctrbcnt' = [f \in Cblks |-> ctrbcnt[f] - Cardinality(Contributions(c, f))]
    BY DEF MapTask, ComputeTask
  <2> QED BY <2>1 DEF MapTask, ComputeTask, PutInReadyQueues
<1>3. \A f \in ready : f \in Cblks /\ f \in symb[c] /\ ctrbcnt'[f] = 0 /\ f # c /\ f \notin Mapped
  <2>1. \A f \in symb[c] : f \in Cblks /\ c < f
    BY SymbolAssumption DEF SimuInv, SimuTypeOK
  <2>2. \A f \in symb[c] : f \notin Mapped
    BY <1>1, <2>1 DEF SimuInv, Ranks
  <2> QED BY <2>1, <2>2, SizeAssumption DEF MadeReady, Cblks
<1>4. \A q \in Cores : \A d \in queue[q] : d \in Cblks /\ d \notin Mapped /\ ctrbcnt[d] = 0 /\ IsCand(q, d)
  BY DEF SimuInv, SimuTypeOK, Counts
<1>5. \A f \in Cblks : ctrbcnt'[f] = Cardinality(Left(f)')
  BY MapLeft
<1>6. ASSUME NEW q \in Cores, NEW d \in queue'[q]
      PROVE  d \notin Mapped' /\ ctrbcnt'[d] = 0 /\ IsCand(q, d)'
  <2>1. CASE d \in ready
    BY <2>1, <1>1, <1>2, <1>3, <1>4, <1>6 DEF IsCand
  <2>2. CASE d \in queue[q] /\ d # c
    <3>1. d \in Cblks /\ d \notin Mapped /\ ctrbcnt[d] = 0 /\ IsCand(q, d)
      BY <2>2, <1>4
    <3>2. d \notin symb[c]
      <4>1. SUFFICES ASSUME d \in symb[c] PROVE FALSE
        OBVIOUS
      <4>2. symb \in Symbols /\ Cardinality(Left(d)) = 0
        BY <3>1, <1>1 DEF SimuInv, SimuTypeOK, Counts
      <4> QED BY <4>1, <4>2, <3>1, <1>1, NoneLeft
    <3> QED BY <3>1, <3>2, <2>2, <1>1, MapLeft DEF IsCand
  <2> QED BY <2>1, <2>2, <1>2, <1>6
<1>7. ASSUME NEW d \in Cblks, d \notin Mapped', ctrbcnt'[d] = 0, NEW q \in Cores, IsCand(q, d)'
      PROVE  d \in queue'[q]
  <2>1. IsCand(q, d) /\ d # c /\ d \notin Mapped
    BY <1>7, <1>1 DEF IsCand
  <2>2. CASE d \in symb[c]
    BY <2>1, <2>2, <1>2, <1>7 DEF MadeReady
  <2>3. CASE d \notin symb[c]
    <3>1. ctrbcnt[d] = 0
      BY <2>3, <1>7, MapLeft
    <3>2. d \in queue[q]
      BY <3>1, <2>1, <1>1 DEF SimuInv, Counts
    <3> QED BY <3>2, <2>1, <1>2
  <2> QED BY <2>2, <2>3
<1> QED BY <1>1, <1>5, <1>6, <1>7 DEF Counts

LEMMA MapType ==
    ASSUME SimuInv, NEW p \in Cores, NEW c \in Cblks, MapTask(p, c)
    PROVE  SimuTypeOK'
<1>1. Core2Clust(p) \in Clusts
  BY CoreIsInClust
<1>2. ctrbcnt' \in [Cblks -> Int]
  <2>1. ctrbcnt' = [f \in Cblks |-> ctrbcnt[f] - Cardinality(Contributions(c, f))]
    BY DEF MapTask, ComputeTask
  <2>2. \A f \in Cblks : ctrbcnt'[f] \in Int
    BY MapLeft
  <2> QED BY <2>1, <2>2
<1>3. queue' \in [Cores -> SUBSET Cblks]
  <2>1. \A q : q \subseteq symb[c] => q \subseteq Cblks
    BY SymbolAssumption DEF SimuInv, SimuTypeOK
  <2> QED BY <2>1 DEF SimuInv, SimuTypeOK, MapTask, ComputeTask, PutInReadyQueues, MadeReady
<1>4. rank' \in [Cblks -> Nat]
  BY MapMapped DEF SimuInv, SimuTypeOK, MapTask
<1>5. tasktab' \in [Cores -> Seq(Cblks)]
  BY DEF SimuInv, SimuTypeOK, MapTask
<1>6. /\ ownetab' \in [Cblks -> Cores \cup {-1}] /\ prionum' \in [Cblks -> Int]
      /\ clustprio' \in [Clusts -> Nat]
  BY <1>1 DEF SimuInv, SimuTypeOK, MapTask
<1> QED BY <1>2, <1>3, <1>4, <1>5, <1>6 DEF SimuInv, SimuTypeOK, MapTask

(* The new column block has the largest rank, and priority in its process. *)
LEMMA MapRanks ==
    ASSUME SimuInv, NEW p \in Cores, NEW c \in Cblks, MapTask(p, c)
    PROVE  Ranks'
<1> DEFINE k == Core2Clust(p)
<1> DEFINE K(d) == Core2Clust(ownetab[d])
<1>1. /\ c \notin Mapped /\ Mapped' = Mapped \cup {c} /\ Cardinality(Mapped) \in Nat
      /\ Cardinality(Mapped') = Cardinality(Mapped) + 1 /\ IsCand(p, c)
      /\ \A d \in Cblks : c \in symb[d] => d \in Mapped
  BY MapMapped
<1>2. candtab' = candtab /\ symb' = symb
  BY DEF MapTask
<1>3. /\ ownetab'[c] = p /\ rank'[c] = Cardinality(Mapped) /\ prionum'[c] = clustprio[k]
      /\ clustprio'[k] = clustprio[k] + 1 /\ clustprio[k] \in Nat
  BY CoreIsInClust DEF SimuInv, SimuTypeOK, MapTask
<1>4. ASSUME NEW d \in Mapped
      PROVE  /\ d # c /\ d \in Cblks /\ ownetab'[d] = ownetab[d] /\ rank'[d] = rank[d]
             /\ prionum'[d] = prionum[d] /\ rank[d] \in Nat /\ prionum[d] \in Int
             /\ ownetab[d] \in Cores /\ K(d) \in Clusts
             /\ clustprio'[K(d)] >= clustprio[K(d)] /\ clustprio'[K(d)] \in Nat
             /\ clustprio[K(d)] \in Nat
  <2>1. d # c /\ d \in Cblks /\ ownetab[d] \in Cores
    BY <1>1 DEF Mapped, SimuInv, SimuTypeOK
  <2>2. K(d) \in Clusts
    BY <2>1, CoreIsInClust
  <2>3. /\ ownetab'[d] = ownetab[d] /\ rank'[d] = rank[d] /\ prionum'[d] = prionum[d]
        /\ rank[d] \in Nat /\ prionum[d] \in Int
    BY <2>1 DEF SimuInv, SimuTypeOK, MapTask
  <2>4. /\ clustprio'[K(d)] >= clustprio[K(d)] /\ clustprio'[K(d)] \in Nat
        /\ clustprio[K(d)] \in Nat
    BY <2>2 DEF SimuInv, SimuTypeOK, MapTask
  <2> QED BY <2>1, <2>2, <2>3, <2>4
<1>5. \A d \in Mapped : /\ IsCand(ownetab[d], d) /\ rank[d] < Cardinality(Mapped)
                        /\ prionum[d] < clustprio[K(d)]
  BY DEF SimuInv, Ranks
<1> HIDE DEF K
<1>6. ASSUME NEW d \in Mapped'
      PROVE  /\ IsCand(ownetab[d], d)' /\ rank'[d] < Cardinality(Mapped')
             /\ prionum'[d] < clustprio'[Core2Clust(ownetab'[d])]
  <2>1. CASE d = c
    BY <2>1, <1>1, <1>2, <1>3 DEF IsCand
  <2>2. CASE d \in Mapped
    <3>1. Core2Clust(ownetab'[d]) = K(d)
      BY <2>2, <1>4 DEF K
    <3>2. prionum'[d] < clustprio'[K(d)]
      BY <2>2, <1>4, <1>5
    <3>3. rank'[d] < Cardinality(Mapped')
      BY <2>2, <1>1, <1>4, <1>5
    <3>4. IsCand(ownetab[d], d)'
      BY <2>2, <1>2, <1>4, <1>5 DEF IsCand
    <3> QED BY <3>1, <3>2, <3>3, <3>4
  <2> QED BY <2>1, <2>2, <1>1, <1>6
<1>7. ASSUME NEW d \in Mapped', NEW e \in Mapped',
             Core2Clust(ownetab'[d]) = Core2Clust(ownetab'[e]), prionum'[d] < prionum'[e]
      PROVE  rank'[d] < rank'[e]
  <2>1. CASE d \in Mapped /\ e \in Mapped
    BY <2>1, <1>4, <1>7 DEF SimuInv, Ranks
  <2>2. CASE d \in Mapped /\ e = c
    BY <2>2, <1>1, <1>3, <1>4, <1>5
  <2>3. CASE d = c /\ e \in Mapped
    <3>1. K(e) = k
      BY <2>3, <1>3, <1>4, <1>7 DEF K
    <3>2. prionum[e] < clustprio[k] /\ clustprio[k] < prionum[e]
      BY <3>1, <2>3, <1>3, <1>4, <1>5, <1>7
    <3> QED BY <3>2, <2>3, <1>3, <1>4
  <2>4. CASE d = c /\ e = c
    BY <2>4, <1>3, <1>7
  <2> QED BY <2>1, <2>2, <2>3, <2>4, <1>1, <1>7
<1>8. ASSUME NEW d \in Mapped', NEW e \in Cblks, d \in symb'[e]
      PROVE  e \in Mapped' /\ rank'[e] < rank'[d]
  <2>1. CASE d = c
    BY <2>1, <1>1, <1>2, <1>3, <1>4, <1>5, <1>8
  <2>2. CASE d \in Mapped
    <3>1. e \in Mapped /\ rank[e] < rank[d]
      BY <2>2, <1>2, <1>8 DEF SimuInv, Ranks
    <3> QED BY <3>1, <2>2, <1>1, <1>4
  <2> QED BY <2>1, <2>2, <1>1
<1> QED BY <1>6, <1>7, <1>8 DEF Ranks

(* c is added at the end of the list of p.                                 *)
LEMMA MapLists ==
    ASSUME SimuInv, NEW p \in Cores, NEW c \in Cblks, MapTask(p, c)
    PROVE  Lists'
<1> DEFINE n == Len(tasktab[p])
<1>1. c \notin Mapped /\ Mapped' = Mapped \cup {c}
  BY MapMapped
<1>2. ownetab'[c] = p /\ rank'[c] = Cardinality(Mapped)
  BY DEF SimuInv, SimuTypeOK, MapTask
<1>3. \A d \in Mapped : /\ d # c /\ ownetab'[d] = ownetab[d] /\ rank'[d] = rank[d]
                        /\ rank[d] < Cardinality(Mapped)
  BY <1>1 DEF Mapped, SimuInv, SimuTypeOK, Ranks, MapTask
<1>4. \A q \in Cores : q # p => tasktab'[q] = tasktab[q]
  BY DEF SimuInv, SimuTypeOK, MapTask
<1>5. /\ n \in Nat /\ Len(tasktab'[p]) = n + 1 /\ tasktab'[p][n + 1] = c
      /\ \A i \in 1 .. n : tasktab'[p][i] = tasktab[p][i]
  BY DEF SimuInv, SimuTypeOK, MapTask
<1>6. ASSUME NEW q \in Cores
      PROVE  /\ \A i \in 1 .. Len(tasktab[q]) :
                   /\ tasktab[q][i] \in Mapped /\ ownetab[tasktab[q][i]] = q
                   /\ \A j \in 1 .. Len(tasktab[q]) :
                         i < j => rank[tasktab[q][i]] < rank[tasktab[q][j]]
             /\ \A d \in Mapped : ownetab[d] = q => \E i \in 1 .. Len(tasktab[q]) : tasktab[q][i] = d
  BY DEF SimuInv, Lists
<1> HIDE DEF n
<1>7. ASSUME NEW q \in Cores, q # p
      PROVE  /\ \A i \in 1 .. Len(tasktab'[q]) :
                   /\ tasktab'[q][i] \in Mapped' /\ ownetab'[tasktab'[q][i]] = q
                   /\ \A j \in 1 .. Len(tasktab'[q]) :
                         i < j => rank'[tasktab'[q][i]] < rank'[tasktab'[q][j]]
             /\ \A d \in Mapped' : ownetab'[d] = q => \E i \in 1 .. Len(tasktab'[q]) : tasktab'[q][i] = d
  BY <1>1, <1>2, <1>3, <1>4, <1>6, <1>7
<1>8. ASSUME NEW i \in 1 .. n + 1
      PROVE  /\ tasktab'[p][i] \in Mapped' /\ ownetab'[tasktab'[p][i]] = p
             /\ \A j \in 1 .. n + 1 : i < j => rank'[tasktab'[p][i]] < rank'[tasktab'[p][j]]
  <2>1. CASE i = n + 1
    BY <2>1, <1>1, <1>2, <1>5
  <2>2. CASE i \in 1 .. n
    <3>1. /\ tasktab'[p][i] = tasktab[p][i] /\ tasktab[p][i] \in Mapped /\ ownetab[tasktab[p][i]] = p
          /\ \A j \in 1 .. n : i < j => rank[tasktab[p][i]] < rank[tasktab[p][j]]
      BY <2>2, <1>5, <1>6 DEF n
    <3>2. \A j \in 1 .. n : tasktab'[p][j] = tasktab[p][j] /\ tasktab[p][j] \in Mapped
      BY <1>5, <1>6 DEF n
    <3>3. ASSUME NEW j \in 1 .. n + 1, i < j
          PROVE  rank'[tasktab'[p][i]] < rank'[tasktab'[p][j]]
      <4>1. CASE j = n + 1
        BY <4>1, <3>1, <1>2, <1>3, <1>5
      <4>2. CASE j \in 1 .. n
        BY <4>2, <3>1, <3>2, <3>3, <1>3
      <4> QED BY <4>1, <4>2, <1>5
    <3> QED BY <3>1, <3>3, <1>1, <1>3
  <2> QED BY <2>1, <2>2, <1>5
<1>9. ASSUME NEW d \in Mapped', ownetab'[d] = p
      PROVE  \E i \in 1 .. n + 1 : tasktab'[p][i] = d
  <2>1. CASE d = c
    BY <2>1, <1>5
  <2>2. CASE d \in Mapped
    <3>1. PICK i \in 1 .. n : tasktab[p][i] = d
      BY <2>2, <1>3, <1>6, <1>9 DEF n
    <3> QED BY <3>1, <1>5
  <2> QED BY <2>1, <2>2, <1>1
<1> QED BY <1>5, <1>7, <1>8, <1>9 DEF Lists

-----------------------------------------------------------------------------
(* The invariant holds in every state of the simulation.                   *)
THEOREM SimuInvariant == SimuSpec => []SimuInv
<1>1. SimuInv /\ [SimuNext]_simuVars => SimuInv'
  <2> SUFFICES ASSUME SimuInv, [SimuNext]_simuVars PROVE SimuInv'
    OBVIOUS
  <2>1. CASE Start
    BY <2>1, SimuStart
  <2>2. ASSUME NEW p \in Cores, NEW c \in Cblks, MapTask(p, c)
        PROVE  SimuInv'
    BY <2>2, MapType, MapCounts, MapRanks, MapLists DEF SimuInv
  <2>3. CASE Stop
    BY <2>3, SimuStop
  <2>4. CASE UNCHANGED simuVars
    <3>1. Mapped' = Mapped /\ \A f : Left(f)' = Left(f)
      BY <2>4 DEF simuVars, Mapped, Left, CtrbTo, Contributions
    <3>2. SimuTypeOK' /\ Counts'
      BY <2>4, <3>1 DEF simuVars, SimuInv, SimuTypeOK, Counts, IsCand
    <3>3. Ranks' /\ Lists'
      BY <2>4, <3>1 DEF simuVars, SimuInv, Ranks, Lists, IsCand
    <3> QED BY <3>2, <3>3 DEF SimuInv
  <2>5. CASE Returned
    BY <2>4, <2>5 DEF Returned
  <2> QED BY <2>1, <2>2, <2>3, <2>4, <2>5 DEF SimuNext
<1> QED BY SimuInitInv, <1>1, PTL DEF SimuSpec

(* The lists of all the cores, the priorities and the contributions agree  *)
(* with one order: the static scheduler never waits in a circle            *)
(* (simuRun, solvMatGen_fill_ttsktab).                                     *)
THEOREM SimuOneOrder == SimuSpec => []OneOrder
<1>1. SimuInv => OneOrder
  <2> SUFFICES ASSUME SimuInv PROVE OneOrder
    OBVIOUS
  <2>1. \A c, d \in Mapped : d \in symb[c] => rank[c] < rank[d]
    BY DEF SimuInv, Ranks, Mapped
  <2>2. \A c, d \in Mapped :
           Core2Clust(ownetab[c]) = Core2Clust(ownetab[d]) /\ prionum[c] < prionum[d]
              => rank[c] < rank[d]
    BY DEF SimuInv, Ranks
  <2>3. \A c, d \in Mapped : \A p \in Cores : \A i, j \in 1 .. Len(tasktab[p]) :
           tasktab[p][i] = c /\ tasktab[p][j] = d /\ i < j => rank[c] < rank[d]
    BY DEF SimuInv, Lists
  <2> QED BY <2>1, <2>2, <2>3 DEF OneOrder
<1> QED BY SimuInvariant, <1>1, PTL

(* When the simulation stops nothing is left out: the smallest column      *)
(* block left would wait for nothing, and be queued (the end of simuRun).  *)
LEMMA NothingLeft ==
    ASSUME SimuInv, phase = "done"
    PROVE  Mapped = Cblks
<1>1. SUFFICES ASSUME Cblks \ Mapped # {} PROVE FALSE
  BY DEF Mapped
<1>2. PICK c \in Cblks \ Mapped : \A d \in Cblks \ Mapped : ~ (d < c)
  BY <1>1, SmallestCblk
<1>3. symb \in Symbols /\ candtab \in Candidates(symb)
  BY DEF SimuInv, SimuTypeOK
<1>4. Left(c) = {}
  <2>1. \A d \in Cblks : c \in symb[d] => d < c
    BY <1>3, SymbolAssumption
  <2>2. \A x \in CtrbTo(c) : x[1] \in Cblks /\ c \in symb[x[1]]
    BY DEF CtrbTo, Contributions
  <2> QED BY <2>1, <2>2, <1>2 DEF Left
<1>5. ctrbcnt[c] = 0
  BY <1>4, FS_EmptySet DEF SimuInv, Counts
<1>6. candtab[c][1] \in Cores /\ IsCand(candtab[c][1], c)
  <2>1. candtab \in [Cblks -> Cores \X Cores] /\ candtab[c][1] <= candtab[c][2]
    BY <1>3, CandidatesAssumption
  <2> QED BY <2>1, SizeAssumption DEF IsCand, Cores
<1> QED BY <1>5, <1>6 DEF SimuInv, Counts

(* Every column block is mapped after what contributes to it, and in the   *)
(* end is in exactly one list, of one of its candidates (simuRun).         *)
THEOREM SimuAllMapped == SimuSpec => []AllMapped
<1>1. SimuInv => AllMapped
  <2> SUFFICES ASSUME SimuInv PROVE AllMapped
    OBVIOUS
  <2>1. \A d \in Mapped : \A c \in Cblks : d \in symb[c] => c \in Mapped
    BY DEF SimuInv, Ranks
  <2>2. ASSUME phase = "done", NEW c \in Cblks
        PROVE  /\ IsCand(ownetab[c], c)
               /\ \A p \in Cores : \A i \in 1 .. Len(tasktab[p]) :
                     tasktab[p][i] = c =>
                         /\ p = ownetab[c]
                         /\ \A j \in 1 .. Len(tasktab[p]) : tasktab[p][j] = c => i = j
               /\ \E i \in 1 .. Len(tasktab[ownetab[c]]) : tasktab[ownetab[c]][i] = c
    <3>1. c \in Mapped /\ ownetab[c] \in Cores /\ rank[c] \in Nat
      BY <2>2, NothingLeft DEF Mapped, SimuInv, SimuTypeOK
    <3>2. IsCand(ownetab[c], c)
      BY <3>1 DEF SimuInv, Ranks
    <3>3. \A p \in Cores : \A i, j \in 1 .. Len(tasktab[p]) :
             tasktab[p][i] = c /\ tasktab[p][j] = c => p = ownetab[c] /\ ~ (i < j)
      BY <3>1 DEF SimuInv, Lists
    <3>4. \E i \in 1 .. Len(tasktab[ownetab[c]]) : tasktab[ownetab[c]][i] = c
      BY <3>1 DEF SimuInv, Lists
    <3>5. \A p \in Cores : Len(tasktab[p]) \in Nat
      BY DEF SimuInv, SimuTypeOK
    <3>6. ASSUME NEW p \in Cores, NEW i \in 1 .. Len(tasktab[p]), tasktab[p][i] = c
          PROVE  /\ p = ownetab[c]
                 /\ \A j \in 1 .. Len(tasktab[p]) : tasktab[p][j] = c => i = j
      BY <3>3, <3>5, <3>6
    <3> QED BY <3>2, <3>4, <3>6
  <2> QED BY <2>1, <2>2, NothingLeft DEF AllMapped
<1> QED BY SimuInvariant, <1>1, PTL
=============================================================================
