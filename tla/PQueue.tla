------------------------------- MODULE PQueue -------------------------------
(***************************************************************************)
(* The priority queue of kernels/queue.c: a binary heap in a table that    *)
(* grows, under a spin lock.  Every thread of the dynamic schedulers has   *)
(* one, which the others steal from and push to.                           *)
(*                                                                         *)
(* elttab is indexed from 1: elttab[k] is q->elttab[k-1].  It keeps what   *)
(* the table holds beyond used.  Atomic steps: the entry into the section  *)
(* under the lock, one iteration of its loop, its exit.                    *)
(***************************************************************************)
EXTENDS Integers, Sequences, SequencesExt

CONSTANTS
    Threads,
    Items,      \* records with the fields key1, key2 and eltptr
    Empty,      \* -1
    NoItem,     \* memory that was not written yet
    NoThread,   \* the lock is free
    InitSize,   \* the size given to pqueueInit
    MaxPush     \* bound: how many items are pushed

ASSUME PQueueAssumption ==
    /\ InitSize \in Nat /\ MaxPush \in Nat
    /\ NoThread \notin Threads /\ Empty \notin Items /\ NoItem \notin Items
    /\ \A x \in Items : x.key1 \in Int /\ x.key2 \in Int

VARIABLES
    size,       \* q->size
    used,       \* q->used
    elttab,     \* q->elttab
    lock,       \* q->lock
    pc,         \* what each thread does in the queue
    idx,        \* i of pqueuePush2 and of pqueuePop2
    ret,        \* what pqueuePop2 last returned to each thread
    pushed      \* bound: how many items were pushed

vars == <<size, used, elttab, lock, pc, idx, ret, pushed>>

(* pqueueItemComparison                                                    *)
ItemComparison(x, y) ==
    IF x.key1 = y.key1 THEN x.key2 < y.key2 ELSE x.key1 < y.key1

Swap(s, i, j) == [s EXCEPT ![i] = s[j], ![j] = s[i]]

Free(t) == lock' = NoThread /\ pc' = [pc EXCEPT ![t] = "out"]
Goto(t, label, i) == pc' = [pc EXCEPT ![t] = label] /\ idx' = [idx EXCEPT ![t] = i]

Init ==
    /\ size   = InitSize
    /\ used   = 0
    /\ elttab = [k \in 1 .. InitSize |-> NoItem]
    /\ lock   = NoThread
    /\ pc     = [t \in Threads |-> "out"]
    /\ idx    = [t \in Threads |-> 0]
    /\ ret    = [t \in Threads |-> Empty]
    /\ pushed = 0

-----------------------------------------------------------------------------
(* The table is copied into a larger one when it is full.                  *)
NewSize == IF size = used THEN 2 * size + 1 ELSE size

(* Mutant: the larger table does not get the items of the former one.      *)
PushNoCopy(t, x) ==
    /\ pc[t] = "out" /\ lock = NoThread /\ pushed < MaxPush
    /\ lock'   = t
    /\ size'   = NewSize
    /\ elttab' = [k \in 1 .. NewSize |->
                     IF k = used + 1 THEN x ELSE IF size # used THEN elttab[k] ELSE NoItem]
    /\ used'   = used + 1
    /\ pushed' = pushed + 1
    /\ Goto(t, "up", used + 1)
    /\ UNCHANGED ret

(* pqueuePush2 takes the lock and writes the item at the end of the table. *)
Push(t, x) ==
    /\ pc[t] = "out" /\ lock = NoThread /\ pushed < MaxPush
    /\ lock'   = t
    /\ size'   = NewSize
    /\ elttab' = [k \in 1 .. NewSize |->
                     IF k = used + 1 THEN x ELSE IF k <= size THEN elttab[k] ELSE NoItem]
    /\ used'   = used + 1
    /\ pushed' = pushed + 1
    /\ Goto(t, "up", used + 1)
    /\ UNCHANGED ret

(* An item moves up while it precedes its father.                          *)
Up(t) ==
    LET i  == idx[t]
        hi == i \div 2
    IN  /\ pc[t] = "up" /\ i > 1 /\ ItemComparison(elttab[i], elttab[hi])
        /\ elttab' = Swap(elttab, i, hi)
        /\ Goto(t, "up", hi)
        /\ UNCHANGED <<size, used, lock, ret, pushed>>

(* The item is at its place: pqueuePush2 returns.                          *)
PushReturns(t) ==
    /\ pc[t] = "up"
    /\ idx[t] > 1 => ~ ItemComparison(elttab[idx[t]], elttab[idx[t] \div 2])
    /\ Free(t)
    /\ idx' = [idx EXCEPT ![t] = 0]
    /\ UNCHANGED <<size, used, elttab, ret, pushed>>

-----------------------------------------------------------------------------
(* pqueuePop2 on an empty queue.                                           *)
PopEmpty(t) ==
    /\ pc[t] = "out" /\ lock = NoThread /\ used = 0
    /\ ret' = [ret EXCEPT ![t] = Empty]
    /\ UNCHANGED <<size, used, elttab, lock, pc, idx, pushed>>

(* pqueuePop2 takes the lock and the head; the last item replaces it.      *)
Pop(t) ==
    /\ pc[t] = "out" /\ lock = NoThread /\ used # 0
    /\ lock'   = t
    /\ ret'    = [ret EXCEPT ![t] = elttab[1]]
    /\ elttab' = [elttab EXCEPT ![1] = elttab[used]]
    /\ used'   = used - 1
    /\ Goto(t, "down", 1)
    /\ UNCHANGED <<size, pushed>>

(* Mutant: the first son is always taken.                                  *)
SonFirst(i) == 2 * i

(* The son that an item may be exchanged with.                             *)
Son(i) ==
    IF 2 * i = used \/ ItemComparison(elttab[2 * i], elttab[2 * i + 1]) THEN 2 * i ELSE 2 * i + 1

(* An item that does not precede its son moves down.                       *)
Down(t) ==
    LET i == idx[t] IN
    /\ pc[t] = "down" /\ i <= used \div 2 /\ ~ ItemComparison(elttab[i], elttab[Son(i)])
    /\ elttab' = Swap(elttab, i, Son(i))
    /\ Goto(t, "down", Son(i))
    /\ UNCHANGED <<size, used, lock, ret, pushed>>

(* The item is at its place: pqueuePop2 returns.                           *)
PopReturns(t) ==
    /\ pc[t] = "down"
    /\ idx[t] <= used \div 2 => ItemComparison(elttab[idx[t]], elttab[Son(idx[t])])
    /\ Free(t)
    /\ idx' = [idx EXCEPT ![t] = 0]
    /\ UNCHANGED <<size, used, elttab, ret, pushed>>

-----------------------------------------------------------------------------
Inside(t) == Up(t) \/ PushReturns(t) \/ Down(t) \/ PopReturns(t)

Next ==
    \E t \in Threads :
        \/ \E x \in Items : Push(t, x)
        \/ Pop(t) \/ PopEmpty(t) \/ Inside(t)

Spec == Init /\ [][Next]_vars

-----------------------------------------------------------------------------
(* The loops move the item they are at and break the order nowhere else:   *)
(* its sons never precede its father.                                      *)
SiftOrder(t) ==
    \A k \in 2 .. used :
        /\ k # idx[t] /\ k \div 2 # idx[t] => ~ ItemComparison(elttab[k], elttab[k \div 2])
        /\ k \div 2 = idx[t] /\ idx[t] > 1 => ~ ItemComparison(elttab[k], elttab[idx[t] \div 2])

(* Two threads are never inside the queue together; while none is no item  *)
(* precedes its father, and while one is only the item it moves may.       *)
HeapOrder ==
    /\ \A t \in Threads : pc[t] # "out" => lock = t /\ SiftOrder(t)
    /\ lock = NoThread =>
           \A k \in 2 .. used : ~ ItemComparison(elttab[k], elttab[k \div 2])

(* The queue is a bag from which a thread gets an item no other precedes,  *)
(* and gets nothing only when the bag is empty: no push loses an item when *)
(* the table grows, no pop duplicates one.                                 *)
Content == [x \in Range(SubSeq(elttab, 1, used)) |->
                Cardinality({k \in 1 .. used : elttab[k] = x})]
M == INSTANCE MinQueue WITH bag <- Content
ImplementsMinQueue == M!QSpec
=============================================================================
