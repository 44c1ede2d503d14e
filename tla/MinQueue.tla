------------------------------ MODULE MinQueue ------------------------------
(***************************************************************************)
(* What the priority queue of kernels/queue.c promises to its users: a bag *)
(* of items, from which one takes an item that no other one precedes.      *)
(***************************************************************************)
EXTENDS Integers, BagsExt, Bags

CONSTANTS
    Threads,
    Items,      \* an item has two keys, key1 and key2
    Empty       \* what a thread gets from an empty queue

VARIABLES
    bag,        \* the items in the queue
    ret         \* the last item each thread got

(* The order of the queue is lexicographic.                                *)
Precedes(x, y) == x.key1 < y.key1 \/ (x.key1 = y.key1 /\ x.key2 < y.key2)

QInit ==
    /\ bag = EmptyBag
    /\ ret \in [Threads -> {Empty}]

Put(x) == bag' = BagAdd(bag, x) /\ UNCHANGED ret

Take(t, x) ==
    /\ x \in BagToSet(bag) /\ \A y \in BagToSet(bag) : ~ Precedes(y, x)
    /\ bag' = BagRemove(bag, x)
    /\ ret' = [ret EXCEPT ![t] = x]

TakeNothing(t) ==
    /\ bag = EmptyBag
    /\ ret' = [ret EXCEPT ![t] = Empty]
    /\ UNCHANGED bag

QNext ==
    \/ \E x \in Items : Put(x)
    \/ \E t \in Threads, x \in Items : Take(t, x)
    \/ \E t \in Threads : TakeNothing(t)

QSpec == QInit /\ [][QNext]_<<bag, ret>>
=============================================================================
