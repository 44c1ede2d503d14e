------------------------------ MODULE MCPQueue ------------------------------
(***************************************************************************)
(* Two threads and a queue of size 0 at first, that grows up to 7.         *)
(***************************************************************************)
EXTENDS PQueue

CONSTANTS t1, t2

Item(k1, k2, e) == [key1 |-> k1, key2 |-> k2, eltptr |-> e]

(* Two items have the same keys, two differ by the second one only.        *)
MCItems == {Item(1, 0, 1), Item(2, 0, 2), Item(2, 0, 3), Item(2, 1, 4)}
=============================================================================
