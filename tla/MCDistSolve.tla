---------------------------- MODULE MCDistSolve ----------------------------
(***************************************************************************)
(* The distributed solve on three processes of one thread, and on two     *)
(* processes, the first of which has two threads.                          *)
(***************************************************************************)
EXTENDS DistSolve

MCThreadNbr == [p \in {0, 1, 2} |-> 1]

(* 0 (process 0) contributes twice to 1 (process 1), 1 to 3 (process 1)    *)
(* and to 4 (process 0), 2 (process 2) to 3: process 0 may end the forward *)
(* step while process 1 waits for process 2, and 3 faces a block of its    *)
(* own process and a fan-in.                                               *)
MCOwn == [c \in 0 .. 4 |-> CASE c \in {0, 4} -> 0 [] c \in {1, 3} -> 1 [] c = 2 -> 2]
MCOrder == [t \in {<<0, 0>>, <<1, 0>>, <<2, 0>>} |->
                CASE t = <<0, 0>> -> <<0, 4>> [] t = <<1, 0>> -> <<1, 3>> [] t = <<2, 0>> -> <<2>>]
MCSrc == [e \in 1 .. 5 |-> CASE e \in {1, 2} -> 0 [] e \in {3, 4} -> 1 [] e = 5 -> 2]
MCDst == [e \in 1 .. 5 |-> CASE e \in {1, 2} -> 1 [] e \in {3, 5} -> 3 [] e = 4 -> 4]

(* 0 and 1 (process 0, two threads) contribute to 2 (process 1).           *)
MCSmallThreadNbr == [p \in {0, 1} |-> IF p = 0 THEN 2 ELSE 1]
MCSmallOwn == [c \in 0 .. 2 |-> IF c = 2 THEN 1 ELSE 0]
MCSmallOrder == [t \in {<<0, 0>>, <<0, 1>>, <<1, 0>>} |->
                    CASE t = <<0, 0>> -> <<0>> [] t = <<0, 1>> -> <<1>> [] t = <<1, 0>> -> <<2>>]
MCSmallSrc == [e \in 1 .. 2 |-> e - 1]
MCSmallDst == [e \in 1 .. 2 |-> 2]
=============================================================================
