---------------------------- MODULE MCDistFacto ----------------------------
(***************************************************************************)
(* The distributed factorization on two processes, the first of which has  *)
(* two threads: it sends two fan-ins and receives one.                     *)
(***************************************************************************)
EXTENDS DistFacto

MCThreadNbr == [p \in {0, 1} |-> IF p = 0 THEN 2 ELSE 1]

(* Column blocks 0, 1, 4 and 5 are on process 0, 2 and 3 on process 1.     *)
MCOwn == [c \in 0 .. 5 |-> IF c \in {2, 3} THEN 1 ELSE 0]
MCOrder == [t \in {<<0, 0>>, <<0, 1>>, <<1, 0>>} |->
                CASE t = <<0, 0>> -> <<0, 4>> [] t = <<0, 1>> -> <<1, 5>> [] t = <<1, 0>> -> <<2, 3>>]

(* 0 and 1 contribute to 2, 1 to 3, 3 to 4, 4 to 5.                        *)
MCSrc == [e \in 1 .. 5 |-> CASE e = 1 -> 0 [] e \in {2, 3} -> 1 [] e = 4 -> 3 [] e = 5 -> 4]
MCDst == [e \in 1 .. 5 |-> CASE e \in {1, 2} -> 2 [] e = 3 -> 3 [] e = 4 -> 4 [] e = 5 -> 5]
=============================================================================
