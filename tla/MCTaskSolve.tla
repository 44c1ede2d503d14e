----------------------------- MODULE MCTaskSolve -----------------------------
(***************************************************************************)
(* pastix_task_solve on four processes: three that send to and receive     *)
(* from each other in both directions during the solve, and one without    *)
(* column blocks.                                                          *)
(***************************************************************************)
EXTENDS TaskSolve

MCProcs == 0 .. 3
MCThreadNbr == [p \in MCProcs |-> 1]
MCOwn == [c \in 0 .. 6 |-> c % 3]
MCOrder == [t \in {<<p, 0>> : p \in MCProcs} |->
                CASE t[1] = 0 -> <<0, 3, 6>> [] t[1] = 1 -> <<1, 4>> [] t[1] = 2 -> <<2, 5>>
                  [] OTHER -> <<>>]

(* 3 and 6 (process 0) are faced by the two other processes, 5 (process 2) *)
(* and 4 (process 1) by process 0, 6 by its own process too.               *)
MCBloks == << <<0, 4>>, <<0, 5>>, <<1, 3>>, <<1, 6>>, <<2, 3>>, <<2, 4>>, <<3, 5>>, <<3, 6>>,
              <<4, 6>>, <<5, 6>> >>
MCSrc == [e \in 1 .. 10 |-> MCBloks[e][1]]
MCDst == [e \in 1 .. 10 |-> MCBloks[e][2]]

MCPerm == [i \in 0 .. 6 |-> (3 * i + 1) % 7]

(* Everybody has rows for others; all the rows on the process without      *)
(* column blocks; replicated.                                              *)
Distributed(owner) == [p \in MCProcs |-> {i \in 0 .. 6 : owner[i + 1] = p}]
MCLayouts == {Distributed(<<0, 0, 3, 1, 1, 2, 2>>), Distributed(<<3, 3, 3, 3, 3, 3, 3>>),
              [p \in MCProcs |-> 0 .. 6]}
=============================================================================
