------------------------------ MODULE SeqSolve ------------------------------
(***************************************************************************)
(* The two triangular solves with the sequential scheduler on several MPI  *)
(* processes: sequential_ztrsm (sopalin/sequential_ztrsm.c) and its        *)
(* blocking messages (kernels/cpucblk_zmpi_rhs_fwd.c).  TaskSolve calls    *)
(* them between two permutations of the vectors.                           *)
(*                                                                         *)
(* Each process goes through its whole cblktab, upwards then downwards:    *)
(* its column blocks are solved, and MPI_Send or MPI_Recv is called for a  *)
(* fan-in or a reception.  There is no table of requests and no counter;   *)
(* the order of cblktab alone keeps the processes from waiting for each    *)
(* other, since MPI_Send may wait for the reception (it may also copy the  *)
(* message and return).                                                    *)
(*                                                                         *)
(* Atomic steps: one column block, one call of MPI.                        *)
(***************************************************************************)
EXTENDS DistStructure

VARIABLES
    pc,         \* where each process stands
    step,       \* enums->solve_step
    at,         \* the entry of cblktab it is at
    faninb,     \* rhsb->cblkb of the fan-ins: <<>> (NULL) or <<contents>>
    net,        \* MPI: messages in transit between two processes
    solved,     \* history: solves of each column block, in each step
    got         \* how many times each block was applied to b, in each step

vars == <<pc, step, at, faninb, net, solved, got>>

Steps == {"forward", "backward"}

Init ==
    /\ pc     = [p \in Procs |-> "loop"]
    /\ step   = [p \in Procs |-> "forward"]
    /\ at     = [p \in Procs |-> 0]
    /\ faninb = [x \in FanIns |-> <<>>]
    /\ net    = [x \in Procs \X Procs |-> <<>>]
    /\ solved = [s \in Steps |-> [c \in Cblks |-> 0]]
    /\ got    = [s \in Steps |-> [e \in Edges |-> 0]]

Done(p) == at[p] \notin 0 .. SolvCblkNbr(p) - 1
Forward(p)  == step[p] = "forward" /\ ~ Done(p)
Backward(p) == step[p] = "backward" /\ ~ Done(p)

(* Process p is at x: a column block of its own, a fan-in or a reception.  *)
IsAt(p, x) == pc[p] = "loop" /\ x \in TabOf(p) /\ CblkNum(p, x) = at[p]

Advance(p) == at' = [at EXCEPT ![p] = IF step[p] = "forward" THEN @ + 1 ELSE @ - 1]

-----------------------------------------------------------------------------
(* The blocks of a column block that face one of the same process.         *)
LocalEdges(c) == {e \in OutOf(c) : Own[Dst[e]] = Own[c]}

(* Contributions to b, or to a fan-in that is allocated with the first.    *)
AddTo(s, E) == got' = [got EXCEPT ![s] = [e \in Edges |-> @[e] + IF e \in E THEN 1 ELSE 0]]
Contents(x) == IF faninb[x] = <<>> THEN {} ELSE faninb[x][1]

(* The diagonal block of a column block is solved...                       *)
SolveDiag(p) ==
    /\ ~ Done(p)
    /\ \E c \in Cblks :
          /\ Own[c] = p /\ IsAt(p, <<p, c>>)
          /\ solved' = [solved EXCEPT ![step[p]][c] = @ + 1]
    /\ pc' = [pc EXCEPT ![p] = "update"]
    /\ UNCHANGED <<step, at, faninb, net, got>>

(* ...then, in solve_cblk_ztrsmsp_forward, the column blocks and the       *)
(* fan-ins that its blocks face are updated...                             *)
UpdateForward(p) ==
    /\ pc[p] = "update" /\ step[p] = "forward"
    /\ \E c \in Cblks :
          /\ Own[c] = p /\ CblkNum(p, <<p, c>>) = at[p]
          /\ AddTo("forward", LocalEdges(c))
          /\ faninb' = [x \in FanIns |->
                LET E == {e \in OutOf(c) : x = <<p, Dst[e]>>}
                IN  IF E = {} THEN faninb[x] ELSE <<Contents(x) \cup E>>]
    /\ pc' = [pc EXCEPT ![p] = "loop"]
    /\ Advance(p)
    /\ UNCHANGED <<step, net, solved>>

(* ...and, in solve_cblk_ztrsmsp_backward, those whose blocks face it.     *)
UpdateBackward(p) ==
    /\ pc[p] = "update" /\ step[p] = "backward"
    /\ \E c \in Cblks :
          /\ Own[c] = p /\ CblkNum(p, <<p, c>>) = at[p]
          /\ AddTo("backward", ProcEdges(p, c))
    /\ pc' = [pc EXCEPT ![p] = "loop"]
    /\ Advance(p)
    /\ UNCHANGED <<step, faninb, net, solved>>

-----------------------------------------------------------------------------
(* MPI_Send and MPI_Recv: the column block is the tag.                     *)

Sent(p, q, tag, data) ==
    /\ net' = [net EXCEPT ![<<p, q>>] = Append(@, [tag |-> tag, data |-> data])]
    /\ pc' = [pc EXCEPT ![p] = "sending"]
    /\ UNCHANGED <<step, at, solved, got>>

(* cpucblk_zsend_rhs_forward: a fan-in, to the owner.                      *)
SendForward(p) ==
    /\ Forward(p)
    /\ \E x \in FanInsOf(p) :
          IsAt(p, x) /\ Sent(p, Own[x[2]], x[2], Contents(x))
    /\ UNCHANGED faninb

(* cpucblk_zsend_rhs_backward: the solution, to a process with a fan-in.   *)
SendBackward(p) ==
    /\ Backward(p)
    /\ \E x \in RecvsOf(p) :
          IsAt(p, x) /\ Sent(p, x[1], x[2], IF solved["backward"][x[2]] = 1 THEN {x[2]} ELSE {})
    /\ UNCHANGED faninb

(* Mutant: the buffer is not freed.                                        *)
SendReturnsOnly(p) ==
    /\ pc[p] = "sending"
    /\ pc' = [pc EXCEPT ![p] = "loop"]
    /\ Advance(p)
    /\ UNCHANGED <<step, faninb, net, solved, got>>

(* MPI_Send returns, and the buffer is freed.                              *)
SendReturns(p) ==
    /\ pc[p] = "sending"
    /\ pc' = [pc EXCEPT ![p] = "loop"]
    /\ faninb' = [x \in FanIns |->
          IF step[p] = "forward" /\ x[1] = p /\ CblkNum(p, x) = at[p] THEN <<>> ELSE faninb[x]]
    /\ Advance(p)
    /\ UNCHANGED <<step, net, solved, got>>

(* The message of q with this tag, the first that matches.                 *)
Matches(p, q, tag) == {i \in DOMAIN net[<<q, p>>] : net[<<q, p>>][i].tag = tag}
Receive(p, q, tag) == net' = [net EXCEPT ![<<q, p>>] = RemoveAt(@, Min(Matches(p, q, tag)))]
Received(p, q, tag) == net[<<q, p>>][Min(Matches(p, q, tag))].data

(* cpucblk_zrecv_rhs_forward: the fan-in of process x[1], added to b.      *)
RecvForward(p) ==
    /\ Forward(p)
    /\ \E x \in RecvsOf(p) :
          /\ IsAt(p, x) /\ Matches(p, x[1], x[2]) # {}
          /\ Receive(p, x[1], x[2])
          /\ AddTo("forward", Received(p, x[1], x[2]))
    /\ Advance(p)
    /\ UNCHANGED <<pc, step, faninb, solved>>

(* cpucblk_zrecv_rhs_backward, then solve_cblk_ztrsmsp_backward, that      *)
(* updates the column blocks with the solution received and frees it.      *)
RecvBackward(p) ==
    /\ Backward(p)
    /\ \E x \in FanInsOf(p) :
          /\ IsAt(p, x) /\ Matches(p, Own[x[2]], x[2]) # {}
          /\ Receive(p, Own[x[2]], x[2])
          /\ AddTo("backward", IF x[2] \in Received(p, Own[x[2]], x[2])
                               THEN ProcEdges(x[1], x[2]) ELSE {})
    /\ Advance(p)
    /\ UNCHANGED <<pc, step, faninb, solved>>

-----------------------------------------------------------------------------
Reach(p) ==
    /\ pc[p] = "loop" /\ Done(p)
    /\ pc' = [pc EXCEPT ![p] = "barrier"]
    /\ UNCHANGED <<step, at, faninb, net, solved, got>>

(* MPI_Barrier of sopalin_ztrsm, then the backward step...                 *)
NextStep(p, first) ==
    /\ pc[p] = "barrier" /\ step[p] = "forward"
    /\ \A q \in Procs : pc[q] = "barrier" \/ step[q] = "backward"
    /\ pc'   = [pc EXCEPT ![p] = "loop"]
    /\ step' = [step EXCEPT ![p] = "backward"]
    /\ at'   = [at EXCEPT ![p] = first]
    /\ UNCHANGED <<faninb, net, solved, got>>

(* ...or the end of the solve.                                             *)
Leave(p) ==
    /\ pc[p] = "barrier" /\ step[p] = "backward"
    /\ \A q \in Procs : step[q] = "backward" /\ pc[q] \in {"barrier", "left"}
    /\ pc' = [pc EXCEPT ![p] = "left"]
    /\ UNCHANGED <<step, at, faninb, net, solved, got>>

(* sequential_ztrsm, except what the library does.                         *)
Run(p) ==
    \/ SolveDiag(p) \/ UpdateForward(p) \/ UpdateBackward(p) \/ SendForward(p) \/ SendBackward(p)
    \/ RecvForward(p) \/ RecvBackward(p) \/ Reach(p) \/ NextStep(p, SolvCblkNbr(p) - 1)

(* MPI_Send is sure to return only once its messages were received.        *)
Taken(p) == \A q \in Procs : net[<<p, q>>] = <<>>

-----------------------------------------------------------------------------
(* The blocking messages bring each column block what TriangularSolve asks *)
(* for: every contribution once, and none before it is due.                *)
TS == INSTANCE TriangularSolve
BlockingImplementsTriangularSolve == TS!TSSpec
=============================================================================
