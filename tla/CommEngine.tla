----------------------------- MODULE CommEngine -----------------------------
(***************************************************************************)
(* The communication engine of PaStiX, that the factorization              *)
(* (kernels/cpucblk_zmpi_coeftab.c) and both steps of the solve            *)
(* (kernels/cpucblk_zmpi_rhs_fwd.c, cpucblk_zmpi_rhs_bwd.c) use in the     *)
(* same way.                                                               *)
(*                                                                         *)
(* The emissions in progress of a process and its only reception, which is *)
(* persistent, from any source and of any tag, share the table reqtab.     *)
(* Threads append their emissions under reqlock.  One thread at a time     *)
(* (pastix_comm_tid) makes the communications progress: it tests, without  *)
(* the lock, the requests it counted when it began, handles those that are *)
(* completed, and packs the table under the lock.                          *)
(*                                                                         *)
(* The modules that extend this one add to its actions what the handlers   *)
(* do with the data.  Atomic steps: one section under reqlock or           *)
(* pastix_comm_lock, or one call of MPI.                                   *)
(***************************************************************************)
EXTENDS DistStructure

CONSTANT NoThread   \* pastix_comm_tid = -1, and no request, and no source

ASSUME EngineAssumption == NoThread \notin Threads \cup Procs

VARIABLES
    pc,         \* where each thread stands
    reqtab,     \* reqtab and reqidx, up to reqnum
    incoming,   \* messages still to receive: recvcnt (fanincnt when solving backward)
    outgoing,   \* messages still to send: fanincnt (recvcnt when solving backward)
    commtid,    \* pastix_comm_tid of each process
    posted,     \* the emission a thread has started and not registered yet
    nbreq,      \* nbrequest of the function that makes the communications progress
    indexes,    \* completed requests a thread has still to handle
    nbfree,     \* requests freed among those it handled
    held,       \* recvbuf: the copy of the message it handles
    recvreq,    \* MPI: state of the persistent reception
    rcoeftab,   \* the reception buffer and its status
    sending,    \* MPI: emissions that are not completed
    net         \* MPI: messages in transit between two processes

mpiVars    == <<recvreq, rcoeftab, sending, net>>
tableVars  == <<reqtab, incoming, outgoing, posted>>
threadVars == <<commtid, nbreq, indexes, nbfree, held>>
engineVars == <<tableVars, threadVars, mpiVars>>

Goto(t, label) == pc' = [pc EXCEPT ![t] = label]

(* An entry of the table: live unless MPI_REQUEST_NULL; idx is the remote  *)
(* column block that is sent, or NoIdx (-1) for the reception.             *)
NoIdx == <<NoThread, NoThread>>
Request(i) == [live |-> TRUE, idx |-> i]

(* A message: its source, its tag (the column block) and its data.         *)
NoMsg == [from |-> NoThread, tag |-> NoThread, data |-> {}]

EngineInit ==
    /\ reqtab   = [p \in Procs |-> <<>>]
    /\ incoming = [p \in Procs |-> 0]
    /\ outgoing = [p \in Procs |-> 0]
    /\ commtid  = [p \in Procs |-> NoThread]
    /\ posted   = [t \in Threads |-> NoIdx]
    /\ nbreq    = [t \in Threads |-> 0]
    /\ indexes  = [t \in Threads |-> {}]
    /\ nbfree   = [t \in Threads |-> 0]
    /\ held     = [t \in Threads |-> NoMsg]
    /\ recvreq  = [p \in Procs |-> "freed"]
    /\ rcoeftab = [p \in Procs |-> NoMsg]
    /\ sending  = {}
    /\ net      = [x \in Procs \X Procs |-> <<>>]

(* solverRequestInit, then solverRecvInit or solverRhsRecvInit: the        *)
(* counters are restored, and the reception opened if a message is         *)
(* expected.                                                               *)
OpenRequests(p, in, out) ==
    /\ incoming' = [incoming EXCEPT ![p] = in]
    /\ outgoing' = [outgoing EXCEPT ![p] = out]
    /\ reqtab'   = [reqtab EXCEPT ![p] = IF in = 0 THEN <<>> ELSE <<Request(NoIdx)>>]
    /\ recvreq'  = [recvreq EXCEPT ![p] = IF in = 0 THEN "freed" ELSE "active"]
    /\ UNCHANGED <<posted, threadVars, rcoeftab, sending, net>>

-----------------------------------------------------------------------------
(* Emissions.                                                              *)

(* MPI_Isend of the remote column block x to process q.                    *)
Isend(t, x, q, tag, data) ==
    /\ net' = [net EXCEPT ![<<ProcOf(t), q>>] =
                  Append(@, [from |-> ProcOf(t), tag |-> tag, data |-> data])]
    /\ sending' = sending \cup {x}
    /\ posted'  = [posted EXCEPT ![t] = x]
    /\ UNCHANGED <<reqtab, incoming, outgoing, threadVars, recvreq, rcoeftab>>

(* The request is registered, under reqlock.                               *)
Register(t) ==
    /\ reqtab' = [reqtab EXCEPT ![ProcOf(t)] = Append(@, Request(posted[t]))]
    /\ posted' = [posted EXCEPT ![t] = NoIdx]
    /\ UNCHANGED <<incoming, outgoing, threadVars, mpiVars>>

-----------------------------------------------------------------------------
(* The progress of the communications, from label "elect" until the thread *)
(* is back at label out.                                                   *)

(* Mutant: the thread does not look whether another one communicates.      *)
ElectAnyone(t, out) ==
    /\ pc[t] = "elect"
    /\ commtid' = [commtid EXCEPT ![ProcOf(t)] = t]
    /\ Goto(t, "snapshot")
    /\ UNCHANGED <<tableVars, nbreq, indexes, nbfree, held, mpiVars>>

(* Under pastix_comm_lock; a thread that finds another one yields.         *)
Elect(t, out) ==
    /\ pc[t] = "elect"
    /\ \/ /\ commtid[ProcOf(t)] = NoThread
          /\ commtid' = [commtid EXCEPT ![ProcOf(t)] = t]
          /\ Goto(t, "snapshot")
       \/ /\ commtid[ProcOf(t)] # NoThread
          /\ Goto(t, out)
          /\ UNCHANGED commtid
    /\ UNCHANGED <<tableVars, nbreq, indexes, nbfree, held, mpiVars>>

(* The number of requests, read under reqlock.                             *)
Snapshot(t) ==
    /\ pc[t] = "snapshot"
    /\ nbreq' = [nbreq EXCEPT ![t] = Len(reqtab[ProcOf(t)])]
    /\ Goto(t, IF nbreq'[t] > 0 THEN "test" ELSE "leave")
    /\ UNCHANGED <<tableVars, commtid, indexes, nbfree, held, mpiVars>>

(* The requests, among the first n, that MPI knows to be completed.        *)
Completed(p, n) ==
    {i \in 1 .. n :
        /\ reqtab[p][i].live
        /\ IF reqtab[p][i].idx = NoIdx THEN recvreq[p] = "done"
           ELSE reqtab[p][i].idx \notin sending}

(* MPI_Testsome: the emissions that it returns become MPI_REQUEST_NULL,    *)
(* the persistent reception becomes inactive.                              *)
Test(t) ==
    LET p == ProcOf(t)
        S == Completed(p, nbreq[t])
    IN  /\ pc[t] = "test"
        /\ indexes' = [indexes EXCEPT ![t] = S]
        /\ reqtab'  = [reqtab EXCEPT ![p] =
              [i \in DOMAIN @ |-> [live |-> @[i].live /\ (i \in S => @[i].idx = NoIdx),
                                   idx  |-> @[i].idx]]]
        /\ recvreq' = [recvreq EXCEPT ![p] =
              IF \E i \in S : reqtab[p][i].idx = NoIdx THEN "inactive" ELSE @]
        /\ Goto(t, IF S # {} THEN "handle" ELSE "leave")
        /\ UNCHANGED <<incoming, outgoing, posted, commtid, nbreq, nbfree, held,
                       rcoeftab, sending, net>>

(* The completed request a thread handles.                                 *)
Index(t) == Min(indexes[t])
Handled(t) == reqtab[ProcOf(t)][Index(t)].idx
Handles(t) == pc[t] = "handle" /\ indexes[t] # {}

(* Mutant: the reception is not opened again.                              *)
TakeMessageOnce(t) ==
    LET p == ProcOf(t) IN
    /\ Handles(t) /\ Handled(t) = NoIdx
    /\ held'     = [held EXCEPT ![t] = rcoeftab[p]]
    /\ incoming' = [incoming EXCEPT ![p] = @ - 1]
    /\ recvreq'  = [recvreq EXCEPT ![p] = "freed"]
    /\ reqtab'   = [reqtab EXCEPT ![p][Index(t)].live = FALSE]
    /\ nbfree'   = [nbfree EXCEPT ![t] = @ + 1]
    /\ UNCHANGED <<outgoing, posted, commtid, nbreq, indexes, rcoeftab, sending, net>>

(* A message was received; it is copied, then the reception is opened      *)
(* again if other messages are expected, or freed.                         *)
TakeMessage(t) ==
    LET p == ProcOf(t) IN
    /\ Handles(t) /\ Handled(t) = NoIdx
    /\ held'     = [held EXCEPT ![t] = rcoeftab[p]]
    /\ incoming' = [incoming EXCEPT ![p] = @ - 1]
    /\ \/ /\ incoming'[p] > 0
          /\ recvreq' = [recvreq EXCEPT ![p] = "active"]
          /\ UNCHANGED <<reqtab, nbfree>>
       \/ /\ incoming'[p] <= 0
          /\ recvreq' = [recvreq EXCEPT ![p] = "freed"]
          /\ reqtab'  = [reqtab EXCEPT ![p][Index(t)].live = FALSE]
          /\ nbfree'  = [nbfree EXCEPT ![t] = @ + 1]
    /\ UNCHANGED <<outgoing, posted, commtid, nbreq, indexes, rcoeftab, sending, net>>

(* The message was used: the next completed request.                       *)
DropMessage(t) ==
    /\ held'    = [held EXCEPT ![t] = NoMsg]
    /\ indexes' = [indexes EXCEPT ![t] = @ \ {Index(t)}]
    /\ Goto(t, "handle")
    /\ UNCHANGED <<tableVars, commtid, nbreq, nbfree, mpiVars>>

(* An emission is completed.                                               *)
TakeSent(t) ==
    /\ Handles(t) /\ Handled(t) # NoIdx
    /\ outgoing' = [outgoing EXCEPT ![ProcOf(t)] = @ - 1]
    /\ nbfree'   = [nbfree EXCEPT ![t] = @ + 1]
    /\ indexes'  = [indexes EXCEPT ![t] = @ \ {Index(t)}]
    /\ UNCHANGED <<pc, reqtab, incoming, posted, commtid, nbreq, held, mpiVars>>

(* The requests of a table that are not completed, packed one by one.      *)
Packed(table) ==
    LET kept[n \in 0 .. Len(table)] ==
            IF n = 0 THEN <<>>
            ELSE IF table[n].live THEN Append(kept[n - 1], table[n]) ELSE kept[n - 1]
    IN  kept[Len(table)]

(* Mutant: only the requests that were tested are packed and kept.         *)
PackTested(t) ==
    LET p == ProcOf(t) IN
    /\ pc[t] = "handle" /\ indexes[t] = {}
    /\ reqtab' = [reqtab EXCEPT ![p] =
          IF nbfree[t] > 0 THEN Packed(SubSeq(@, 1, nbreq[t])) ELSE @]
    /\ nbreq'  = [nbreq EXCEPT ![t] = Len(reqtab'[p])]
    /\ nbfree' = [nbfree EXCEPT ![t] = 0]
    /\ Goto(t, IF nbreq'[t] > 0 THEN "test" ELSE "leave")
    /\ UNCHANGED <<incoming, outgoing, posted, commtid, indexes, held, mpiVars>>

(* cpucblk_zupdate_reqtab, under reqlock: the table is packed, with the    *)
(* requests registered since the snapshot.                                 *)
Pack(t) ==
    LET p == ProcOf(t) IN
    /\ pc[t] = "handle" /\ indexes[t] = {}
    /\ reqtab' = [reqtab EXCEPT ![p] = IF nbfree[t] > 0 THEN Packed(@) ELSE @]
    /\ nbreq'  = [nbreq EXCEPT ![t] = Len(reqtab'[p])]
    /\ nbfree' = [nbfree EXCEPT ![t] = 0]
    /\ Goto(t, IF nbreq'[t] > 0 THEN "test" ELSE "leave")
    /\ UNCHANGED <<incoming, outgoing, posted, commtid, indexes, held, mpiVars>>

(* pastix_comm_tid = -1                                                    *)
Leave(t, out) ==
    /\ pc[t] = "leave"
    /\ commtid' = [commtid EXCEPT ![ProcOf(t)] = NoThread]
    /\ nbreq'   = [nbreq EXCEPT ![t] = 0]
    /\ Goto(t, out)
    /\ UNCHANGED <<tableVars, indexes, nbfree, held, mpiVars>>

(* The steps of the progress that touch no data.                           *)
Progress(t, out) ==
    Elect(t, out) \/ Snapshot(t) \/ Test(t) \/ Pack(t) \/ Leave(t, out)

(* MPI_Wait on the emissions that are left, one by one.                    *)
WaitSent(p) ==
    /\ reqtab[p] # <<>>
    /\ Head(reqtab[p]).live /\ Head(reqtab[p]).idx \in FanIns \ sending
    /\ reqtab' = [reqtab EXCEPT ![p] = Tail(@)]
    /\ UNCHANGED <<incoming, outgoing, posted, threadVars, mpiVars>>

-----------------------------------------------------------------------------
(* MPI: messages between two processes do not overtake one another; an     *)
(* emission completes when its message is received, or before.             *)

Deliver(p, q) ==
    /\ recvreq[q] = "active" /\ net[<<p, q>>] # <<>>
    /\ rcoeftab' = [rcoeftab EXCEPT ![q] = Head(net[<<p, q>>])]
    /\ net'      = [net EXCEPT ![<<p, q>>] = Tail(@)]
    /\ recvreq'  = [recvreq EXCEPT ![q] = "done"]
    /\ UNCHANGED <<pc, tableVars, threadVars, sending>>

SendDone(x) ==
    /\ x \in sending
    /\ sending' = sending \ {x}
    /\ UNCHANGED <<pc, tableVars, threadVars, recvreq, rcoeftab, net>>

(* The message of an emission was received.                                *)
Received(x) == \A pq \in DOMAIN net : \A i \in DOMAIN net[pq] :
                   net[pq][i].tag = x[2] => x[1] \notin {pq[1], pq[2]}

-----------------------------------------------------------------------------
(* The table of requests keeps its size (the assertion reqnum < reqnbr of  *)
(* cpucblk_zisend) although completed requests stay in it until they are   *)
(* packed, and the process counts down no more messages than there are.    *)
EngineTypeOK(reqnbr) ==
    /\ \A p \in Procs : Len(reqtab[p]) <= reqnbr[p]
    /\ incoming \in [Procs -> Nat] /\ outgoing \in [Procs -> Nat]
    /\ commtid \in [Procs -> Threads \cup {NoThread}]
    /\ posted  \in [Threads -> FanIns \cup {NoIdx}]
    /\ recvreq \in [Procs -> {"active", "done", "inactive", "freed"}]
    /\ sending \subseteq FanIns

(* Where a thread is while it makes the communications progress.           *)
Communicating == {"snapshot", "test", "handle", "leave"}

(* One thread of a process at a time makes the communications progress:    *)
(* the one whose identifier pastix_comm_tid holds.                         *)
OneCommThread ==
    \A t \in Threads :
        pc[t] \in Communicating \/ held[t] # NoMsg => commtid[ProcOf(t)] = t

(* The request of a column block that is being sent is in the table of its *)
(* process, once, or about to be registered by the thread that sent it.    *)
RequestsOnce ==
    \A x \in sending :
        Cardinality({r \in Procs \X (1 .. Cardinality(FanIns) + 1) :
                        r[2] \in DOMAIN reqtab[r[1]] /\ reqtab[r[1]][r[2]] = Request(x)}) +
        Cardinality({t \in Threads : posted[t] = x}) = 1

(* One thread at a time tests and packs the table, without the lock of     *)
(* those that register, and nothing is lost or duplicated meanwhile.       *)
RequestsTracked == OneCommThread /\ RequestsOnce
=============================================================================
