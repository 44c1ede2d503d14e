---------------------------- MODULE ParallelCall ----------------------------
(***************************************************************************)
(* What the internal scheduler promises to the solver: a call of           *)
(* isched_parallel_call makes every thread execute the function once, in   *)
(* Phases phases separated by isched_barrier_wait, and returns when all of *)
(* them are done.  No thread begins a phase before every thread finished   *)
(* the previous one.  ischedFinalize ends the life of the pool.            *)
(***************************************************************************)
EXTENDS Naturals

CONSTANTS
    Team,       \* the threads, the master among them
    Phases,     \* phases of the function: its own barriers plus one
    MaxCalls    \* bound: parallel calls made

VARIABLES
    calls,      \* number of parallel calls made so far
    state,      \* "idle", "calling" or "closed"
    done        \* phases of the current call completed by each thread

absVars == <<calls, state, done>>

AbsInit ==
    /\ calls = 0
    /\ state = "idle"
    /\ done  = [t \in Team |-> Phases]

Call ==
    /\ state = "idle" /\ calls < MaxCalls
    /\ calls' = calls + 1
    /\ state' = "calling"
    /\ done'  = [t \in Team |-> 0]

DoPhase(t) ==
    /\ state = "calling"
    /\ done[t] < Phases
    /\ \A u \in Team : done[u] >= done[t]
    /\ done' = [done EXCEPT ![t] = @ + 1]
    /\ UNCHANGED <<calls, state>>

Return ==
    /\ state = "calling"
    /\ \A t \in Team : done[t] = Phases
    /\ state' = "idle"
    /\ UNCHANGED <<calls, done>>

Close ==
    /\ state = "idle"
    /\ state' = "closed"
    /\ UNCHANGED <<calls, done>>

AbsNext == Call \/ (\E t \in Team : DoPhase(t)) \/ Return \/ Close

(* A call in progress always comes to its end. *)
AbsFairness == WF_absVars(Return) /\ \A t \in Team : WF_absVars(DoPhase(t))

AbsSpec == AbsInit /\ [][AbsNext]_absVars /\ AbsFairness
=============================================================================
