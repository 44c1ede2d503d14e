# A formal model of PaStiX

PaStiX is a parallel direct solver for sparse linear systems: it analyses a
matrix, factorizes it, and solves triangular systems with the factors, with
threads inside a process and MPI between processes. This directory holds a
TLA+ model of the parts of it where the order of events, or the agreement of
several processes, matters: the thread pool, the schedulers of the numerical
phases, their work queues, the communications of the factorization and of the
solves, the mapping that the analysis computes for them, and the order in which
an application may call the steps. TLC checks the model on small instances;
TLAPS proves the main safety properties for every value of the constants.

Paths are relative to the root of the repository. Files with a `z` are the
templates from which the four precisions are generated.

## Inventory

| Component | State | Operations | Talks to |
|---|---|---|---|
| Barrier of the internal scheduler (`common/isched.c`) | `curcount`, `generation`, a mutex and a condition | `isched_barrier_init`, `isched_barrier_wait` | every thread of the pool |
| Thread pool (`common/isched.c`, `isched.h`) | `status`, `pfunc`, the threads | `ischedInit`, `isched_parallel_call`, `isched_parallel_section`, `ischedFinalize` | the barrier; called by every numerical phase |
| Dynamic scheduler (`sopalin/sequential_z{potrf,pxtrf,getrf,sytrf,hetrf,trsm}.c`, `stealQueue`) | `computeQueue[]`, `taskcnt`, `local_taskcnt`, `cblk->ctrbcnt`, `cblk->threadid` | pop, steal, compute, release, push, flush of the local count | the pool, the queues, the kernels, the communication engine |
| Static scheduler (same files) | `ttsktab[]`, `ctrbcnt` | wait for a column block, compute, release | the kernels, the communication engine |
| Communication engine of the factorization (`kernels/cpucblk_zmpi_coeftab.c`, `blend/solver.c`) | `reqtab`, `reqidx`, `reqnum`, `recvcnt`, `pastix_comm_tid`, the persistent reception and its buffer | `cpucblk_zisend`, `cpucblk_zmpi_progress`, `cpucblk_zrequest_cleanup`, `solverRecvInit`... | MPI, the counters of the schedulers |
| Communication engine of the solves (`kernels/cpucblk_zmpi_rhs_{fwd,bwd}.c`) | the same table, `recvcnt` or `fanincnt`, the buffers `rhsb->cblkb[]` | emission, reception, progress, clean-up | MPI, the schedulers |
| Sequential solve, solve after a runtime (`sopalin/sequential_ztrsm.c`, `coeftab.c`) | the place in `cblktab`, `rhsb->cblkb[]`; the coefficients gathered on process 0 | blocking `cpucblk_z{send,recv}_rhs_{forward,backward}`; `coeftab_gather`, `coeftab_nullify`, `bvec_zallreduce` | MPI |
| Permutation of the vectors (`bcsc/bvec_zlapmr.c`, `bvec.c`, `bvec_zmpi_comm.c`) | the amounts of `rhs_comm`, the vector `b` and the permuted one | `bvec_zlapmr`, forward and backward, with distributed or replicated vectors | MPI, on the communicator of the solves |
| Priority queue (`kernels/queue.c`) | `elttab`, `size`, `used`, `lock` | `pqueuePush2`, `pqueuePop2`, `pqueueInit`... | the dynamic scheduler, `blend/`, `order/` |
| Storage of the column blocks (`kernels/cpucblk_zinit.c`, `sopalin/coeftab*.c`) | `lcoeftab`, `ucoeftab`, low-rank blocks | lazy allocation, initialisation, release | the kernels |
| Steps of the API (`sopalin/pastix*.c`, `order/`, `symbol/`, `blend/` `pastix_subtask_*.c`, `common/api.c`) | `steps`, `iparm`, the structures of each step, the vectors kept by `pastix()` | the tasks, the subtasks, `pastix()` | everything |
| Splitting of the supernodes (`blend/splitsymbol.c`, `extracblk.c`) | the symbol matrix, `sptcblk`, `sptcbnb`, the new column blocks | `splitSmart`, `extraCblkMerge` | the mapping |
| Mapping (`blend/propmap.c`, `elimintree.c`, `simu*.c`) | the elimination tree, `candtab`, the heaps, counters and clocks of the simulation, `ownetab`, `tasktab` | `propMappTree`, `simuInit`, `simuTaskBuild`, `simuRun` | the generation of the solver matrix |
| Generation of the solver matrix (`blend/solver_matrix_gen*.c`, `solver_recv.c`) | `cblklocalnum`, `bloklocalnum`, `cblktab`, `bloktab`, `browtab` | `solverMatrixGen` | all the numerical phases of every process |
| Ordering, symbolic factorization (`graph/`, `order/`, `symbol/`) | graph, ordering, symbol matrix | sequential algorithms | the mapping |
| Kernels, low-rank, rest of `bcsc/`, refinement | coefficients and vectors | numerical computation | BLAS, LAPACK |
| StarPU, PaRSEC and GPU versions | tasks of the runtimes | submission | external runtimes |

What is hard in it:

* **Reuse.** One barrier object serves the pool and the functions it executes,
  call after call, and its threads may wake up late or for no reason.
* **Unsynchronised reads.** `isched->status` is reset without its lock;
  `taskcnt` is polled while every thread keeps its own count aside.
* **Counters that release work.** A column block becomes ready when somebody
  brings its counter to zero: the counters, set from the structure of the
  matrix in one place, must match the loops that decrement them in another,
  in each factorization, in both steps of the solve and in each Schur mode.
* **Stealing.** A queue has an owner, thieves, and threads that push to it, and
  is freed at the end by its owner.
* **Any-source messages.** Each process opens one reception for everybody; the
  number of messages that it expects decides when it closes it. Two steps of a
  solve share communicator and tags.
* **One communicating thread at a time.** Whoever waits may take the role; the
  table of requests is tested without a lock while others append to it.
* **Buffers that MPI reads.** The threads go on while a fan-in, a solution or
  its copy is being sent.
* **Everyone for himself.** The processes never exchange the structure of what
  they send: each one derives, from the same mapping, the fan-ins it will send
  and the receptions it will get. The order of the lists, of the priorities and
  of the table of column blocks keeps them from waiting for each other.
* **Steps done again.** The application may call the steps in any order, several
  times, with other parameters; a bit mask says what may be done.

`PROJECT.json` lists these hazards at their lines, with the properties that
would catch each of them going wrong, or why none does.

## Modules

An arrow `->` reads "extends", `=>` "is checked to implement", `..>` "instantiates".

```
IschedProofs -> Isched -> IschedBarrier      Isched => ParallelCall

DynamicLoopProofs -> DynamicLoop => TaskDag
MCDynamicFacto -> DynamicLoop, FactoTasks      FactoTasks, SolveTasks -> SolverStructure
MCDynamicSolve -> DynamicSolve -> SolveTasks   DynamicSolve ..> DynamicLoop
DynamicSolveProofs -> DynamicSolve, FactoTasks      DynamicSolveProofs ..> DynamicLoopProofs

MCDistFacto -> DistFacto -> DistScheduler -> CommEngine -> DistStructure
DistFactoProofs -> DistFacto, CommEngineProofs      CommEngineProofs -> CommEngine
MCDistSolve -> DistSolve -> DistScheduler      DistSolve => TriangularSolve
DistSolveProofs -> DistSolve, CommEngineProofs
MCTaskSolve -> TaskSolve -> GatherSolve -> SeqSolve -> DistStructure     SeqSolve => TriangularSolve

MCPQueue -> PQueue => MinQueue     SimuQueueProofs -> PQueue, SimuRun
ApiProofs -> OldApi -> ApiSteps

MCAnalysis -> Analysis -> SplitSymbol, SimuRun
MCAnalysis ..> PropMap   Analysis ..> SolverGen, DistStructure
```

### The internal scheduler

**IschedBarrier** is `isched_barrier_wait` when the platform has no
`pthread_barrier_t`. The body is a critical section left only at
`pthread_cond_wait`: `Arrive` and `ArriveLast` are its beginning, `Resleep` and
`Leave` a wake-up that does not, or does, see a new generation, `Spurious` a
return of `pthread_cond_wait` without a cause. The counter `generation` wraps
around at `GenMod`.

**Isched** is the pool. The master creates the workers, calls
(`isched_parallel_call`: `Call`, `BroadcastStatus`, `Reset`, `DoPhase`) and
closes (`Finalize`, `Join`); a worker runs `isched_parallel_section`
(`CheckStatus`, `Dispatch`, `DoPhase`). The function that is executed is a
number of phases separated by the same barrier, as the numerical functions are.
**ParallelCall** is the promise: each thread executes the function of each call
exactly once, phase by phase, and the call returns when all of them are done.

### The schedulers on one process

**DynamicLoop** is the body that `thread_zpotrf_dynamic`, its four copies for
the other factorizations and both halves of `thread_ztrsm_dynamic` share. One
action per operation: the filling of the queues before the first barrier, the
test of `taskcnt`, `pqueuePop`, the flush of `local_taskcnt`, each attempt of
`stealQueue`, the test of the Schur complement, the computation, each update,
each atomic decrement, each push, `local_taskcnt++`, the two barriers. It is
parameterised by a graph: column blocks, contributions, initial counters, keys,
owners, `taskcnt`. A pop takes an item of lowest key, any of them when there are
several. The variables `runs`, `applied` and `fresh` are history. **TaskDag**
is the promise: every task computed once, after all it waits for, and every
contribution applied once.

**SolverStructure**, **FactoTasks** and **SolveTasks** compute these parameters
from the structure of the matrix the way the code does: the counters from
`browtab` (`solverBackupInit`, the forward half of `thread_ztrsm_dynamic`) or
from the number of blocks (the backward half), `taskcnt` from `dynamic_zpotrf`
and `dynamic_ztrsm`, the contributions from the loops of `cpucblk_zpotrfsp1d`,
`solve_cblk_ztrsmsp_forward` and `solve_cblk_ztrsmsp_backward` with their early
returns, and the slices in which the threads initialise the counters.
`browtab` is taken as sorted: the backward step in local mode stops at the first
block of the Schur complement. **DynamicSolve** runs the loop twice, for the
forward and the backward steps of `pastix_subtask_solve_adv`, in a mode of the
Schur complement that it chooses: one instance of DynamicLoop for each mode and step, and `NextStep`
between them, which starts the backward step with new queues, counters and `taskcnt`, whatever the
forward step left.

### Several processes

**DistStructure** is the matrix as every process sees it: its own column
blocks, its fan-ins (`CBLK_FANIN`) and its receptions (`CBLK_RECV`), in the
order of `cblktab`, with the number of contributions of each.

**CommEngine** is what the three sets of communication functions share: the
table of requests with the persistent reception in it, `Elect` (the try-lock
of `pastix_comm_tid`), `Snapshot` of `reqnum`, `Test` (`MPI_Testsome`),
`HandleRecv` and the handlers of the emissions, `Pack`, `Leave`, `Register` under
`reqlock` (an emission is posted before its request is in the table). MPI is external: `Deliver`
matches a message with the open reception, in order between two processes and
in any order otherwise; `SendDone` completes an emission, at any time, and at
the latest when its message is received.

**DistScheduler** adds the loops of `thread_*_static` (a list `ttsktab`; before a
column block, `cpucblk_zincoming_deps` waits for its counter and makes the
communications progress meanwhile) and of `thread_*_dynamic` (a queue; when it is
empty, progress, flush, steal).

**DistFacto** is the factorization on top of them: the update, the allocation of
a fan-in by the first thread that contributes to it, under the lock of the column
block (`cpucblk_zalloc`), its emission at the last contribution, the addition of
a received fan-in from the single buffer, the end of the tasks, the clean-up of
the requests. It is restricted to the static scheduler (`StaticAssumption`).
**DistSolve** is the two calls of `sopalin_ztrsm`: buffers allocated with a
compare-and-swap, solutions copied to be sent when there are several right-hand
sides, the fan-in of the backward step used by the thread that received it
(static) or queued as a task (dynamic), the `MPI_Barrier` between the steps.
**SeqSolve** is `sequential_ztrsm`: each process walks `cblktab` up and down, with
`MPI_Send` and `MPI_Recv`; `MPI_Send` may or may not wait for the reception.
**GatherSolve** is `runtime_ztrsm`, the solve after StarPU or PaRSEC: process 0
gathers the coefficients, solves alone, forgets them, and a reduction spreads the
vector. Both are pieces of a process's life: **TaskSolve** is the whole of it,
`pastix_task_solve`. The right-hand side is permuted and sent to the owners
of the column blocks, either between pairs of processes in a ring, with amounts
exchanged first and swapped for the way back (`StartDst`, `FillForward`,
`RecvData`, `FillBackward`), or, when all have it, by broadcasts (`StartRep`,
`BcastAmount`, `CollectRep`, `BcastData`); the solve runs in between. The messages of the
permutations and of the solve share the communicator, and their tags are the same
numbers. `pastix_subtask_solve_adv` times the solve with `clockSyncStart` and `clockSyncStop`, which are
`MPI_Barrier`s and actions of their own; an application that calls the subtasks
one by one, as `example/schur.c` does, has no barrier between the permutation and the solve. The variable `byParts`
chooses between the two, and every property is checked in both. There is one unknown per column block, and
one right-hand side; the entries of the vectors are `"b"`, `"y"` or `"x"` of a column
block, or junk.
**TriangularSolve** is what both owe: each column block solved once per step,
forward after every block that faces it, backward after its own blocks, and
each block applied once, with a solution that is ready.

### The queue, the API

**PQueue** is the binary heap of `kernels/queue.c` at the level of the
iterations of its loops, under its spin lock; the table grows, and keeps what
lies beyond `used`. **MinQueue** is the promise: a bag from which one takes an
item that no other precedes.

**ApiSteps** is the mask `pastix_data->steps` and the structures it vouches for,
reduced to what they were computed from (the number of the ordering, the number
of the values of the matrix) and to which allocation they are (`heap`). Each task
and subtask is an operator from a `pastix_data` to the one it leaves, early
returns and return codes included; `SetScheduler` and `NewValues` are the
application between two calls. **OldApi** adds `pastix()`: the interval of tasks,
the copies it keeps of a right-hand side and of a solution. Where the code relies on
the application, `Prudence` names what the application abstains from:

* `"order"`: calling again an ordering that fails. The failed ordering leaves
  `STEP_NUMFACT` and the other bits, and an empty ordering
  (`order/pastix_subtask_order.c:345`): the next solve is accepted.
* `"values"`: calling `pastix_subtask_spm2bcsc` alone when the matrix is factorized:
  it changes the matrix in use and leaves `STEP_NUMFACT`.
* `"release"`: running the analysis again after a factorization by a runtime on
  one process. `solvmatr` and `solvglob` are then one matrix, which is released twice,
  while `solvloc` is lost (`blend/pastix_subtask_blend.c:175`).

Without one of them, TLC finds `StepsMeanData` or `SolverMemory` violated. They
are preconditions that no document states, and not findings: nothing in the
repository says that these calls work.

### The analysis

**SplitSymbol** cuts the supernodes that are too wide (`splitSmart`, with the three
ways to choose where, from the number of blocks that each line cuts) and writes
the matrix of the pieces (`extraCblkMerge`), whose size is counted beforehand.
**PropMap** is the proportional mapping: an operator from the structure and the
costs of the column blocks to their candidate cores, going down the elimination
tree. **SimuRun** is the simulation: `Start` (`simuTaskBuild` and the first
ready tasks), `MapTask` (`simuRun`'s loop body: a task that is queued goes to
one of its candidates, its contributions are taken off, those made ready are
queued), `Stop`. The dates are abstracted: any queued task may be the earliest.
**SolverGen** is `solverMatrixGen`: the first pass that gives numbers, the
second that writes the tables, the receptions that a process deduces
(`solver_recv.c`), `browtab` and its reordering. **Analysis** composes them as
`pastix_subtask_blend` does: the splitting, the simulation, then the generation by each
process. The simulation sees of a matrix which column blocks face each other, so the model begins
with this structure and chooses the matrix that has it when the generation reads the rows.

A definition preceded by "Mutant:" is a plausible mistake in the code it stands
for. No specification uses it; substituted for the definition that follows, it
breaks a property, which shows that the property depends on that piece of code.

## What TLC checks

| Run | Instance | Properties |
|---|---|---|
| `pool` | master and 3 workers, 2 calls of 2 phases, then the end; generation on one bit | `BarrierInv` (inductive), `BarrierSafe`: nobody returns from its n-th wait before everybody called it n times; `UnlockedWriteSafe`: no worker can read `status` while it is written without the lock; `EveryWaitReturns`, `ImplementsParallelCall`, `FinalizeReturns` |
| `dynamic_facto` | 5 column blocks, 2 of them in the Schur complement, 3 threads | `OnePlace`, `ComputedAfterAll`, `StopsWhenDone`, `StealsLiveQueues`, `ImplementsTaskDag`, `LoopTerminates` |
| `dynamic_solve` | the same matrix, 2 threads, the three modes, both steps | `ComputesInOrder`; `QueuesEmptyAtExit` (the assertion of `thread_ztrsm_dynamic`), although the Schur complement is dropped in one mode and only releases in another; both except in the forward step in schur mode, whose task count is short; `StepsTerminate` |
| `forward_schur` | the same, mode schur | `AppliesAllSteps`, **violated**: see below |
| `dist_facto` | 2 processes, 3 threads, 6 column blocks, 3 fan-ins, static scheduler | `RequestsTracked`: one thread of a process communicates at a time, and an emission is in the table once, whatever is packed or appended meanwhile; `FactoComputedAfterAll` across processes; `FactoCleanExit`: nothing in flight, nothing expected, the reception closed; `FactoTerminates`; `TypeOK` |
| `dist_solve` | 3 processes of one thread, 5 column blocks, static scheduler, one right-hand side | `StepsApart`: no process handles in one step a message of the other; `SentUnchanged`: nobody writes or frees what MPI may still read; `StepCleanExit`; `ImplementsTriangularSolve` |
| `dist_solve_dynamic` | 2 processes, one with 2 threads, 3 column blocks, dynamic scheduler, several right-hand sides | `SolveTerminates`, `ImplementsTriangularSolve` |
| `task_solve` | 4 processes, three that need each other in both directions and one without column blocks; 7 column blocks, 10 blocks; rows spread, all on the process without column blocks, or replicated; sequential solve, or solve after a runtime; `pastix_task_solve`, or its subtasks called one by one | `Answered`: a process returns with the solution in its rows, no message left for it, no fan-in and no foreign coefficient kept; `BlockingImplementsTriangularSolve`; `TaskTerminates` although `MPI_Send` and `MPI_Waitall` may wait for the reception, `MPI_Bcast` for all the others, and the two barriers around the solve |
| `pqueue` | 2 threads, 6 pushes, size 0 at first, any number of pops | `HeapOrder`, `ImplementsMinQueue` |
| `api` | 3 orderings, 2 analyses, 2 sets of values, the schedulers dynamic and parsec, every caution | `StepsMeanData`: each bit stands for data that are there and agree; `SolverMemory`: each solver matrix is released once, those in use never; `SameFamily`: with several processes, a factorization or a solve never runs on a scheduler of another family than its matrix was chosen for; `SolveAnswers`: a successful `pastix()` that solves returns the solution, and keeps no vector that a later call would take for its own |
| `api_refine` | the same | `RefineAnswers`, **violated**: see below |
| `analysis` | 354 matrices of 1 to 4 supernodes, split in 3 ways into 4 column blocks, with every structure of 4 column blocks; every cost out of two, on 6 cores of 3 processes; 2D tasks from width 3 | `SplitKeepsMatrix`: the pieces store the same coefficients, each once, their blocks fit what they face and the table counted for them, no piece is too narrow; `CandidatesNested`: the mapping gives a column block candidates among those of what it contributes to; `OneOrder`: the lists and the priorities of every process agree with one topological order; `AllMapped`; `MatricesAgree` |

`MatricesAgree` states, of the solver matrices that the processes generate each by
itself: that the numbers given by the first pass are the places of the second; that
`cblktab` and `browtab` are as DistStructure takes them, so that the distributed
models rest on what the analysis makes; that each update finds a column block and
a block with its columns and rows; and that the rows and columns of a fan-in
are those of the reception of its owner. `solverCheck` (`blend/solver_check.c`)
asserts part of it, on one process, and only with `PASTIX_DEBUG_BLEND`. Its order of
`browtab` (1D, 2D, then receptions) relies on the flag `CBLK_TASKS_2D` being
inherited down the elimination tree (`candSubTreeDistribFirstWidth`), which
`Tasks2D` models.

**Why these bounds.** The barrier needs three threads for one to be late while
two go round, and one bit is the worst case of the wrapping counter. Two calls
show the reuse of the pool after a call; two phases, a barrier inside the
function. The matrix of the dynamic runs has a column block that faces another
one twice (two blocks, two decrements), a column block that waits for two
others, ties in the keys, and a Schur complement of two column blocks, the
second of which gets contributions from the first; three threads let one steal
from another while the third pushes. In `dist_facto` process 0, with two
threads, sends two fan-ins, registered by one thread while the other tests,
allocates one of them in a race, and receives one back, which one of its threads
waits for; process 1 opens its reception twice. In `dist_solve` process 0 may be
through with the forward step while process 1 still waits for process 2: without
the barrier its backward messages would reach the open reception; one column block faces a block of its own
process and a fan-in, and so waits for two counts of different kinds.
`dist_solve_dynamic` has the race to allocate the buffer of a fan-in, queued
fan-ins and flushed counts. In `task_solve` each of three processes waits for each
other one in one step or the other, and some column blocks have two receptions;
their numbers are also the tags of the permutation; a process may be in the
solve, or out of it, while another is still exchanging rows when the subtasks are called one by one, and waits for it
at a barrier in `pastix_task_solve`. In `pqueue` the
table grows three times (0, 1, 3, 7) and the heap has three levels, with two
items of the same keys and two that differ by the second key only. In `api` two
analyses give a matrix to be replaced and its replacement; a third ordering is a
mistake made twice. In `analysis` six cores on three processes let a core, and a process, be
shared by two subtrees and a column block have candidates in two or three
processes; the widths give column blocks with several blocks facing one another,
empty intersections, and both kinds of tasks; with `BlColMin` = 3 and `BlColMax` = 4, a
supernode of 5 columns is left alone, one of 7 has one possible cut, one of 8 two,
one of 12 three splittings, and blocks face one, two or three pieces.
`MaxWaits`, `MaxCalls`, `MaxPush`, `MaxOrders`, `MaxAnalyses` and `MaxValues` are
the only bounds on behaviours.

**Fairness.** Each thread keeps running (weak fairness of its next step): the
operating system does that. The scheduler barrier, atomic in `DynamicLoop`,
lets everybody through when everybody has arrived, which `EveryWaitReturns` shows of
the real one. MPI delivers a message for which a reception is open, and
completes an emission, or returns from `MPI_Send`, whose message was received, and
returns from `MPI_Bcast` or `MPI_Barrier` when all the others have joined it;
nothing more, so that no property relies on MPI copying messages. Nothing obliges the
application to call the pool or the API, nor a thread to enter the queue. `PQueue`,
`ApiSteps` and `Analysis` state no fairness: their properties are about safety.

**Deadlock** is checked in every run: the last states stutter explicitly
(`Exhausted`, `Closed`, `Finished`, `Done`, `Generated`).

### What it found

**The forward step in schur mode.** In `PastixSolvModeSchur` the forward step of
the dynamic solve may stop too early. `dynamic_ztrsm`
(`sopalin/sequential_ztrsm.c:451`) takes the column blocks of the Schur complement
off `taskcnt` in every mode, and `thread_ztrsm_dynamic` computes and counts them in
that mode; `taskcnt` reaches zero when as many column blocks remain.
`include/pastix/api.h:263` says that this mode "applies all steps", the assertion
`computeQueue->used == 0` at line 416 fails on the way out, and both the other
schedulers and `dynamic_zdiag` (`sequential_zdiag.c:286`) handle the mode. The run
`forward_schur` exhibits the behaviour; theorem `ForwardCounters` shows that the
count is short of exactly the Schur complement, for every matrix.

**Refinement by a call of its own.** When `pastix()` solves in one call and refines in the
next one, the second call refines its own copy `x0` and then gives the
application its right-hand side back: `refineB`, copied to `b` at
`sopalin/pastix.c:455`, is `b` itself. The comment above says "Let's return the
solution to the user", and `example/old/step-by-step.c` makes exactly these calls.
A second refinement fails with `PASTIX_ERR_UNKNOWN`, as `x0` is gone. (The run
is `api_refine`.)

Modelling also settled, or brought up, smaller things:

* In interface mode the column blocks of the Schur complement that are dropped
  do not stay in a queue at the end: the thread that queues the first one pops
  it before it flushes the count of the task that released it, and the next
  ones, in a dense supernode, wait for contributions that never come. When the Schur
  complement is coupled with nothing else the first one is queued at the start; then the thread that brings
  `taskcnt` to zero takes it, as it goes round the other queues once more after its flush. Only when
  the Schur complement is the whole matrix does `taskcnt` start from zero: the first column block
  stays, and the assertion of line 416 fails. `QueuesEmptyAlways` is proved under exactly
  these conditions.
* The test `2*i == used` of `pqueuePop2` is redundant: the slot just past the
  items still holds a copy of the item that moves down.
* `pastix_subtask_reordering` checks no step and loses the return code of the
  symbolic factorization; `pastix()` ignores those of the solve and of the refinement.
* `simu_computeTaskReceiveTime` (`blend/simu_run.c:650`) does not demote the former
  latest fan-in to second latest, and `simu_computeFtgtCosts` reads
  `infotab[FTGT_PROCDST]` before it is set: only predicted dates depend on either.
* After a runtime, the vectors must be replicated, and there must be one right-hand
  side, for the solve on several processes to be right. `bvec_zallreduce` sums one
  column (`gNexp` entries) where `runtime_ztrsm` resets them all: the
  other columns stay null except on process 0, and the last broadcast of the
  permutation gives the null ones to everybody. With distributed vectors each process
  announces the columns of `solvglob`, all of them, so that all go to
  the last process while process 0 solves; the comment of
  `sopalin/sequential_ztrsm.c:616` speaks of both cases. TaskSolve is restricted
  to the case that works.
* `assert( lwidth > ctrl->blcolmin )` (`blend/splitsymbol.c:450`) fails for a supernode, or for what is left of
  one, of exactly twice `IPARM_MIN_BLOCKSIZE` columns, when that is more than
  `IPARM_MAX_BLOCKSIZE`: for instance when the two parameters are equal. Without the
  assertions the two pieces are right. In the same case only may `computeNbSplit` drop a piece.
* `blend/solver_matrix_gen_utils.c:523` stores the number of a task in `threadid`: with
  the dynamic scheduler, what a message makes ready may go to any queue, and
  the model lets it.

## What is proved

`tlapm` checks every theorem below from the module's assumptions on its
constants, all of them evaluated by TLC in the runs.

* **IschedProofs**, the barrier. `BarrierInvariant` (`BarrierSpec => []BarrierInv`) and
  `BarrierSafety`. Safety alone is not inductive: one needs that `curcount` counts
  exactly the threads whose saved generation is the current one and never all
  of them, that nobody sleeps on an old generation, and where each thread stands
  in its rounds. The last part is why a counter of two values is enough: a
  thread that was released is exactly one round behind. `PoolUsesBarrier`: every
  step of the pool is one of the barrier or leaves it alone (`Spec => BarrierSpec`), hence
  `PoolBarrierSafety`, for any number of workers, calls and phases.
* **IschedProofs**, the pool. A thread that the barrier has let through but that has not woken
  up still shows its old label. `Stands` says where it goes; seen there, all the threads
  are always between the same two barriers. The invariant `PoolInv` is the disjunction of
  these segments: the creation of the workers, the wait for a call, its start, each phase of it, the
  end. A worker reads `status` in some of them only and the master writes it without the lock in
  another one: `UnlockedWriteSafeAlways`. `PoolFollowsParallelCall` is the safety half of
  `ImplementsParallelCall`.
* **DynamicLoopProofs**, for every graph, number of threads, keys and initial
  distribution. The invariant `LoopInv` adds to the properties: the phases
  between the two barriers; what a thread holds at each place; that a
  contribution is applied by the thread which computed its source and is still
  in its list; that each counter plus the number of contributions counted down
  (`Released`) is its initial value; that the local counts stand for disjoint
  sets of computed column blocks (`fresh`), so that `taskcnt` plus the tasks
  flushed is its initial value. From it: `TypeCorrect`, `OnePlaceAlways`,
  `ComputedAfterAllAlways`, `StealsLiveQueuesAlways`, `StopsWhenDoneAlways` (if
  `taskcnt` starts at the number of tasks), and `FollowsTaskDag`, the safety
  half of `ImplementsTaskDag`. `QueuesEmptyAlways` has an invariant of its own, `LeftoverInv`: a dropped column block
  that was pushed is in the queue of a thread whose count is not flushed, and one that was queued at the start,
  once `taskcnt` is at zero, is ahead of a thief. Its hypotheses are that there is something to compute and that one
  dropped column block at most waits for nothing.
* **DynamicSolveProofs**, for every matrix: `FactoCounters`, `ForwardCounters` and
  `BackwardCounters` establish what DynamicLoop assumes (`CounterAssumption`) and
  what `StopsWhenDoneAlways` assumes of `taskcnt`; except in the forward step in
  schur mode, where the shortfall is computed. `ForwardLeftovers` is the last hypothesis of
  `QueuesEmptyAlways`: the Schur complement is dense. The proofs map the blocks facing
  a column block to the decrements of its counter, and use that the blocks of
  the column blocks are disjoint intervals.
  With them the solve as a whole: `SolveInvariant` says that the step which runs keeps `LoopInv` (and
  `LeftoverInv`) on the graph of its mode. Each of the six graphs meets the assumptions of DynamicLoopProofs, whose
  theorems are cited for it; across `NextStep` one needs what a finished step hands over to the next: no
  thread holds a column block or a list of contributions, and `threadid` is all that it keeps.
  Hence `ComputesInOrderAlways`, and `QueuesEmptyAtExitAlways`, which assumes that a column block at least is outside the
  Schur complement: without any, `taskcnt` is zero from the start, no thread looks at the queues and
  the assertion of `thread_ztrsm_dynamic` fails on the column blocks that wait for nothing.
* **SimuQueueProofs**, the simulation, for every set of structures, candidates, numbers of cores and
  processes. The invariant `SimuInv`: the counter of a column block is
  the number of contributions to it of column blocks that are not mapped
  (`Counts`), the heaps hold exactly the unmapped column blocks with none left, on each
  of their candidates, and the lists, the priorities and the order of mapping (`rank`)
  go together. `SimuOneOrder` follows. `SimuAllMapped` needs, besides, that the
  simulation cannot end early: among the column blocks that are not mapped, nothing
  contributes to the first one, which must then be in a heap. The theorems are about `SimuSpec`; a step `Simulate` of Analysis is a step of it.

* **SimuQueueProofs**, the priority queue, for every set of items and of threads, every size of the table and
  every number of pushes. Inside the lock the table is not a heap: `QueueInv` says that the thread
  which holds it breaks the order between the item that it moves and its father (up) or its sons (down) only,
  and that around this item the sons do not precede the grandfather (`Around`), without
  which the next exchange would break the order elsewhere. `HeapOrderAlways`; and
  `QueueImplementsMinQueue`, the whole refinement: the bag is counted by places of the table, so that an exchange is a
  bijection of the places, and the head precedes the rest because a smallest
  place that contradicts it has a father that does.
* **ApiProofs**, for every number of orderings and of sets of values, any schedulers
  and any order of the calls. `ApiInv` says of `pastix_data` that its matrix in use is
  one of the two it holds (`Pointers`), that a step is done only if those it needs are
  (`Bits`) and that the scheduler is of the family of the matrix (`Family`). Under
  the cautions one adds what the data behind each bit was computed from (`Means`), or that each
  allocation was released once if it is not in use any more (`Memory`). `SameFamilyAlways` and
  `SolveAnswersAlways` hold of any application; `StepsMeanDataAlways` has `"order"` and `"values"` as its
  hypothesis, `SolverMemoryAlways` has `"release"`: TLC shows that they fail without.
* **CommEngineProofs**, for any number of processes and threads, whatever the numerical
  function above: one lemma for each step of the engine preserves `EngineInv`, under what the caller says of the labels
  around it. The thread at the labels inside is the one that `pastix_comm_tid` names (`CommTid`);
  it handles completed requests among those it counted (`Counted`), which keep their places while
  others are registered behind them; no
  request is in the tables twice, nor both there and with the thread about to
  register it (`Distinct`, `PostedOnce`); an emission in progress is in one of these two places
  (`SentTracked`) and is not live any more once it was tested completed (`SentDead`); a process has its
  reception in its table as long as it waits for messages (`Reception`). The packing loop is a recursive function,
  and `Packs` is its loop invariant: it keeps the live requests, their order, and those registered behind it.
* **DistFactoProofs**, for every structure, any number of processes and threads and any valid lists
  of the static scheduler. The conjuncts of `FactoInv` follow
  * the threads (`StaticInv`): the column blocks of a list are computed up to the place
    where its thread is;
  * a contribution, through the labels of the loop that computes it: the sets `FreshEdges`, `LeftEdges`
    and `UnsentEdges` are those not yet computed, counted down, sent. Of the contributions to a fan-in
    that are not sent, one at most is counted down: the last one (`FanInInv`);
  * a fan-in: not sent, in the network, in the buffer of the reception, in the hands of a
    thread, one place at a time (`OnePlaceInv`), with all the contributions of its
    process (`MessageInv`);
  * the counters, which the code decrements at different moments from different threads,
    as the cardinalities of what has not passed yet: `incoming` (`IncomingInv`), `ctrbcnt` (`CounterInv`), while
    `outgoing` is at least the number of fan-ins not sent or in progress (`SendInv`).

  From it and `EngineInv`: `TypeCorrect` (no counter goes below zero),
  `RequestsTrackedAlways`, `ComputedAfterAllAlways`, `CleanExitAlways`.
* **DistSolveProofs**, for every structure, any numbers of processes and threads, any number of right-hand
  sides (`CopySent`), and both schedulers. `SolveInv` speaks of one step at a time, `Now`: as soon as a process is in the
  backward step, those that are not are at the barrier (`StepsInv`), and what each step did is at its initial or its final value.
  Within a step, it follows
  * the threads (`ThreadInv`): with the static scheduler what is solved is what comes before the
    place of the thread in its list (`InOrder`); with the dynamic one a column block in a queue is
    in one only and waits for nothing (`QueueInv`), and `taskcnt` plus the counts that the threads have not flushed is the
    number of tasks not done (`CountInv`, whose witnesses are the sets of tasks behind each count);
  * a block, through the loop of the thread that applies it: `FreshEdges`, `LeftEdges` and `UnsentEdges` as
    in DistFactoProofs, forward from the column block, backward from the solution it reads;
  * a remote column block, which is a sum of contributions forward and a solution
    backward: not sent, in the network, in the buffer of the reception (`Coming`), or in the hands of a thread
    (`Taking`), one place at a time (`OnePlaceInv`), with the right data (`MessageInv`, `FanInInv`); backward, with the dynamic
    scheduler, it may then be in a queue with its buffer full;
  * the counters as cardinalities: `incoming` counts what is `Coming`, `ctrbcnt` the blocks in `LeftEdges`
    and the messages `Awaited`; hence a column block is solved when nothing is left for it (`ReadyInv`), and
    `got` says whether a block is fresh or its message on its way (`GotInv`).

  The reception is open to any source, and `incoming` at zero closes it: that no message of the next step can reach it is
  `StepsApartAlways`, and rests on the barrier. `CleanExitAlways` comes from the counters: a process at the barrier
  has done its tasks, so nothing is unsent, and awaits nothing, so nothing is in the network.
  `ImplementsTriangularSolveAlways` is the whole refinement, one lemma for each action that solves (`Solve`), applies a
  block of the same process or a message (`Apply`); the other steps stutter. `SentUnchangedAlways` needs that an emission in
  progress is in the table of its sender, and that only its completion frees a buffer.

The induction theorems of the library have an operator as a parameter, which the provers cannot instantiate.
Where a proof needs an induction on numbers (the packing loop, the head of the heap, the first column block
that cannot be mapped) it takes the smallest counterexample, which exists because
`<` is well-founded on the naturals.

**Only model-checked.** Every liveness property and the fair half of every refinement: liveness and
`ENABLED` are out of the prover's reach. The solves with blocking messages: SeqSolve, GatherSolve and TaskSolve (`Answered`, `BlockingImplementsTriangularSolve`). In the analysis, what the splitting,
the proportional mapping and the generation of the solver matrices compute
(`SplitKeepsMatrix`, `CandidatesNested`, `MatricesAgree`) needs inductions along the
structure of the matrix, and PropMap uses RECURSIVE operators, about which the prover can say nothing: the
theorems about SimuRun rest on `CandidatesAssumption`, an assumption on its
constants which says of the candidates what the simulation needs of them.

## What is not modelled

* **The distributed factorization with the dynamic scheduler.** Its loop is DistScheduler's,
  which is checked with the solves, and its handlers are DistFacto's, which are checked with
  the static scheduler; the two together are not checked.
* **The numerical content**: kernels, low-rank compression, GPU kernels,
  refinement, the building of the blocked matrix and the products of `bcsc/`. They are sequential algorithms on floating-point data, called
  by the actions that are modelled; what matters here is when, how many times,
  and by whom they are called. The low-rank forms of a column block differ
  for the communications by the size of the messages, sent ahead of them:
  DistFacto has one message.
* **The solve after a runtime with distributed vectors or with several right-hand sides**
  (see above), and the permutation in place of one process (`bvec_zlapmr_shm`).
* **`dynamic_zdiag`**, which follows the loop of the solve without dependencies.
* **StarPU and PaRSEC**: their schedulers are external; the API's model keeps that they
  own the matrix differently.
* **The analysis before the mapping** (graph, ordering, symbolic factorization,
  reordering), sequential and without shared state; the cost model
  and the dates of the simulation, which only order its choices (the model
  takes every order); the nocrossproc option; `solverMatrixGenSeq`.
* **Failures** of allocations and of MPI: the code does not recover from them.
* **Weak memory.** Reads and writes are sequentially consistent. `taskcnt` and the
  counters are modified with atomic operations and read without.

## Plan

Done: the pool and its barrier, the dynamic scheduler on one process and its counters,
the factorization on several processes, the solves on several processes with the
three schedulers of PaStiX and after a runtime, the permutation of the vectors around them, the queue, the steps of the API, the splitting, the mapping and the
generation of the solver matrices.

Left, in order of interest:

1. the list of the Schur complement, from the user's numbering to the last column
   blocks of the matrix (`graph_isolate`, `order`), on which the Schur modes rely;
2. the exchange of the matrix when the input is distributed (`bcsc/`);
3. proofs: `Answered` of TaskSolve, whose processes are each in one of the permutations or in the solve,
   and the safety half of its refinement.
