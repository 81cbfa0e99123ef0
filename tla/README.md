# dgswem-v2 in TLA+

Specifications, model-checking configurations and machine-checked proofs for
dgswem-v2, a discontinuous Galerkin solver of the shallow water and Green-Naghdi
equations that runs serially, on MPI ranks with OpenMP threads, or on HPX.
Paths below are relative to `src/source/`.

Four things are specified:

- what lies around the numerical kernels: many submeshes step at their own pace, each needs boundary
  data of the *same* Runge-Kutta stage of its neighbours, and steps, stages, state slots,
  meteorological data, Newton iterates and output files have to stay in step with each other;
- the way from a mesh and an input file through the partitioner to the meshes of the parallel programs;
- the rules for wet and dry elements, in integers;
- the algebra of the hybridised discretizations: the Jacobians written out by hand, the condensing
  and assembly of the global system, the fluxes, in exact arithmetic.

## 1. The system

### Components

| Component | State | Operations | Where |
|---|---|---|---|
| OMPI communicator | per neighbour and message type a send and a receive buffer and a persistent request | `SetToSendBuffer`, `SendAll`, `ReceiveAll`, `WaitAllSends`, `WaitAllReceives`, `GetFromReceiveBuffer` | `communication/ompi_communicator.*`, `db_data_exchanger.hpp` |
| HPX communicator | one channel per neighbour and direction, values tagged with a generation number | `SendAll`, `ReceiveAll` (a future) | `communication/hpx_communicator.*` |
| OMPI simulation | units of a rank, their division among OpenMP threads | constructor, `Run`, `ComputeL2Residual` | `simulation/ompi/` |
| HPX simulation | one chain of futures per submesh | `Run`, `Launch`, `Step` | `simulation/hpx/` |
| Serial simulation | one unit | `Run` | `simulation/serial/` |
| RKDG / EHDG / IHDG shallow water | element, edge and boundary data; the global system for IHDG | `preprocessor_*`, `step_*`, `stage_*`, `*_solve_global_problem` | `problem/SWE/discretization_*/` |
| Green-Naghdi | the same and the dispersive correction | `step_*`, `dispersive_correction_*` | `problem/Green-Naghdi/` |
| Time steppers | step, stage, timestamp, time, coefficients; which half of a split step is running | `operator++`, `UpdateState`, `GetTimeAtCurrentStage`, archive | `simulation/stepper/` |
| Slope limiter, wetting and drying | averages, wet/dry flags | run after `++stepper` | `problem/SWE/problem_slope_limiter/`, `rkdg_swe_proc_wet_dry.hpp` |
| Meteorological parser | data sets by step number | `ParseInput`, interpolation | `problem/SWE/problem_parser/` |
| Writer | output frequencies | `WriteFirstStep`, `WriteOutput` | `simulation/writer.hpp` |
| Mesh generator | none | writes a mesh of triangles and its boundaries | `../mesh_generators/` |
| ADCIRC reader, mesh metadata | nodes, neighbours and boundary types of elements | `AdcircFormat`, `MeshMetaData`, `write_to` | `preprocessor/` |
| Input files | sections of a YAML file | `InputParameters`, `write_to`, problem inputs | `preprocessor/input_parameters.hpp`, `problem_input/` |
| Partitioner | submeshes and the faces between them | `partition`, `write_distributed_edge_metadata` | `../partitioner/` |
| Mesh and skeleton | elements, interfaces, boundaries, distributed boundaries, edges | `initialize_mesh`, `create_*`, `initialize_mesh_skeleton` | `preprocessor/`, `problem/*/problem_preprocessor/` |
| Basis, integration, shape functions, linear algebra | tables | evaluation | the rest |

### Interactions

A *simulation unit* owns one submesh with its stepper, parser, writer and communicator.
Units of different submeshes share nothing but messages over the faces between
them. A message is put into a send buffer by a kernel (`SetToSendBuffer`), sent by the
communicator, and read from the neighbour's receive buffer by a kernel of that
neighbour. There are three kinds in the explicit program: coordinates of barycentres
(once), boundary states (every stage), averages for the limiter (every stage), and
a fourth for the numbering of unknowns in the hybridised ones.

- **OMPI.** Ranks run at their own pace; within a rank the threads share nothing but
  the array of units. A thread runs *loops*, each over all its submeshes, in the order
  of `stage_ompi`: start receives and sends; local work; wait for receives and compute
  fluxes; and so on. MPI matches messages by (source rank, destination rank, tag).
- **HPX.** Each submesh is a chain of continuations; a receive is a future that becomes
  ready when all its channel values have arrived.
- **IHDG.** A step is a Newton iteration. Threads of a rank meet at OpenMP barriers;
  thread 0 assembles the system of the rank and calls PETSc, collectively over ranks.
- **Serial.** One loop; the interest is in the stepper, the parser and the writer.
- **Files.** The partitioner reads the input file and the mesh, writes for every submesh a part of the mesh
  and a list of the faces it shares, and an updated input file. Each rank reads the files of its submeshes
  alone; that the i-th face of one list is the i-th face of the other is never checked at run time.
- **Edges.** In IHDG and EHDG elements see each other through a trace on the edge between them. The two sides
  of an edge count its quadrature points in opposite directions.

### What is hard

Interleavings of threads, ranks and chains; messages of several kinds and stages in
flight between one pair of submeshes; buffers written while a send still reads them;
waiting for a neighbour that is served by the same thread; barriers and collective
calls that must be met by all; exceptions and NaN aborts of one submesh; generation
numbers that wrap around; cached data sets that are erased while still needed; two processes that
build the two sides of one face from different files; pages of derivatives no test compares with a difference quotient.
`PROJECT.json` lists each hazard with its line and the properties aimed at it.

### What makes it correct

- Every flux and limited slope uses the neighbour's data of the same stage.
- MPI requests are started only when inactive, buffers are left alone while a send
  reads them, and nothing is in flight at the end.
- Neighbours drift apart by a stage at most; queues and channels do not grow with the run.
- Every run ends, except by an exception or an abort.
- Every linear system consists of one contribution of each submesh to one iterate, and
  every increment is applied once everywhere.
- The slot a kernel reads holds the newest state, at the time the stepper claims; the
  parser holds the data sets around it; output files hold the state of their number.
- The meshes of the submeshes make up the serial mesh, and the messages of neighbours fit.
- Water is neither made nor lost in a mesh; both sides of an edge agree on the flux; a Newton update solves the
  linearised equations of the scheme and not some other system.

## 2. The modules

| Module | Specifies | Composition |
|---|---|---|
| `SubmeshGraph` | which submeshes are neighbours (constants and their assumption) | |
| `NeighbourSync` | what both communication layers promise: in every round a submesh publishes once and takes the same round of each neighbour once | abstract |
| `OmpiCommunicator` | the communicator and the part of MPI it uses | |
| `OmpiThreads` | division of a rank's submeshes among threads | extends `OmpiCommunicator` |
| `RkdgOmpi` | the MPI program from preprocessing to the last step | extends `OmpiThreads`, implements `NeighbourSync` |
| `HpxCommunicator` | channels and generation numbers | |
| `RkdgHpx` | the HPX program, with exceptions and termination | extends `HpxCommunicator`, implements `NeighbourSync` |
| `NewtonIterates` | numbers of Newton iterates | |
| `GlobalProblem` | what the implicit solver promises: one system per iterate for the whole mesh | extends `NewtonIterates`, abstract |
| `IhdgOmpi` | the implicit MPI program: numbering of unknowns, barriers, master sections, collective solve, limiter | extends `ExchangeLoops`, `GlobalNumbering`, implements `GlobalProblem` |
| `ESSPRKStepper` | operators: coefficients, clock, update of the state slots | |
| `MeteoParser` | operators: which data sets are loaded, kept, created | |
| `RkdgSerial` | the serial loop with stepper, slots, parser and output | extends both |
| `GnSerial` | the serial Green-Naghdi step with `SecondStrangStepper` | extends both |
| `GlobalNumbering` | operators: the numbers of unknowns of edges within a submesh, a rank and the mesh | |
| `ExchangeLoops` | operators: loops that threads run over their submeshes, as lists of entries | extends `OmpiThreads` |
| `GnOmpi` | the Green-Naghdi MPI program: a split step with two rounds of derivatives, the dispersive system and the EHDG stages | extends `ExchangeLoops`, `GlobalNumbering` |
| `WetDrying` | operators: the wetting and drying kernel on one triangle, in integers | |
| `RkdgKernels` | the kernels of a stage on a mesh: flux rules between wet and dry elements, update, wetting and drying, averages for the limiter | extends `WetDrying` |
| `QuadMesh` | operators: the mesh generator | |
| `AdcircMesh` | operators: the ADCIRC reader and the metadata files | |
| `Partitioner` | operators: the files of every submesh for a given result of METIS | extends `AdcircMesh` |
| `InitializeMesh` | operators: interfaces, boundaries, distributed boundaries and edges of a mesh | extends `AdcircMesh` |
| `InputFiles` | operators: reading and writing of input files | |
| `MeshSetup` | the serial program, the partitioner, and the ranks that construct their units, each in its own time | extends the three above |
| `Residues` | arithmetic modulo the square of a prime, vectors and matrices, inverse and elimination | |
| `ShallowWater` | operators: fluxes, Jacobians, upwind matrices, stabilisation and their derivatives | extends `Residues` |
| `HdgKernels` | a stage of IHDG and of EHDG, and the starting trace of IHDG, kernel loop by kernel loop | extends `ShallowWater` |
| `MC*` | values of the constants for TLC | |
| `*_proofs` | theorems, see section 4 | |

### Correspondence with the code

*Control.* In `RkdgOmpi`, `at[u]` names the loop a submesh runs next, and an action is
one loop body: `Exchange` is the body of the first loop of `stage_ompi`
(`ReceiveAll`, `SetToSendBuffer`, `SendAll`), `Receive` the third with `UpdateState`
and `++stepper`, `Sl*` those of `CS_slope_limiter_ompi`. `Turn(u)` is the
order of the loops of one thread: a submesh enters a loop body only when the submeshes
before it have left that loop and those after it have left the one before. `RkdgHpx` has one action per
continuation. `IhdgOmpi` keeps the program counter per *thread*, because barriers
and the master's loops over submeshes of other threads belong to threads.
`RkdgSerial` and `GnSerial` have one action per call in the loops of `Run` and
`step_serial`.

*Data.* A message is known by who wrote it, for whom, of which type and at which
timestamp of the stepper. That is enough to tell fresh data from stale,
misdirected and mistyped data. Variables keep the source's names (`q_ex`,
`q_at_baryctr_neigh`, `baryctr_coord_neigh`, `global_dof_indx`, `node_meteo_data_step`).
In the serial modules a state is the number of updates it went through and the time
each part of the equations has advanced it to, i.e. the solution of y' = 1; coefficients
are integers in units of 1/12, exact for the schemes used.

In `RkdgKernels` a stage is four actions: `Kernels` (the loops that add to `rhs`), `Update` (`UpdateState`
and `++stepper`), `WetDry` and `Limit`. The state of an element is its depth and one momentum
component at the three vertices and its wet flag. Which fluxes reach which element, what the wet flags
forbid, the whole wetting and drying kernel and which averages the limiter sees are as in the code. The value of
an LLF flux, of boundary data and the shape a solution takes within an element are any of a small set.
A distributed interface is an interface whose two sides compute their flux separately, and a side overwrites its
limiter slot from the message whether it is wet or not; `WaterKept` and `SidesAgree` say that the separate computations agree.

In `GnOmpi` the program of a thread is a list of entries, each a loop over its submeshes, a barrier or a part of a
master section; `pc` is the place of a thread in the list and `su_id` the submesh its loop is at. A thread without
submeshes passes its loops on the way to the next barrier.

In `MeshSetup` the serial program (`RunSerial`), the partitioner (`Partition`) and the constructors of the units
(`ConstructUnit(r)`, the next unit of rank r) are actions; what each of them computes is an operator of `AdcircMesh`,
`Partitioner`, `InitializeMesh` or `InputFiles` that has the name of the function in the code. A file is what a reader gets out of it. METIS is external and returns any assignment. Exceptions give the
empty set and end the program. Names of nodes and keys are kept, coordinates, depths and values at boundaries are left out,
except for the heights of levees, which are known by their pair of nodes.

In `HdgKernels` an action is one loop over elements or edges: `LocalElements`, `LocalEdges`, `GlobalEdges` and
`IntegrateEdges` are the kernel calls of `stage_serial`, `Invert` to `UpdateIterate` the parts of `*_solve_global_problem`;
for EHDG `GlobalSides`, `EdgeKernels`, `EdgeIteration` (the n-th iteration of every edge whose loop still runs), `NumericalFlux`, `LocalStep`. Numbers are residues
modulo the square of a prime P of the form 4k + 3 (`Residues`). Multiples of P are infinitesimal: f(x + P d) = f(x) + P d f'(x) holds exactly
for every f built from the operations of the code, so that a derivative is compared with one difference
and no tolerance, and an identity that fails as a rational function fails at most points. Squares play the positive numbers, which gives `sqrt`, `abs` and `sign` their
algebra; there is no order and no rounding, and a depth that is no square is treated as what the code meets with a
depth that is not positive: a NaN, and the abort of `scrutinize_solution`.

*MPI* is modelled from how the code uses it: persistent requests, envelopes, non-overtaking
matching, a send buffer that is read at any moment between the start of the send
and its completion, and a send that may complete before (eager) or only when the
receive is matched (rendezvous). *HPX channels* deliver values at any time after
`set`, in any order, and give a `get` the value of its generation; setting a
generation that is already set is an error.

*Errors.* `MPI_Abort` on a NaN (`scrutinize_solution`) stops every rank at once;
`hpx::terminate` likewise. An exception in a chain of futures ends that chain only,
unless its continuation does not ask for it.

## 3. The runs

| Run | Instance | What it shows |
|---|---|---|
| `rkdg_ompi` | chain a-b-c, rank 0 owns a and b, rank 1 owns c; two threads per rank, one idle; 2 steps of 2 stages; wetting-drying, limiter, NaN | `TypeOK`, `RequestDiscipline`, `FreshData`, `MpiCorrect`, `SendBufferStable`; implements `NeighbourSync` (`SyncSpec`); `Termination` |
| `rkdg_hpx` | triangle, 3 steps of 2 stages, generation numbers modulo 8, wetting-drying, limiter, NaN, any submesh may throw | `FreshData`, `NoChannelError`, `ChannelBound`, `SyncSpec` until one fails, `Termination` unless one fails |
| `rkdg_hpx_launch` | a, b neighbours, c an island | **violated**: `NoStageAfterException` |
| `ihdg_ompi` | chain, two threads per rank, one idle; 2 steps of up to 2 iterates, limiter, NaN | `NumberingCorrect`, `MasterAlone`, `LockStep`, `FreshData`, `MpiCorrect`; implements `GlobalProblem` (`NewtonSpec`); `Termination` |
| `gn_ompi` | chain, two threads per rank, one idle; two split steps, limiter, NaN | `FreshData`, `OneSystem`, `MpiCorrect`, `Termination` |
| `rkdg_serial` | 5 steps; four schemes; parse frequency 0-3, output frequency 1-3; any one data file missing; 4-bit unsigned numbers | `CurrentState`, `MeteoLoaded`, `OutputComplete` |
| `gn_serial` | 4 steps; the same schemes and parse frequencies | `SplitInStep` |
| `rkdg_kernels` | three elements in a row, the last behind a distributed interface; sloping bed, land at two elements, an inflow at the third; fluxes -3, 0, 3 through every side; still or tilted water, 4 or 7 deep at first, 10 at most | `TypeOK`, `WettingDryingSound`, `WaterKept`, `DryKeepsWater`, `LimiterFresh` |
| `mesh_setup` | four generated rectangles of two cells (every pattern, every kind of side), a levee, an island, and one cell with about forty input files; every partition into at most three submeshes on two nodes of two ranks | `SerialMesh`, `SameAsSerial`, `MessagesMatch`, `SameParameters` |
| `hdg_kernels` | a chain of three elements, the second edge between elements within a submesh or between two; a wall and an open boundary; two points per edge; 88 sets of data; at most two iterations; modulo 19 * 19 | `UpwindSplit`, `FluxConserved`, `NewtonUpdateExact`, `EdgeUpdateExact` |
| `rkdg_serial_stage_time` | 1 step | **violated**: `StageTime` |
| `gn_serial_meteo` | 4 steps | **violated**: `MeteoLoaded` |

Deadlock is checked in every run but the two of HPX, where the neighbours of
a submesh that threw wait for ever: that is what the program does.

What a wider instance of an earlier run would show is contained in a stronger property of these. `NeighbourSync`
as a property bounds how far neighbours drift apart (`BoundedSkew`, proved for every mesh) and admits no unexpected message of
another round; `GlobalProblem` as a property says that every system is made of all contributions to one iterate.

**Why the bounds are enough.** The programs are periodic in the stage; what can go wrong
involves a stage and its successor, so two stages and two steps (the second step is the
first one entered from an output loop) show every adjacent pair of exchanges. A third
step makes HPX's generation numbers, 3 x timestamp + type, wrap around at 8 twice. Three submeshes
in a chain have the two cases that matter, a neighbour on the same rank and
one on another rank, and an indirect neighbour; the triangle adds that two neighbours race for one submesh. Two threads on rank 0 and an
idle one on rank 1 give a thread one submesh or none; the master's loops go over two. Two Newton iterates and two
steps have every pair of consecutive iterates, within a step and across. Two split steps make two corrections, the second from a system that was used before. A split step of Green-Naghdi has two rounds of
derivatives of one message type after another, and shallow water stages before and after. Five steps with
frequencies up to three load, use and erase data sets more than once and pass the
first interval, where `step - frequency` wraps around. Three elements in a row have an interface, a distributed
interface, an element between both kinds, and every combination of wet and dry neighbours; with h_o = 4 and a tolerance of 1 the still and tilted
depths put none, one, two or three vertices below the threshold, above and below the average, and a
flux of 3 wets or dries an element in one stage. The tilt is a multiple of three, so that the divisions of the kernel are exact
where a property speaks of conservation. `WaterKept` checks conservation to the unit.

Rectangles of two cells have every pattern, interior and boundary faces and a corner where boundaries meet; the levee has two
faces, hence an order of its heights; the island is a closed boundary inside another one. With four to six elements every partition into
three submeshes is tried, with submeshes that are not connected, empty ones, several on a rank, and ones that share several faces.
The input files leave out one section or one key each, or have one malformed entry.

In `hdg_kernels` the data are drawn without a pattern. A wrong sign, index, factor or missing term is an identity
that does not hold, and one sample in 19 at most would hide it in one component; there are 62 updates, and 48 rounds of iterations on edges. `AnyState` has arbitrary values, where a Newton
step never converges; there every edge takes at least one iteration from arbitrary values, and what the sea has at this stage and at the next differs, so that `EdgeUpdateExact` and `NewtonUpdateExact` tell the two times apart;
`NearUniform` has values an infinitesimal apart, so that loops converge in one or two iterations and what follows them is reached; `FromStart` begins with the trace
of IHDG. P = 19 is large enough that few samples end with a depth that is no square in the first iteration,
and small enough for products to fit the 32-bit integers of TLC. `FluxConserved` speaks of edges whose loops have converged: those that ended
after their last iteration have fluxes that do not agree, and the code says nothing of it.

**Fairness.** Only `Termination` uses it. It is the weakest that makes sense: the program as a whole does not stop while
one of its submeshes, threads or messages can go on (OpenMP threads are operating-system threads, HPX runs every ready
continuation, MPI and HPX deliver what was sent). That is `WF_vars` of the disjunction of all steps; in `IhdgOmpi` and `GnOmpi` it is written out (infinitely many steps, or infinitely
often no step enabled), which TLC evaluates faster. It is enough, as every step of these programs leads nearer to the end: a run cannot
go on for ever without all of its threads. No fairness is assumed
of choices inside an action, such as whether a solution blows up or converges.

**Each property has a mutant**, a plausible wrong form of a definition, for instance a wait
for the wrong message type, a tag without the receiver, a missing barrier, a system that is not zeroed or a
swap that is forgotten, that TLC finds to violate it. `PROJECT.json` lists them; they stand in the
modules as definitions marked "Mutant" and are used by no specification.

### Disagreements found

1. `simulation/hpx/simulation_hpx.hpp:95`: the continuation that launches a submesh
   ignores its future, so an exception of the preprocessor is dropped and the submesh runs
   on half-initialised data (`rkdg_hpx_launch`).
2. `simulation/stepper/explicit_ssp_rk_stepper.cpp:263`: the recursion for `crk` never fills its
   diagonal, hence `drk` is zero and `GetTimeAtCurrentStage` is the start of the step at
   all stages (`rkdg_serial_stage_time`).
3. `problem/SWE/problem_parser/swe_parser.hpp:103`: with a split stepper and a parse frequency
   of two or more, a half step erases a data set that the dispersive
   step still interpolates (`gn_serial_meteo`).

Not a run but visible in `GnSerial`: `SecondStrangStepper::GetTimestamp` is that
of the current sub-stepper and falls back to zero in the first step, although the interface calls it the
total number of stages (`general_definitions.hpp:255`).

Observations that contradict no document of the repository but that a reader of the models will come across:

- The derivative of the source (depth times slope of the bed) is missing from `delta_local`, and the derivative of the state beyond an outflow
  boundary from `delta_global`. Newton's method is exact for the scheme in which these two are held at the last
  iterate, which is how `NewtonUpdateExact` and `EdgeUpdateExact` state it; convergence is linear where they matter.
- The Newton loops of IHDG and of every edge of EHDG end silently after 100 iterations.
- The condition on the trace of an open boundary has |A| for its matrix, which is singular where nothing moves along
  the normal (`ihdg_swe_bc_function.hpp:197`); a start from rest divides by zero. `NearUniform` at rest therefore has walls at both ends.
- On an edge with a jump in the bed the pressure uses the depth of the interior side and velocity and wave speed the mean of both sides.
- With the second-order scheme the explicit part uses the trace as Newton's method left it, and the elements as the slope limiter did.
- The partitioner compares the problem's name with "swe" (`partitioner.cpp:73`), which is none of the names of
  the programs, so that its weights for dry elements are never used.
- Islands (IBTYPE 1, 11, 21) are read, but `AdcircFormat::get_ibtype` has no case for them: a mesh with an island ends every program with an exception.

## 4. Proofs

All proofs hold for every value of the constants that satisfies the named assumptions: finitely
many submeshes, an irreflexive and symmetric neighbour relation, submeshes of a
rank numbered from 0 without gaps, at least one thread per rank. Further hypotheses are named below.

### The abstract specifications

Each is proved about beside a program that implements it, as an instance with variables of its own: `NeighbourSync` in `RkdgHpx_proofs`
(`Rounds`), `GlobalProblem` in `IhdgOmpi_proofs` (`Problem`).

- **`NeighbourSync`**: `Inv` is inductive. It says that a submesh takes what it has published
  before it publishes again, and that what it has taken its neighbours have published; the second
  part is what makes it inductive, as `Consume` looks at neighbours only. `RoundsInOrder` is that invariant; from it
  follow `BoundedSkew` (neighbours a round apart at most, two rounds
  outstanding at most) and `NoRoundLost`. Skew is bounded on every mesh, not only on
  those TLC ran; by the refinements below that is so of both explicit programs.
- **`GlobalProblem`**: `Inv` is inductive (`SystemsInOrder`): a submesh has contributed to the iterate last solved,
  or to the next one after having applied the last increment. `IteratesTogether` and `EveryIncrementApplied` follow.

### Programs that exchange messages

- **`OmpiThreads_proofs`**: `WorkSplit`, that rounding up `sim_per_thread` and capping the end gives every submesh
  to exactly one thread, for every number of submeshes and threads. The rest are the lemmas on the communicator that the
  MPI programs share: what an exchange, a wait and a step of MPI do to buffers, requests and the messages of one rank boundary.
  `FewSubmeshes`, a hypothesis of every theorem about messages, says that the tag tells the boundaries between two
  ranks apart: submeshes of a rank have numbers below the range of the unsigned shorts a tag is made of. With more, boundaries share a tag, and a message may be
  taken for that of another boundary.
- **`RkdgOmpi_proofs`**: `TypeCorrect` and `RequestsDisciplined` need no hypothesis: an active request of a type implies
  that its owner stands between the loop that starts it and the loop that waits for it. `BuffersStable`, that no send buffer
  is written before the wait, follows step by step, because the loops that write a buffer are outside that stretch.
  `Freshness`, `MpiUse` and `Implementation` (of `NeighbourSync`) rest on an invariant about every pair of neighbours:
  `InOrder` (the messages on the way from u to v are exactly those u has sent since the last one v received, in the order sent),
  `OneReceive` (v has posted at most the one receive it waits for) and `Arrived` (a completed receive has brought the round v is in).
  All three are needed together: one envelope carries all types of message, so that the type and stage of a message follow from its
  place in the sequence alone, and that place from where both neighbours are, which `Chain` says of one submesh.
- **`RkdgHpx_proofs`**: for every mesh, number of stages and steps, order of delivery and pattern of exceptions, `Freshness`,
  `ChannelsSound`, `ChannelsBounded` and `Implementation` (as long as nothing has failed). The invariant says which generations of a channel are
  untaken, by where sender and receiver are; as they are less than five apart, a number with more than four values that wraps around names one of
  them (`UintRange > 4`). Here no hypothesis on the number of submeshes is needed: every boundary has a channel of its own.
- **The numbering of unknowns.** `GlobalNumbering` counts a sum as the cardinality of a set of pairs, so that
  the library's theorems on cardinality apply to it and no induction is needed. In `OmpiThreads_proofs` follow `SumSplit` (a sum over two disjoint sets),
  `SumsOfCounts` and `OffsetsAddUp`: the scan within a rank and the scan over ranks add up to the sum of the counts of all
  submeshes before this one in the order of `Owns`, which `OwnsOrder` shows to be total. `NumbersApart` then says that no number is used twice, and
  `NumbersTaken` that all of 0 .. N - 1 are, because as many distinct numbers below N as there are unknowns leave none out; `NumberingFromOffsets` puts this together.
- **`IhdgOmpi_proofs`**: four invariants, each resting on those before. `IInv`: the threads of a rank are between the same two barriers
  (`SamePart`), only thread 0 is in a master section, and all threads of all ranks have the same *goal*, the iterate they contribute to next.
  The goal makes it inductive: between the solve and the barrier after it threads are in different iterates, but their goals agree.
  `MasterSectionsExclusive` and `IteratesAgree` follow. `SInv` adds what has been
  condensed, assembled, solved and applied for every submesh, by the place of the thread that runs it, and gives `Implementation` (of `GlobalProblem`)
  under the hypothesis that there is a rank 0 that owns a submesh, from whose solution the mapping reads the iterate. `CInv` is the invariant of neighbours of `RkdgOmpi_proofs` (`Linked`) with, for every
  submesh, the requests, stamps and stored data that belong to the place of its runner (`UnitOK`), which during the numbering section is the master;
  `Freshness` and `MpiUse` follow, for any number of threads. `NInv`, on top of them, says what has been numbered in each phase of the master's
  section: counts before the gather, final numbers after the scatter, the neighbour's number on the other side once its message has been
  received. `EdgesNumbered` follows with the lemmas above.

- **`GnOmpi_proofs`**: the program of a thread is a sequence of places, joined from sections and repeated for stages and steps, so the proofs begin with what such
  a sequence is. `Follows` lists which entry may come after which; `Join` and `Repeat` say that joining and repeating paths gives a path, and
  `Path` that the whole program is one. What a place is preceded by, or never followed by, is then a matter of cases (`Onward`), and never of
  the numbers of stages and steps. Four invariants follow.
  `TInv`, of the threads: no barrier is between two threads of a rank, and while its master is in a section of its own the others wait at the barrier after it.
  That gives every submesh one place (`Pos`): that of the master in a master section, else that of the thread that runs it, and the one after it once the loop there
  has been run for it. Each step is then one or more submeshes that go on to the next place (`Moved`).
  `CInv`, of the messages, is the one of the other MPI programs with one difference: as types, tags and timestamps repeat, a message is known by its round only, the
  number of sending places before it (`Rounds`), and stamped with the place that wrote it. `Freshness` and `MpiUse` follow.
  `SInv`, of the systems: no solve is between two submeshes of whatever rank (`SolveTogether`), and the system of a rank holds exactly the contributions of those
  of its submeshes that stand before the solve, each from the same number of places before (`Systems`). `NInv`, of the numbers, is that of `IhdgOmpi_proofs` by places; a
  number that was taken from a message was final, because the sender is past the place that sends the round. `Corrections` needs both: whoever has applied
  a correction has a solve behind it, and with `SolveTogether` so has everyone else, hence all have their numbers.
  Induction over places, which the library's theorems cannot be used for (they take an operator as a parameter), is the lemma `Induction`
  of `OmpiThreads_proofs` on subsets of Nat, which has a proof from least elements.

### Kernels, stepper and parser

- **`RkdgKernels_proofs`**: first the wetting and drying kernel, for all integer depths, momenta, beds and thresholds with 0 <= `h_o_threshold` <= `h_o`.
  `MidVertexValid`: in a partly dry element lowest and highest vertex differ, so `3 - max - min` is the third. From it `RedistributionKeepsWater`,
  `AssertionHolds` (the assertion `n_dry_vrtx < 3`: the average is above the threshold, the lowest vertex gets `h_o`, so another stays above)
  and `WettingDryingResult`, by cases on the branches of the kernel. `MomentumMoved`: no momentum is lost but to the rounding of the model.
  Then the mesh: `SidesAgree`, the flux rules of a distributed interface are those of an interface. `TypeOK`, `WettingDryingSound`
  and `DryGains` (what a dry element has been given in `rhs` is no loss) are inductive together;
  `TypeCorrect`, `WettingDryingCorrect` and `DryElementsKeepWater` follow. `DryGains` is needed because the update happens a step after the wet
  flags were looked at. `LimiterUsesFreshAverages` follows within one step. They hold for every mesh whose
  sides are its interfaces and boundaries.
  `WaterIsKept`, conservation on the whole mesh, needs more of the mesh: that an interface is one side of each of its two elements and of no
  other (`MeshAssumption`). `Losses` remembers over the step between kernels and update that what is in `rhs` comes from *one* numerical flux per interface and
  from the wet flags as they still are, and `WholeMeans` that no mean is rounded; it holds if it holds at the start (`WholeMeansAssumption`, a matter of the
  unit of depth, since the means of the code are not integers). Both are inductive with the rest (`KeptInv`).
  What is lost at the sides is summed up twice: by elements it is the change of the total (`SumOfRows`), by interfaces it cancels (`InterfacesBalance`, from
  `SidesAgree`), and what remains are the boundaries of wet elements. An element that nothing was added to keeps its water, though it has sides, because the guards of
  the kernels agree with the flags that the fluxes look at (`UntouchedLosses`).
  The sum of the library is a recursive function. `SumExists` makes a function that takes *any* element out, set by set, `SumRecursion`
  shows that the recursive one is the same, and the laws of sums follow by induction over finite sets, a lemma on families of sets (`SetInduction`).
- **`RkdgSerial_proofs`**: for every length and number of steps and all frequencies. `StateAdvances`: a stage carries the solution of y' = 1 from the
  times of the earlier stages to that of the next one, by cases on the four schemes. With it an invariant that gives the state of *every* slot up to the current
  stage is inductive; `CurrentState` speaks of one slot only, which a stage combines with the others. `SlotIsCurrent` and `OutputsAreComplete` follow.
  `MeteoIsLoaded` needs that memory holds exactly the two data sets of the interval of the step parsed last: then the erased key, step minus frequency,
  is that of an interval passed or, at the first step, names nothing, and the subtraction wraps around only there. It uses that a run has fewer steps than an unsigned number has values, and
  `StagesAtStep`, that the recursion for `crk` as it stands makes `drk` zero (see Disagreements).
- **`GnSerial_proofs`**: `SplittingInStep`, for every length and number of steps. Two parts of the equations advance the same slots, so a stage has to
  do two things, which `NextClocks` says at once: the rates carry the clock of the part that is updated to the time of the next stage, and the clock of the other
  one stays, because a row of `ark` adds up to one. Both follow from `RowSums`, by cases on the ten rows, and a sum that is linear in the weights. The
  invariant says it of every slot up to the stage of the current stepper and, as the flags and the loops of `step_serial` count the halves of a step apart from each other, that
  both are at the same one (`FlagsOK`, `LoopsOK`): the flags alone tell that the shallow water part is level with the dispersive one, half a step ahead of it or half a step behind.

### Only model-checked

- The way from files to meshes (`MeshSetup`): joins and folds of sequences of faces.
- The algebra of `HdgKernels`, whose numbers are residues: a matter of evaluation.
- Liveness (`Termination`), which is beyond the prover, as is ENABLED.

## 5. Abstractions, and what is not modelled

- Kernels are reduced to the data they exchange and the updates they make. Elements of a submesh go through the same
  loops, so one stands for all.
- `ParseInput` and output files are left out of the parallel programs: they touch no message. `RkdgSerial` has them.
  `ComputeL2Residual` and `MPI_Finalize` come after the last step and are left out.
- Submeshes have at least one neighbour in the MPI models; without one the code indexes empty vectors
  (`communication/ompi_communicator.cpp:22`).
- In `IhdgOmpi` every edge has one unknown, the inner edges of a submesh are one block, the collective
  calls of the solve are one joint step (no rank leaves them before all have entered), and the
  solution is known by the contributions it solves.
- Eight of the twelve Runge-Kutta schemes have decimal coefficients and are left out; so is the ramp.
- `HdgKernels` has one basis function per element and per edge and one point within an element, so that the numbering of
  degrees of freedom within a block and the ordering of blocks of several functions are not covered; all loops run one after another (their interleaving is the
  subject of `IhdgOmpi` and `GnOmpi`). Tide, Flow and Levee conditions of these discretizations are empty in the code
  ("something to implement in the future"). Friction, wind, pressure, tide potential and Coriolis are one prescribed source. The slope limiter is left out: Init allows
  whatever it may have made of the elements.
- `MeshSetup` has linear elements (two points per face), no coordinates, and one forcing entry per boundary node. The weights of elements, node
  files of the load balancer and VTK output are left out.
- `RkdgKernels` has one stage per step, linear elements of equal area and depths in whole units, wetting and drying and the limiter switched on, no levees, no
  source of mass (`function_source`), and fluxes of the two sides of an interface that are opposite, which is so when the factor `sp` of the spherical projection is 1
  (`rkdg_swe_LLF_flux.hpp:55`). It does not follow the momentum flux.
  Of the momentum that is moved between the vertices of an element `MomentumMoved` says that it is kept up to the rounding of the model; no run checks that.
- Where the average depth of a partly dry element is below `h_o`, the code levels the water and picks the deepest vertex by the depths before
  (`rkdg_swe_proc_wet_dry.hpp:120`), as `WettingDrying` does. No property says which vertex it should be, since nothing in the repository does: `WettingDryingSound`
  holds for each of them.
- `GnSerial` assumes that all data files exist; `RkdgSerial` has the missing file.
- Not modelled, for reasons given in `PROJECT.json`: quadrature rules, basis and shape functions (tables; what could be said of them is a
  numerical identity per entry), values of tides and inflows, the HLL flux, initial data, the wrappers of linear algebra, the load balancer interface
  (unused in this commit), the dispersive kernels of Green-Naghdi (only their exchanges and their solve) and EHDG on HPX.

## 6. Plan

1. *Done*: the explicit MPI and HPX programs and their kernels, the implicit and the Green-Naghdi MPI programs, the serial steppers and parser,
   mesh, input files and partitioner, the algebra of IHDG and EHDG, the abstract specifications, and the proofs of section 4.
2. Levees (on interfaces and distributed) and the switches of a stage in `RkdgKernels`; the choice of the limited
   slope; EHDG on HPX; the dispersive kernels of Green-Naghdi on `Residues`; several basis functions in `HdgKernels`.
3. Proofs. *Done*: freshness, use of MPI and of channels, and the refinements for the explicit and implicit programs; type correctness of the kernels and conservation; the serial
   program; the split step, freshness, use of MPI and the systems of the Green-Naghdi programs. *Left*: `MessagesMatch` for every mesh and partition.
