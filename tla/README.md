# A verification development for shyLab

shyLab computes compressible flows in two dimensions on a Cartesian grid. A time
step is a Lagrangian phase, in which the nodes move with the fluid, followed by a
projection back onto the grid. This directory holds a TLA+ model of the program,
the TLC runs that check it on small instances, and proofs, checked by TLAPS, of
what holds for every value of the constants. Line numbers refer to `src/src/`
unless another directory is named.

## 1. Inventory

`main` (shy.cpp:21-45) is one thread: `Load`, `Init`, `Run`, `Finalize` of one
object, `Simulation`. Threads exist only inside kernels, when they are built with
OpenMP (the default build is not). The build defines NDEBUG: no assertion runs.

| component | state | operations | interacts with |
|---|---|---|---|
| clock, timetables, events (clock.cpp, timetable.cpp, io/event.cpp, simulation.cpp:79-309, 476-515, 2037-2061) | the clock, the vector of events, a local clock in each | Load; two passes over the vector in Init; a pass at the end of every step; erasure during a pass | the loop of Run ticks the clock; executing events read and write the variable store |
| time loop (simulation.cpp:528-2061) | about sixty pointers, and the arrays they name | per step: time step, Lagrange phase, one or two projections, exchange of the pointers, density, outputs | calls the drivers with the pointers; the outputs see the arrays under their first names |
| grid and connectivity (grid/structured_grid.cpp, numerics/cartesian_connectivity.h) | nx, ny, the bounds | index maps between cells, nodes and faces | inlined into every kernel |
| Lagrange phase (numerics/lagrange_2d_*.cpp, kernel_lagrange_2d.c) | pressures, predicted velocities, Lagrangian energy and velocity | five kernels, one of them for the boundary; time-step kernels | reads the state, feeds the projection |
| alternating-direction projection, one material (numerics/ad_projection_2d_*.cpp, kernel_ad_projection_2d*.c) | fluxes, gradients, the projected state | about twenty kernel calls per sweep, each interior kernel followed by its boundary kernel | a sweep in x, a sweep in y, in alternating order |
| the same, two materials (ad_projection_2d_multimat_*.cpp, kernel_multimat_interface_2d*.c) | besides, masses, energies and fluxes of each material, the normal of the interface | each kernel once per material; two kernels that check and correct fluxes | replaces the sweeps; shares their kernels for what the materials share |
| direct and corner-flux projections (numerics/direct_projection_*.cpp, kernel_direct_*.c) | the same in both directions at once; fluxes through corners | one driver call per step | replace the alternating-direction one |
| variable database and store (variables/) | the ids of the names, one block of memory | declare, look up | fills the pointers of Run; Load, events |
| parameters, dump (numerical_params.cpp, physical_params.cpp, simulation.cpp:316-361) | parameters | load, save to dump.json | a restart |
| initialisation, outputs, formula parser (io/, math_parser.cpp) | none of their own | execute | the store |
| MPI halo exchange, unstructured mesh, Riemann solver, numerical_core.c, advection/, direct_euler/ | | | not called by Run |

What makes each of them correct, and what is hard about it:

* Events. Each event executes when its timetable says so, exactly once a pass, and
  only a finished one leaves. The vector is erased from inside a loop that cached
  its end: the order of the file, the window of another event and the C++ dialect
  decide what the loop visits.
* Time loop. No kernel may get an array twice (the arguments are RESTRICT) or an
  array of another step; the outputs must see the new state. Pointers rotate with
  periods 1, 2 and 3, differently for each field and each projection, through six
  hand-written blocks of swaps.
* Kernels. The interior kernel and the boundary kernel share the elements between
  them; each element must be computed exactly from its own neighbours, across a
  seam or a wall. Rows of n cells, n+1 nodes and n+1 or n faces use different
  strides. A tested grid that is square, or a flow that varies in one direction,
  hides a wrong index.
* Projection. What leaves one cell enters another; momentum, carried by the dual
  cells, must be moved by the same mass as the cells.
* Corner fluxes. They are subtracted and added in place, cell by cell, after the
  balance over the faces, and gathered again by nodes: two codes that must agree on
  which cell gives, for each sign of two velocities, on and off the seams. The first
  goes by the predicted velocity, the second by the one after the acceleration.
* Two materials. The materials have their own masses and one velocity: the fluxes that
  move it have to be the sum of those that changed the masses, corrected or not.
* Restart. A dump must restart the simulation that wrote it.
* Variable store. Two names, two arrays; no name, no array.

PROJECT.json lists the hazards line by line, each with the properties that watch it.

## 2. Plan

Done, in this order:

1. `Timetable`, `EventContract`, `EventScheduler` and its refinement; proofs.
2. `TimeLevels`: the pointers and arrays of Run; proofs.
3. `CartesianConnectivity`, `GridArrays` and its proofs, then the kernels:
   `LagrangePhase`, `ProjectionX`, `ProjectionY`, `DirectProjection`.
4. `HydroStep`: the Lagrange phase, both sweeps or the direct projection, and the
   exchanges of Run, in one behaviour, so that a driver starts from what the last one
   left.
5. `CornerFluxes`: the remap with fluxes through corners.
6. `MultimaterialSweep`: the sweeps of a mix and of two materials with an interface.

To come, the most important first:

7. The two-material drivers of the direct and of the corner-flux projection, most of
   them calls of the kernels that are there.
8. `VanLeer` and `TimeStep`: the limiter and the minimum as functions; the shared
   maxima of TimeStepSGPC with several threads.
9. `VariableStore`: ids, redeclared names, names that nobody declared.
10. `Dump`: Save and Load of the parameters, timetables and clocks, composed with
    `EventScheduler` for the restart.

Abstract specifications: the contract of the outputs (done); the grid without an edge
that the kernels implement (done as a reference definition, `Right`); a single "state
of step n" that `TimeLevels` implements. Theorems worth proving next: `FirstSweepRight`
and `EveryNeighbourRight`, which say of the projection what is proved of the Lagrangian
driver; the type invariants of `CornerFluxes` and `MultimaterialSweep`.

## 3. Modules

| module | models |
|---|---|
| Timetable | Clock::Update and Reset, Timetable::Happens and IsFinished |
| EventContract | abstract: when an output may execute, with no vector and no local clock |
| EventScheduler | Load's event list, both passes of Init, Run's loop and its pass |
| TimeLevels | Run's pointers, swaps, driver calls with the arrays they read and write |
| CartesianConnectivity | cartesian_connectivity.h |
| GridArrays | arrays over the grid, the reference they are judged by, parallel loops |
| LagrangePhase | Lagrange2dDefaultDriver and its five kernels |
| ProjectionX, ProjectionY | AdProjection2dMonomaterialXDriver, ...YDriver and their kernels |
| DirectProjection | DirectProjection2dMonomaterialDriver and its kernels |
| Sweeps | the kernels of both sweeps over one set of arrays |
| HydroStep | a whole step of Run with one material, composed of LagrangePhase, Sweeps and DirectProjection |
| CornerFluxes | DirectProjectionCornerFluxes2dMonomaterialDriver and its kernels |
| MultimaterialSweep | AdProjection2dMultimaterialMixXDriver, ...MixYDriver, ...InterfaceXDriver, ...InterfaceYDriver and their kernels |
| EventScheduler_proofs | proofs about the event list and its schedule |
| TimeLevels_proofs | proofs about the pointers of Run |
| GridArrays_proofs | lemmas on arrays, loops, the maps and stencils |
| Sweeps_proofs | lemmas on the kernels of the sweeps, for HydroStep and for MultimaterialSweep |
| LagrangeStep_proofs, HydroStep_proofs | proofs about HydroStep: the Lagrangian driver; mass, energy, the velocity and where the kernels store |
| CornerFluxes_proofs | proofs about CornerFluxes |
| MultimaterialSweep_proofs | proofs about MultimaterialSweep |
| MC... | constants for TLC |

### EventScheduler

State: `type`, `table`, `sim` (the file), `clock`, `local` (Timetable's local clock),
`slots` and `size` (the vector with its storage), `pc`, `cur`, `last` (the position of
BOOST_FOREACH and the end it cached); `mark` and `fired` are history. Actions:
`Visit` is one turn of a pass, with the three bodies `VisitPre`, `VisitPost` and
`VisitRun`; `EndPre`, `EndPass`; `Iterate` is a turn of the time loop up to its pass;
`Stop`; `Segfault` dereferences a null pointer.

An erasure assigns each element to the one before it and destroys the last. The slots
past the new end keep what that left there: the last pointer again, or null when the
dialect gives shared_ptr a move assignment. `MoveAssign` is the dialect; both are
checked. The physics is reduced to the dt it adds to the clock, times are small
integers, and what an event does is reduced to the clock at which it executed.

The code differs from its comments in four ways that the passing properties describe
rather than hide. The erased event is always the first of the list (`ListIsSuffix`),
not the finished one. The pass of a step executes PRE events too. Init advances the
local clock of a PRE event it executed by one instead of resetting it (`Lead`). An
event whose window opens after its first period never executes, because the period
is an equality (`Scheduled`).

### TimeLevels

`ptr` maps each pointer of Run to an array, `mem` each array to the field, step and
stage it holds. A driver call names the pointers it reads, each with the stage it
should find, and those it writes. If the arguments do not belong to one step, the
results are Garbage. `Exchange` is a block of swaps. All three models and the four
branches of the projection are there, unknown names with the branch they fall into.

In the mix model TimeStepSGPCMultimat reads two pressures that the default Lagrange
driver never writes: they stay those of the file. `TimeStepPressure` leaves the mix
out for that reason.

### GridArrays and the kernels

A value is the place it belongs to. `Computed` models a formula by its reads: each is
an array, the offset at which the scheme wants it, and the index the code computes. If
every read finds the value of the right place, folded across a seam or reflected by a
wall, the result is the value of its place; otherwise it is `Off`, or `Derived` if
only the values were wrong and not the neighbours. `Zero` is the 0 that the boundary
kernels assign, `Garbage` what memory held. Which arithmetic a formula does with its
arguments is left out, except that a limiter whose slopes are opposite gives 0
(`Mirrored`) and that a flux may cancel in a balance.

A parallel loop takes its rows in any order, one row a step; this includes the order
of the sequential build and any static or dynamic schedule of threads, because no row
reads what a row of the same loop stores. Boundary kernels are sequential and one
step. A driver with many calls is a sequence, `Driver`, of the arrays each call stores
into; `LoopRow` and `BoundaryCall` are a step of one.

`DxIsDy` says whether cells are square: the drivers of the sweep in y, those of two
materials too, pass dx for dy in one call, which only matters if they are not. The run
cell_height_y shows what it does there; the other runs have square cells, and the theorems
hold for both.

The kernels have flaws that the passing properties name and leave out, each a hazard
in PROJECT.json: gradients that nothing stores between walls, and those of row 0 in y
(`Unstored`); the four exceptions of the corner fluxes (`Misplaced`); the corrections
of a flux over a seam (`OverSeam`).

### HydroStep

`drivers` are the drivers of the step that have not returned: Lagrange, then X and Y or
Y and X by the parity of the iteration, or Direct. `Project` passes from the Lagrange
phase to the first of them; `SecondSweep` and `EndStep` are the two blocks of swaps of
Run. Only the state at the beginning of a step is given, and `agree` says whether its
velocities are the same on both sides of a periodic direction. No code sees to it
before the first step; `TwinsAgree` shows that one step does, with either projection
and in either order, so that every later step begins with `agree`. DirectProjection is
driven through the same arrays, and so are the kernels of the sweeps that it shares.

### CornerFluxes

Which cell a corner flux leaves depends on the signs of the velocities of a node, so
they are kept: `flow` gives them by whether the coordinates of the node are even or
odd. A node has two velocities with signs of their own. The scatter of mass and energy,
and the choice of the gradients, go by the predicted one; the gather of the momentum by
`u_lag` and `v_lag` (direct_projection_corner_fluxes_nodal_2d_computation.h:31), and the
acceleration between the two may stop a node, start it or turn it around. `ledger`
records what is added and subtracted in place, as entries: the element, the flux, the
sign and the node. Rows of the scatter change cells of each other; the default build
has no OpenMP, and a row is one step.

What the code does with two velocities is stated by `MomentumGoesWithLag`: the momentum
around a node is that of the fluxes of mass, each taken in the direction of `u_lag` and
`v_lag`. It follows the mass only where a node keeps its direction, which is the premise
`KeepsDirection` of `CornersBalance`; TLC finds the property violated without it. So a
uniform velocity need not stay uniform beside a node that the acceleration turns around
or stops; no document of the code says that it does. A node that it starts has the flux
0, but its twin on a seam does not: the kernel stores the 0 of a still node into one of
the twins only (kernel_direct_projection_corner_fluxes_2d_boundary_conditions.c:623), and
the gather takes what memory holds in the other one (`NearStaleTwin`).

### MultimaterialSweep

`TypeOfModel` selects the driver as AdProjection2dXDriver does. A mix has one mass, which
carries the concentration of the first material as it carries the energy; at the end
its temperature and pressure give the densities and energies of both. With an interface
each material has its own masses, energies and fluxes.

`mem` holds the arrays of the whole, `materials` those of each material, under the same
names, so that the kernels of `ProjectionX` and `ProjectionY` are instances over either.
`direction` is that of the sweep. PlaceInterface and the intersection of a line with a
rectangle are reduced to what they depend on: the normal (nine fractions), the fraction
and the volume of the cell that gives. `drained` lists the cells that give all they have
of a material through one face, which is when CheckDirectionalVolumeFluxes and
CheckDirectionalMassFlux correct a flux. The flux that both kernels read has one sign, so
only one of the two cells beside a face gives through it: `OneWay`. The code rescales
the fluxes of both faces of such a cell (kernel_multimat_interface_2d.c:1068, 1132); the
model corrects one, as nothing of the material passes the other. A cell drained through
both faces, and a face between two drained cells, are left out.

`MaterialsConserved` and `DualCellsBalance` are about the fluxes. ProjectDensityMultimat
then hands the mass of a material that has vanished from a cell to the other material
(kernel_multimat_interface_2d.c:1339), so that only the sum of both is kept there.

## 4. Runs

| run | question | bounds |
|---|---|---|
| event_list | list, visits, local clocks and the contract, while events are erased | 3 events, 4 timetables, iteration 0 or restart at 3 |
| event_move | the same in the other dialect; nothing erased; schedule; termination | 3 events, 6 timetables, 6 iterations |
| event_skipped (violation) | does a pass execute all that happens? | 3 events |
| time_levels | pointers and levels | all models and projections, 7 steps |
| time_density (violation) | do the outputs see the new density? | 3 steps |
| hydro_step | a whole step: every element right, never stored over, conservation, dual cells, twins | 2x2, 3x2, 2x3, 5x3, 3x5 cells, 4 boundary conditions, both projections, both orders |
| corner_fluxes | each corner flux leaves one cell and enters the opposite one; its momentum goes with `u_lag` and `v_lag`, and with the mass where a node keeps its direction | 2x2, 3x3, 4x3, 3x4 cells, 3 boundary conditions, 11 flows |
| multimaterial_sweep | a mix, and two materials with an interface: neighbours, conservation of each, dual cells, with corrected fluxes | 2x2, 4x3, 3x4 cells, 4 boundary conditions, 5 sets of drained cells, both directions |
| wall_momentum_x (violation) | does a uniform velocity along a wall stay uniform? | 3x2 cells |
| wall_gradient_x (violation) | are gradients at a wall stored before they are read? | 3x2 cells |
| seam_gradient_y (violation) | is the gradient of row 0 that of its own column? | 2x3 cells |
| cell_height_y (violation) | is the velocity on the boundary right on flat cells? | 2x3 cells |

Why the bounds are enough. Three events are a list with a first, a middle and a last;
a pass can erase all of them. The timetables include every way to happen (each
iteration, by period, by time), windows that end before, with and after the simulation
and that open late. Seven steps exceed the least common multiple, six, of the
rotations of two and of three arrays, from an even and from an odd iteration. Two
cells a side is the smallest grid the code accepts. A formula of a sweep reaches two
cells far: with five in its direction there are elements that touch no boundary.
Diagonals reach one cell: with three there is an inner one, and four by three tells
the strides apart, which is why nx and ny differ. The loops of the kernels are the same
for every row and column between the first and the last, and the theorems on the index
maps hold for every size. The eleven flows have every pair of signs, nodes that
meet and part, nodes that are still, and nodes that are turned around in either
direction, stopped or started; the drained cells lie in the middle and beside each seam.

Deadlock is not checked: Run leaves its loop and a driver returns, and the program
stops.

Fairness. Only `Terminates` needs it: WF_vars(Next). The program is one thread that
never blocks and takes its next step as long as it has one; nothing more is assumed.

Every property of a passing run has a mutant, a plausible mistake in the code that
makes it fail: an exchange written as an assignment, a forgotten swap, an end iterator
that is not read again, a face or corner left out, a twin taken for a neighbour.

What the passing runs of the kernels show: over every order of the rows, each kernel
takes the neighbours of its own element, the interior and the boundary kernels cover
the grid without meeting, and fluxes conserve mass, energy and momentum around the
seams, with the exceptions named in section 3.

### What the violations show

* event_skipped: simulation.cpp:2058 erases the first element when any is finished;
  the next event moves under the current position and is skipped in this step.
* time_density: Run recomputes the density through a pointer that after an odd number
  of steps is not the array the outputs read (simulation.cpp:1993).
* wall_gradient_x: with walls, the default, nothing stores the gradients of the first
  and the last column (kernel_ad_projection_2d_boundary_interface.cpp:75).
* wall_momentum_x: along a wall the mirrored fluxes have the wrong sign, so that mass
  changes without carrying momentum; in y it is the same.
* seam_gradient_y: `iy` for `ix` in row 0
  (kernel_ad_projection_2d_boundary_conditions.c:902, and 1578 for Rayleigh-Taylor).
* cell_height_y: dx for dy (ad_projection_2d_monomat_driver.cpp:383).

## 5. Proofs

`EventScheduler_proofs`, for any number of events, any timetables, time steps, start
clocks and either dialect, from `SchedulerAssumption` and `InfinityAssumption` (the
constants are sets of the right kind). `ListIsSuffix` is not inductive: an erasure
copies from slots about which it says nothing. `StorageInv` adds `StaleSlots`, the
slots past the end hold the last event or, in one dialect, null, and the bounds of the
cached end. From it follow `TypeCorrect`, `SuffixAlways` and `LiveVisits`.
`NothingRemoved` needs that the clock stays at most one past the last iteration;
`PostLocalClockHolds` needs, besides, that a pass leaves the local clock of an output
alone until it executes. `ImplementsContract` is the refinement: initial states map to
initial states, and every step is a step of `EventContract` or a stutter. A visit maps
to `Output` when an output executes, even if the same turn erases another event.

`TimeLevels_proofs`, for any models, projections, first iterations and number of steps,
from `LevelsAssumption`. `IInv` is `Typing`, `Pointers` (ptr is a permutation that keeps
the field) and `Phase` (for each pc, which pointers see which level). `StateIsCurrent`
says nothing about the middle of a step, so it is not inductive without `Phase`, which
also follows the pressures (`PressureOfStepBefore`).
One lemma per action proves that it preserves `IInv`; `ExchangePermutes` and
`StoredLevels` carry the common argument. `SlotsFollowSchedule` says which array holds
the new state after n steps: it needs `Turns`, how far each group of pointers has
rotated, modulo 1, 2 or 3, and `Fresh`, that the array a field of the state points to
was stored in this step. Theorems: `TypeCorrect`, `NeverAliased`, `StateAlwaysCurrent`,
`PressureOfStepBefore`, `SlotsFollowSchedule`.

`GridArrays_proofs`, for every nx and ny of at least 1: the numbering of cells, nodes
and faces gives different elements different indices (`ElementsApart`), inside the
array (`ElementsInside`); the rows of a loop have no element in common (`RowsApart`),
and stores to different elements commute (`StoresCommute`), so a loop that reads none
of its own stores has one result in any order; the maps of cartesian_connectivity.h
lead to the element with the neighbouring coordinates (`CellMaps`, `NodeMaps`). The
argument is the bound ix < n of the numbering n * iy + ix; a product of two variables
is given to the solver in lemmas of its own.

`CrashOnlyAfterErasure`, of the first module: a null pointer is met only after an
erasure, in the dialect that leaves one.

There too, `PeriodicSchedule` is `ScheduleIsPeriodic`. The property speaks
of executions; the invariant, `PhaseInv`, gives the local clock of each event in closed
form (`LocalPhase`): the number of iterations since the file modulo istep, except between
the turn of the loop and the visit, where it is istep instead of 0, and for an event
whose window opens late, which counts on for ever. It is about the behaviours without an
erasure and the events without time limits, as the property is. `ClockInv` ties the
position in Run to the clock.

The other proofs are about `HydroStep`, for every grid of at least two cells in each
direction (`ShapesAssumption`; the boundary kernels name two rows and columns of cells),
each boundary condition, each projection, either parity of the iteration and any order of
the rows of a parallel loop. `GridArrays_proofs` holds what they share: where `Fold` leads
on a seam, what a stencil finds there (its values and the places of its sources), which
element of an array a store changes, and that it changes no other.

`LagrangeStep_proofs`: `LagrangianDriverIsRight` is `LagrangeRight`, `RightIsStoredOnce`
is `RightStaysRight`. `LagrangeRight` speaks of the return of the driver alone.
`LagrangeInv` says what each array holds in between: the places of `Awaited(a)`, the rows
to do and what the kernels after this one will store, hold Garbage still, and all others
the right value. The kernels store into awaited places only, hence the action property.
A kernel reads only places that are not awaited, hence the right value. `DriversInv` lists
the suffixes of the sequences of drivers; `WideGrid` is the assumption about the shapes.

`HydroStep_proofs`: `MassIsConserved` and `EnergyIsConserved`. What a kernel stores into
a face names the face, whichever values it read, so nothing is said about the other
arrays but their sizes (`SizesInv`). `FluxesInv` follows each array of fluxes
(`FluxStage`): the rows that its loop has stored, then all that the loop stores, then,
after the boundary kernel, all faces: `Complete`. When the balance begins they are
complete, and a sum over the cells is then a matter of counting: the two faces of a cell
are those of its neighbours, the last column's is the first's on a seam, and 0 at a wall.

There too, `TwinsAgreeAfterStep` is `TwinsAgree`. A node on a seam is stored twice
or more; the boundary kernels store one value into all nodes that are the same. The
argument is over sets of nodes: each of their stencils stores into a set that with a node
holds its twin (`Closed`, `Seams`), so a call keeps twins equal (`TwinStores`,
`TwinsEqual`). `TwinsInv` says from which kernel on the new velocities have that property,
and what the exchanges at the end of a step make of it. It is proved for both values of
`agree`: the step repairs velocities that did not agree before. `DualCellsAreBalanced` is
`DualCellsBalance`: the stencil of a node lies over two columns and two rows, of which
each follows the other around the seam (`FollowsX`, `FollowsY`); what two neighbouring
cells gain is the difference of their outer faces, because the face between them cancels,
and that needs the complete fluxes of the invariant above. `NodalRowsInv` keeps the rows
of the interior loop off the walls, where the property fails.

There too, `StepTypeOK` is `TypeOK`, `SoundIsStoredOnce` is `SoundStaysSound`. Both rest on where a kernel stores, which is proved kernel by kernel for the drivers'
some sixty: `Placed` says that a row of a loop stores into the elements of that row, in
the columns of the loop, and a boundary kernel into the edges that the loop leaves, and
that each value stored is one of `Values`, an inconsistent stencil's included. So an
array keeps its size, and its elements their range. For `SoundStaysSound` the invariant
is `AwaitingInv`: what the driver of both directions has yet to store (`Awaiting`, by the
call that stores each array and the rows left to it) holds what it held before the
driver, Garbage or the 0 of the nodal gradients; that is not sound, but on the walls in x,
where the boundary kernel stores nothing. A step stores into awaited places only.

`CornerFluxes_proofs`, for the driver with corner fluxes, every grid of at least two cells
in each direction, any directions of the velocities and any order of the rows.
`DriverCalls` numbers the calls of the driver; `Step` is what a step of any of them keeps.
`FaceFluxesAlwaysCross` is `FaceFluxesCross`: `CrossFluxes` follows each array of fluxes
through its loop and its boundary kernel to a complete one, with the machinery of
`FluxStage`. `CornerFluxesAlwaysCross` is `CornerFluxesCross`. Its invariant, `CornersInv`,
is about the places that a loop and its seam have come to (`Reached`): the corner fluxes
stored there are those of their places (`CornerStage`), and the entries of an array are
two for each of these places whose node moves along a diagonal, and no others
(`Accounted`). `CornerAt` is the corner that the kernels build for a place, inside, on a
side, on an end or where both seams meet; `CornerPlaced` shows that its four cells are
the ones around the place. Nothing is stored to the velocities that the signs come from
(`SignsKept`), and a node of a wall does not move along a diagonal (`WallsStill`), which
is why the walls need no seam.

There too, `MomentumAlwaysGoesWithLag` is `MomentumGoesWithLag` and `CornersAlwaysBalance`
is `CornersBalance`, whose premise is that the node of the flux keeps its direction; the
second follows from the same count and from `SumsAre`, which gives what the masses got.
The invariant is `GatherInv`: `CornersInv` and, in `MomentumInv`, three more facts. Off the
walls each velocity of a node is that of the place it is a twin of (`OneVelocity`): twins
have one sign, before the acceleration and after it, but the two signs of a node may
differ. A kernel stores the flux of a node to no other one (`Carriers`). And the entries
of a velocity are those of the places that its loop and its seam have come to
(`Gathered`). The rest is about one state. `NodesAround`: the nine nodes that the kernels
build for a place are the ones beside it, around the seams. `CornersHeld`: a node that
moves as predicted has its flux at every twin; what else a place may hold is 0, garbage or
its own flux, and 0 at a wall. `SharesCross`: a flux enters the sum of a node from one of
the nine in the one direction of `u_lag` and `v_lag` that the four quadrants of the kernel
allow. `AheadBeside` is the same question on one axis: one of the two nodes on that side of
z is c if, and only if, the cell ahead of c is one of the two beside z. So the sum of a
node has an entry with gain 1 exactly when the cell that the velocity leads to is one of
its four (`SharesCount`), once; with gain -1 likewise for the cell that it comes from.
`DualEntries` says of any entry that its flux is that of a node, or read beside a stale
twin.

`MultimaterialSweep_proofs`: `MaterialsConservedAlways` is `MaterialsConserved`, for the four
drivers of two materials, any set of cells that give all they have that is `OneWay`, and any
order of the rows. A driver is a sequence of calls that depends on the direction, so its
stages are told by the number of the call (`Stage`), one list for a mix and one for an
interface; `Bank` is the whole or one of the materials. `SweepInv` says how far each array
of fluxes has come through its loop and its boundary kernel, then that it is complete, and
that the checks keep it so. A check corrects a face in place, after both of its cells have
it; the correction is conserved because one face is one element that both cells read, at
most one of the two corrects it (`OneWay`), and off the seams no face has a twin: hence the
exclusion of `OverSeam`. One case needs more. In the Rayleigh-Taylor problem in y the first
faces are stored by the loop over the volumes and by nobody after it; that they let nothing
through follows from the velocity of the nodes of row 0, which is 0 and to which nothing is
stored (`Still`, `ClosedStage`). TLC checked `SweepInv` on the instance of
multimaterial_sweep before it was proved.

There too, `MaterialDualCellsBalance` is `DualCellsBalance`. In a mix the masses that move
the velocity are the ones of the balance, complete since their boundary kernel. With an
interface they are a sum that one loop takes of the fluxes of both materials, after the
checks, and no boundary kernel follows it. `DualInv` adds `TotalStage` to `SweepInv`: in
the rows that are done the sum is the one of the two fluxes (`SumOf`), and when all are
done the two faces of a seam have the same, because the fluxes of each material have and
because nothing between the sum and the projection stores to it (checked by TLC first,
too). What two neighbouring cells gain is then the difference of their outer faces, as in
`HydroStep_proofs`; that part, and where the kernels of the sweeps store, is proved once,
in `Sweeps_proofs`, for every module composed of `Sweeps`.

Checked by TLC only: `Terminates` (liveness under fairness, out of the prover's reach); of
hydro_step `FirstSweepRight` and `EveryNeighbourRight`, whose invariant has to give the
value of each of some fifty arrays after each of some sixty kernels, as `ContentsInv` does
for the five kernels of the Lagrangian driver; of corner_fluxes and of multimaterial_sweep
`EveryNeighbourRight`, for the same reason, and `TypeOK`. What a folded or a recursive
definition computes for every input would take induction over data, which is out
of reach.

## 6. Not modelled

The numbers themselves: a value is its place, and a velocity of the corner fluxes a
sign. The geometry that places the interface in a cell. The two-material drivers
of the direct and corner-flux projections, which call mostly kernels that are modelled,
but the ones with an interface have checks and fractional fluxes of their own; the
time-step kernels, the store and the dump (planned, above); the exchange of halos over
MPI, whose calls are commented out; the unstructured mesh, which the structured grid
superseded; file formats, the formula parser and the Riemann solver, which are pure
input, output or arithmetic; the kernels that no driver calls. One or three dimensions:
Run computes no time step there (simulation.cpp:1183) and is modelled in two.
