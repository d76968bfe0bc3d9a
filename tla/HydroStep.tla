------------------------------ MODULE HydroStep ------------------------------
(***************************************************************************)
(* One time step of Simulation::Run with one material: the Lagrangian      *)
(* driver, then a driver per direction in the order that the parity of the *)
(* iteration gives, or the driver that projects in both at once.           *)
(*                                                                         *)
(* The drivers are those of LagrangePhase, ProjectionX, ProjectionY and    *)
(* DirectProjection, over the arrays of Run.  What one of them takes for   *)
(* its input is here what those before it left, exchanged by Run: nothing  *)
(* but the state at the beginning of the step is given.                    *)
(***************************************************************************)
EXTENDS Sweeps

CONSTANT Projections    \* the values of TypeOfProjection that are tried

\* The drivers of the step that have not returned, of which the first runs; and whether
\* the velocities it starts from are the same on the two sides of a periodic direction.
VARIABLES drivers, agree

allvars == <<vars, drivers, agree>>

L == INSTANCE LagrangePhase
D == INSTANCE DirectProjection

Inputs == L!Inputs \cup {"rho", "cell_volumes"}
Arrays == Inputs \cup L!Scratch \cup D!Scratch \cup D!Outputs

\* The drivers of a step, by the name of the projection and the parity of the iteration.
DriversOf(projection, odd) ==
  IF projection = "AdProjection"
  THEN IF odd THEN <<"Lagrange", "X", "Y">> ELSE <<"Lagrange", "Y", "X">>
  ELSE IF projection = "DirectProjection" THEN <<"Lagrange", "Direct">>
  ELSE <<"Lagrange">>

\* The velocity a where no code has made the nodes beyond a seam agree with their twins.
Apart(a) ==
  [i \in 0 .. Size("node") - 1 |->
     LET p == <<i % (nx + 1), i \div (nx + 1)>>
     IN IF Fold("node", p) = p THEN p ELSE Off(Fold("node", p))]

Init ==
  /\ \E projection \in Projections, odd \in BOOLEAN : drivers = DriversOf(projection, odd)
  /\ \E s \in Shapes : nx = s[1] /\ ny = s[2]
  /\ BoundaryConditions \in BoundaryNames
  /\ agree \in IF WallsX THEN {TRUE} ELSE BOOLEAN
  /\ mem = [a \in Arrays |->
              IF a \in {"u", "v"} /\ ~agree THEN Apart(a)
              ELSE IF a \in Inputs THEN Filled(a)
              ELSE [i \in 0 .. Size(KindOf(a)) - 1 |-> IF a \in X!Zeroed THEN Zero ELSE Garbage]]
  /\ pc = "pressure"
  /\ todo = CellRows
-----------------------------------------------------------------------------
Running(d) == drivers # <<>> /\ Head(drivers) = d

\* A step of the driver that runs, which gets the arrays that Run passes.
Lagrange2dDriver == Running("Lagrange") /\ L!Next /\ UNCHANGED <<drivers, agree>>

AdProjection2dXDriver == Running("X") /\ X!Next /\ UNCHANGED <<drivers, agree>>

AdProjection2dYDriver == Running("Y") /\ Y!Next /\ UNCHANGED <<drivers, agree>>

DirectProjection2dDriver == Running("Direct") /\ D!Next /\ UNCHANGED <<drivers, agree>>

Returned == IF Running("Direct") THEN D!Done ELSE pc = "done"

\* Where a driver begins.
FirstKernel(d) ==
  CASE d = "X" -> "volume_flux" [] d = "Y" -> "volume_flux" [] d = "Direct" -> 1
FirstRows(d) == IF d = "Y" THEN NodeRows ELSE CellRows

Enter(ds) ==
  /\ drivers' = ds
  /\ IF ds = <<>> THEN UNCHANGED <<pc, todo>>
     ELSE pc' = FirstKernel(Head(ds)) /\ todo' = FirstRows(Head(ds))
  /\ UNCHANGED <<nx, ny, BoundaryConditions, agree>>

\* The arrays after std::swap of each pair.
Swapped(pairs) ==
  [a \in Arrays |-> LET others == {b \in Arrays : <<a, b>> \in pairs \/ <<b, a>> \in pairs}
                    IN IF others = {} THEN mem[a] ELSE mem[CHOOSE b \in others : TRUE]]

SweepPairs == {<<"mass", "out_mass">>, <<"u_lag", "out_u">>, <<"v_lag", "out_v">>, <<"e_lag", "out_e">>}

\* Mutant: the exchange of the velocity in x is forgotten.
StepPairs_NoU == {<<"mass", "out_mass">>, <<"v", "out_v">>, <<"e", "out_e">>, <<"rho", "out_rho">>}

StepPairs == {<<"mass", "out_mass">>, <<"u", "out_u">>, <<"v", "out_v">>, <<"e", "out_e">>,
              <<"rho", "out_rho">>}

\* The projection begins; the second sweep begins; the step is over.
Project ==
  /\ Running("Lagrange") /\ Returned /\ Len(drivers) > 1
  /\ mem' = mem
  /\ Enter(Tail(drivers))

SecondSweep ==
  /\ Running("X") \/ Running("Y")
  /\ Returned /\ Len(drivers) = 2
  /\ mem' = Swapped(SweepPairs)
  /\ Enter(Tail(drivers))

EndStep ==
  /\ Running("X") \/ Running("Y") \/ Running("Direct")
  /\ Returned /\ Len(drivers) = 1
  /\ mem' = Swapped(StepPairs)
  /\ Enter(<<>>)

Next ==
  \/ Lagrange2dDriver \/ AdProjection2dXDriver \/ AdProjection2dYDriver \/ DirectProjection2dDriver
  \/ Project \/ SecondSweep \/ EndStep

Spec == Init /\ [][Next]_allvars
-----------------------------------------------------------------------------
\* Type invariant: the arrays keep their sizes, and hold values of the model.
TypeOK ==
  /\ ArraysOK(Arrays)
  /\ agree \in BOOLEAN
  /\ \E projection \in Projections, odd \in BOOLEAN :
       LET ds == DriversOf(projection, odd)
       IN \E k \in 1 .. Len(ds) + 1 : drivers = SubSeq(ds, k, Len(ds))

\* When Lagrange2dDefaultDriver returns, every element of every array it fills, up to the
\* last row and column of nodes, is the result of the scheme on a grid without an edge:
\* the interior kernels and the boundary kernel cover all nodes between them, with the
\* neighbours of each, whatever the order of the rows.
LagrangeRight == Running("Lagrange") /\ agree => L!EveryElementRight

\* The projection and the next step trust an element once it is right: no later row of
\* the Lagrangian kernels, and no boundary kernel, stores over it.
RightStaysRight ==
  [][Running("Lagrange") =>
       \A a \in L!Scratch : \A p \in Places(KindOf(a)) :
         mem[a][At(KindOf(a), p)] = Right(a, p) => mem'[a][At(KindOf(a), p)] = Right(a, p)]_allvars

\* What the Lagrangian driver leaves is all that a sweep in x needs: when it comes first,
\* every element of every array it fills is the result of the scheme on a grid without an
\* edge.  Between walls the neighbours are right too; two columns of gradients, and what
\* depends on them, are not.
FirstSweepRight == Running("X") /\ Len(drivers) = 2 /\ agree => X!EveryElementRight

\* When a driver of the projection returns, every element of every array it fills was
\* computed from its own neighbours, whatever the order of the rows and of the sweeps: no
\* cell, face or node on a seam or at a wall has the neighbours of another.  The gradients
\* between walls, which no kernel stores, and those of row 0 in y are the only exceptions;
\* their error may be in the elements that depend on them, of the other sweep too.
EveryNeighbourRight ==
  agree =>
    /\ Running("X") /\ Returned =>
         \A a \in X!Scratch \cup X!Outputs : \A p \in Places(KindOf(a)) :
           Y!Sound(a, p) \/ X!Unstored(a, p)
    /\ Running("Y") => Y!EveryNeighbourRight
    /\ Running("Direct") => D!EveryNeighbourRight

\* In the direct projection an element that was computed from its own neighbours is never
\* replaced by one that was not: the interior and the boundary kernels of the two
\* directions do not meet.
SoundStaysSound ==
  [][Running("Direct") /\ drivers' = drivers =>
       \A a \in D!Scratch \cup D!Outputs : \A p \in Places(KindOf(a)) :
         Y!Sound(a, p) => Y!Sound(a, p)']_allvars

\* The step conserves mass and energy: when a balance begins, a flux that enters one cell
\* leaves exactly one other, around the seam of a periodic grid too, and only a flux that
\* is 0 enters or leaves the grid.
MassConserved ==
  /\ Running("X") => X!MassConserved
  /\ Running("Y") => Y!MassConserved
  /\ Running("Direct") /\ D!Calling(Loop({"out_mass"})) =>
       X!Conserves("mass_flux_x") /\ Y!Conserves("mass_flux_y")

EnergyConserved ==
  /\ Running("X") => X!EnergyConserved
  /\ Running("Y") => Y!EnergyConserved
  /\ Running("Direct") /\ D!Calling(Loop({"out_e"})) =>
       X!Conserves("energy_flux_x") /\ Y!Conserves("energy_flux_y")

\* A uniform velocity stays uniform: over the dual cell of every node, what the fluxes
\* through its sides bring is what the masses of its four cells gain.  It is not so along
\* the walls.
DualCellsBalance ==
  /\ Running("X") => X!DualCellsBalance
  /\ Running("Y") => Y!DualCellsBalance
  /\ Running("Direct") => D!DualCellsBalance

\* After one step the velocities on the two sides of a periodic direction agree, even where
\* they did not at its beginning.
TwinsAgree ==
  drivers = <<>> =>
    \A a \in {"u", "v"} : \A p \in Places("node") :
      mem[a][At("node", p)] = mem[a][At("node", Fold("node", p))]
=============================================================================
