-------------------------- MODULE DirectProjection --------------------------
(***************************************************************************)
(* DirectProjection2dMonomaterialDriver: the remap of one material in both *)
(* directions at once.                                                     *)
(*                                                                         *)
(* The gradients and the fluxes of each direction are those of the two     *)
(* sweeps, from the same state; one balance then takes the four faces of a *)
(* cell, and one the twelve faces that cross the sides of a dual cell.     *)
(* The kernels of the two directions alternate, so that the fluxes of one  *)
(* are stored between the kernels of the other.                            *)
(***************************************************************************)
EXTENDS GridArrays

X == INSTANCE ProjectionX
Y == INSTANCE ProjectionY WITH DxIsDy <- TRUE

Inputs  == X!Inputs \cup Y!Inputs
Scratch == X!Scratch \cup Y!Scratch
Outputs == X!Outputs

\* The calls of the driver: the fluxes and the balance of the mass, those of the energy,
\* and those of a velocity.
MassCalls == <<
  Loop({"volume_fluxes_x"}), Loop({"lag_volume", "lag_density"}),
  Loop({"volume_fluxes_y"}), Loop({"lag_volume_y", "lag_density_y"}),
  Loop({"density_gradient"}), Loop({"density_gradient_y"}),
  Boundary({"density_gradient"}), Boundary({"density_gradient_y"}),
  Loop({"mass_flux_x"}), Loop({"mass_flux_y"}),
  Boundary({"mass_flux_x"}), Boundary({"mass_flux_y"}),
  Loop({"out_mass"}) >>

EnergyCalls == <<
  Loop({"energy_gradient"}), Loop({"energy_gradient_y"}),
  Boundary({"energy_gradient"}), Boundary({"energy_gradient_y"}),
  Loop({"energy_flux_x"}), Loop({"energy_flux_y"}),
  Boundary({"energy_flux_x"}), Boundary({"energy_flux_y"}),
  Loop({"out_e"}) >>

VelocityCalls(gradient, gradient_y, out) == <<
  Loop({gradient}), Loop({gradient_y}), Boundary({gradient}), Boundary({gradient_y}),
  Loop({out}), Boundary({out}) >>

Driver ==
  MassCalls \o EnergyCalls \o VelocityCalls("gradient_u", "gradient_u_y", "out_u")
  \o VelocityCalls("gradient_v", "gradient_v_y", "out_v") \o << Loop({"out_rho"}) >>

Rows(call) ==
  IF call.part # "loop" THEN {}
  ELSE IF call.outs \cap {"volume_fluxes_y", "gradient_u", "gradient_v"} # {} THEN NodeRows
  ELSE IF call.outs \cap {"density_gradient_y", "energy_gradient_y"} # {} THEN 1 .. ny - 2
  ELSE IF call.outs \cap {"mass_flux_y", "energy_flux_y", "gradient_u_y", "gradient_v_y",
                     "out_u", "out_v"} # {} THEN Inner
  ELSE CellRows
-----------------------------------------------------------------------------
\* The four faces of a cell, whose fluxes x and y change it.
FourFaces(c, iy, x, y) ==
  {<<x, 0, 0, CellFaceM1O(c, iy, nx)>>, <<x, 1, 0, CellFaceP1O(c, iy, nx)>>,
   <<y, 0, 0, CellFaceOM1(c, iy, nx)>>, <<y, 0, 1, CellFaceOP1(c, iy, nx)>>}

ProjectMassDirect(a, iy) ==
  {LET c == CellAt(ix, iy, nx)
   IN <<c, Computed("cell", <<ix, iy>>,
             Here({"mass"}, c) \cup FourFaces(c, iy, "mass_flux_x", "mass_flux_y"))>>
   : ix \in 0 .. nx - 1}

MassProjectIntensiveVariableDirect(a, iy) ==
  {LET c == CellAt(ix, iy, nx)
   IN <<c, Computed("cell", <<ix, iy>>,
             Here({"mass", "e_lag", "out_mass"}, c)
             \cup FourFaces(c, iy, "energy_flux_x", "energy_flux_y"))>> : ix \in 0 .. nx - 1}

\* The balance of a node, over the stencils that the two sweeps have for it.
Crossed(xs, ys) == {c \in xs \X ys : c[1].at = c[2].at}

Projected(a, xs, ys) ==
  UNION {{<<n, Computed("node", c[1].at, X!NodalReads(a, c[1]) \cup Y!NodalReads(a, c[2]))>>
          : n \in c[1].to} : c \in Crossed(xs, ys)}

ProjectNodalIntensiveVariableOrder2Direct(a, iy) ==
  Projected(a, X!InnerStencils(iy), Y!InnerStencils(iy))

\* Mutant: the corner is left out.
ProjectNodalIntensiveVariableOrder2PeriodicBoundaryDirect_NoCorner(a) ==
  Projected(a, X!PeriodicSides, Y!PeriodicSides) \cup
  Projected(a, X!PeriodicEnds, Y!PeriodicEnds)

ProjectNodalIntensiveVariableOrder2PeriodicBoundaryDirect(a) ==
  Projected(a, X!PeriodicSides, Y!PeriodicSides) \cup
  Projected(a, X!PeriodicEnds, Y!PeriodicEnds) \cup
  Projected(a, {X!PeriodicCorner}, {Y!PeriodicCorner})

ProjectNodalIntensiveVariableOrder2BoundaryRtDirect(a) ==
  Projected(a, X!PeriodicSides, Y!PeriodicSides) \cup Zeros(CornerNodes \cup Ends)

ProjectNodalIntensiveVariableOrder2UxWallBoundaryDirect(a) ==
  Projected(a, X!ProjectNodalIntensiveVariableOrder2UxXWallBoundary,
               Y!ProjectNodalIntensiveVariableOrder2UxYWallBoundary)
  \cup Zeros(CornerNodes \cup Sides)

ProjectNodalIntensiveVariableOrder2UyWallBoundaryDirect(a) ==
  Projected(a, X!ProjectNodalIntensiveVariableOrder2UyXWallBoundary,
               Y!ProjectNodalIntensiveVariableOrder2UyYWallBoundary)
  \cup Zeros(CornerNodes \cup Ends)

ProjectNodalIntensiveVariableOrder2BoundaryDirect(a) ==
  IF BoundaryConditions = "RayleighTaylor"
  THEN ProjectNodalIntensiveVariableOrder2BoundaryRtDirect(a)
  ELSE IF BoundaryConditions # "Wall"
  THEN ProjectNodalIntensiveVariableOrder2PeriodicBoundaryDirect(a)
  ELSE IF a = "out_u" THEN ProjectNodalIntensiveVariableOrder2UxWallBoundaryDirect(a)
  ELSE ProjectNodalIntensiveVariableOrder2UyWallBoundaryDirect(a)
-----------------------------------------------------------------------------
\* The kernels of the two sweeps that the driver calls for one array.
SweepLoop(a, iy) ==
  CASE a = "volume_fluxes_x" -> X!VolumeFluxStores(a, iy)
    [] a = "volume_fluxes_y" -> Y!VolumeFluxStores(a, iy)
    [] a \in {"lag_volume", "lag_density"} -> X!DirectionalStores(a, iy)
    [] a \in {"lag_volume_y", "lag_density_y"} -> Y!DirectionalStores(a, iy)
    [] a \in {"density_gradient", "energy_gradient"} -> X!ReconstructGradientX(a, iy)
    [] a \in {"density_gradient_y", "energy_gradient_y"} -> Y!ReconstructGradientY(a, iy)
    [] a \in {"mass_flux_x", "energy_flux_x"} -> X!ReconstructFluxOrder2X(a, iy)
    [] a \in {"mass_flux_y", "energy_flux_y"} -> Y!ReconstructFluxOrder2Y(a, iy)
    [] a \in {"gradient_u", "gradient_v"} -> X!ReconstructGradientNodalX(a, iy)
    [] a \in {"gradient_u_y", "gradient_v_y"} -> Y!ReconstructGradientNodalY(a, iy)
    [] a = "out_rho" -> X!ReconstructDensity(a, iy)

SweepBoundary(a) ==
  CASE a \in {"density_gradient", "energy_gradient"} -> X!ReconstructGradientXBoundary(a)
    [] a \in {"density_gradient_y", "energy_gradient_y"} -> Y!ReconstructGradientYBoundary(a)
    [] a \in {"mass_flux_x", "energy_flux_x"} -> X!ReconstructFluxOrder2XBoundary(a)
    [] a \in {"mass_flux_y", "energy_flux_y"} -> Y!ReconstructFluxOrder2YBoundary(a)
    [] a \in {"gradient_u", "gradient_v"} -> X!ReconstructGradientNodalXBoundary(a)
    [] a \in {"gradient_u_y", "gradient_v_y"} -> Y!ReconstructGradientNodalYBoundary(a)

LoopStores(a, iy) ==
  CASE a = "out_mass" -> ProjectMassDirect(a, iy)
    [] a = "out_e" -> MassProjectIntensiveVariableDirect(a, iy)
    [] a \in {"out_u", "out_v"} -> ProjectNodalIntensiveVariableOrder2Direct(a, iy)
    [] OTHER -> SweepLoop(a, iy)

BoundaryStores(a) ==
  IF a \in {"out_u", "out_v"} THEN ProjectNodalIntensiveVariableOrder2BoundaryDirect(a)
  ELSE SweepBoundary(a)

Row  == LoopRow(Driver, LoopStores, Rows)
Edge == BoundaryCall(Driver, BoundaryStores, Rows)

Next == Row \/ Edge
-----------------------------------------------------------------------------
Done == pc = Len(Driver) + 1
Calling(call) == pc \in DOMAIN Driver /\ Driver[pc] = call

\* When the driver returns, every element of every array it fills was computed from
\* its own neighbours in both directions.  The exceptions are those of the two sweeps:
\* gradients between walls that no kernel stores, and those of row 0 in y.
EveryNeighbourRight ==
  Done => \A a \in Scratch \cup Outputs : \A p \in Places(KindOf(a)) :
            Y!Sound(a, p) \/ X!Unstored(a, p) \/ Y!Unstored(a, p)

\* A uniform velocity stays uniform, off the walls: the fluxes through the sides of
\* the dual cell of a node make up the change of its mass, in x and in y, when the
\* velocities are projected, after all that the driver did in between.
DualCellsBalance ==
  /\ Calling(Loop({"out_u"})) \/ Calling(Loop({"out_v"})) =>
       /\ X!Balanced(UNION {X!InnerStencils(iy) : iy \in todo})
       /\ Y!Balanced(UNION {Y!InnerStencils(iy) : iy \in todo})
  /\ \A a \in {"out_u", "out_v"} :
       Calling(Boundary({a})) /\ BoundaryConditions # "Wall" =>
         /\ X!Balanced(X!BoundaryStencils(a))
         /\ Y!Balanced(Y!BoundaryStencils(a))
=============================================================================
