---------------------------- MODULE ProjectionX ----------------------------
(***************************************************************************)
(* AdProjection2dMonomaterialXDriver: the remap of one material in x.      *)
(*                                                                         *)
(* Volumes, masses, energies and momenta flow through the faces normal to  *)
(* x.  The cell quantities go through a limited gradient, a second-order   *)
(* flux and a balance; each component of the velocity through a nodal      *)
(* gradient and a balance over the dual cell of the node.  Each interior   *)
(* kernel is followed by its boundary kernel.                              *)
(***************************************************************************)
EXTENDS GridArrays

Inputs  == {"mass", "e_lag", "u_lag", "v_lag", "predicted_u", "cell_volumes"}
Zeroed  == {"gradient_u", "gradient_v"}
Scratch == {"volume_fluxes_x", "lag_volume", "lag_density", "density_gradient",
            "mass_flux_x", "energy_gradient", "energy_flux_x"} \cup Zeroed
Outputs == {"out_mass", "out_e", "out_rho", "out_u", "out_v"}

\* The first sweep.  A later one finds what this one left; it stores into the same
\* elements.
Init ==
  /\ GridInit(Inputs, Zeroed, Scratch \cup Outputs)
  /\ pc = "volume_flux"
  /\ todo = CellRows
-----------------------------------------------------------------------------
\* ComputeDirectionalLagrangianQuantitiesX: two loops.
VolumeFluxStores(a, iy) ==
  {LET f == FaceXAt(ix, iy, nx)
       velocities == {<<"predicted_u", 0, 0, FaceXNodeM1(f, iy, nx)>>,
                      <<"predicted_u", 0, 1, FaceXNodeP1(f, iy, nx)>>}
   IN <<f, Driven(velocities, Computed("facex", <<ix, iy>>, velocities))>> : ix \in 0 .. nx}

DirectionalStores(a, iy) ==
  {LET c == CellAt(ix, iy, nx)
   IN <<c, Computed("cell", <<ix, iy>>,
             {<<"volume_fluxes_x", 0, 0, CellFaceM1O(c, iy, nx)>>,
              <<"volume_fluxes_x", 1, 0, CellFaceP1O(c, iy, nx)>>}
             \cup Here(IF a = "lag_density" THEN {"mass"} ELSE {}, c))>> : ix \in 0 .. nx - 1}

ComputeDirectionalLagrangianQuantitiesX ==
  \/ pc = "volume_flux" /\ RowOf({"volume_fluxes_x"}, VolumeFluxStores, "lagrangian", CellRows)
  \/ pc = "lagrangian" /\ RowOf({"lag_volume", "lag_density"}, DirectionalStores,
                                "gradient_density", CellRows)
-----------------------------------------------------------------------------
\* The limited gradient of a variable in a cell, given its two neighbours.
GradientAt(of, p, m1, cell, p1) ==
  Computed("cell", p,
    {<<of, -1, 0, m1>>, <<of, 0, 0, cell>>, <<of, 1, 0, p1>>,
     <<"volume_fluxes_x", -1, 0, CellFaceM1O(m1, p[2], nx)>>,
     <<"volume_fluxes_x",  0, 0, CellFaceM1O(cell, p[2], nx)>>,
     <<"volume_fluxes_x",  1, 0, CellFaceP1O(cell, p[2], nx)>>,
     <<"volume_fluxes_x",  2, 0, CellFaceP1O(p1, p[2], nx)>>})

\* The variable that the driver passes for array a, and the gradient of it.
VariableOf(a) == CASE a \in {"density_gradient", "mass_flux_x"} -> "lag_density"
                   [] a \in {"energy_gradient", "energy_flux_x", "out_e"} -> "e_lag"
                   [] a \in {"concentration_gradient", "concentration_flux_x", "out_c_1"} -> "c_1"
                   [] a \in {"gradient_u", "out_u"} -> "u_lag"
                   [] a \in {"gradient_v", "out_v"} -> "v_lag"

GradientOf(a) == CASE a = "mass_flux_x"   -> "density_gradient"
                   [] a = "energy_flux_x" -> "energy_gradient"
                   [] a = "concentration_flux_x" -> "concentration_gradient"
                   [] a = "out_u"         -> "gradient_u"
                   [] a = "out_v"         -> "gradient_v"

ReconstructGradientX(a, iy) ==
  {LET c == CellAt(ix, iy, nx)
   IN <<c, GradientAt(VariableOf(a), <<ix, iy>>, CellCellM1O(c, nx), c, CellCellP1O(c, nx))>>
   : ix \in 1 .. nx - 2}

ReconstructGradientXPeriodicBoundary(a) ==
  {LET c == nx * iy
   IN <<c, GradientAt(VariableOf(a), <<0, iy>>, c + nx - 1, c, CellCellP1O(c, nx))>>
   : iy \in CellRows} \cup
  {LET c == nx * iy + nx - 1
   IN <<c, GradientAt(VariableOf(a), <<nx - 1, iy>>, CellCellM1O(c, nx), c, nx * iy)>>
   : iy \in CellRows}

\* The Rayleigh-Taylor problem is periodic in x; its kernels repeat the periodic ones.
ReconstructGradientXBoundaryRt(a) == ReconstructGradientXPeriodicBoundary(a)

ReconstructGradientXBoundary(a) ==
  IF BoundaryConditions = "RayleighTaylor" THEN ReconstructGradientXBoundaryRt(a)
  ELSE IF BoundaryConditions = "Wall" THEN {}
  ELSE ReconstructGradientXPeriodicBoundary(a)
-----------------------------------------------------------------------------
\* The second-order flux through a face: of mass, or of energy, which the mass carries.
FluxReads(a, s) ==
  Beside({VariableOf(a), GradientOf(a)}, -1, 0, s.prev) \cup
  Beside({VariableOf(a), GradientOf(a)},  0, 0, s.next) \cup
  {<<"volume_fluxes_x", -1, 0, CellFaceM1O(s.prev, s.at[2], nx)>>,
   <<"volume_fluxes_x",  1, 0, CellFaceP1O(s.next, s.at[2], nx)>>,
   <<IF a = "mass_flux_x" THEN "volume_fluxes_x" ELSE "mass_flux_x", 0, 0, s.face>>}

Fluxes(a, crossings) ==
  UNION {{<<f, Computed("facex", s.at, FluxReads(a, s))>> : f \in s.to} : s \in crossings}

InnerFaces(iy) ==
  {LET f == FaceXAt(ix, iy, nx)
   IN Crossing(<<ix, iy>>, {f}, FaceXCellM1(f, iy, nx), FaceXCellP1(f, iy, nx), f)
   : ix \in 1 .. nx - 1}

ReconstructFluxOrder2X(a, iy) == Fluxes(a, InnerFaces(iy))

FirstFace(iy) == (nx + 1) * iy

\* Mutant: the last face is that of the last cell.
LastFace_Short(iy) == FirstFace(iy) + nx - 1

LastFace(iy) == FirstFace(iy) + nx

\* Mutant: the last face is left to the interior kernel.
SeamFaces_NoTwin ==
  {Crossing(<<0, iy>>, {FirstFace(iy)}, FaceXCellM1(LastFace(iy), iy, nx),
            FaceXCellP1(FirstFace(iy), iy, nx), FirstFace(iy)) : iy \in CellRows}

SeamFaces ==
  {Crossing(<<0, iy>>, {FirstFace(iy), LastFace(iy)}, FaceXCellM1(LastFace(iy), iy, nx),
            FaceXCellP1(FirstFace(iy), iy, nx), FirstFace(iy)) : iy \in CellRows}

ReconstructFluxOrder2XPeriodicBoundary(a) == Fluxes(a, SeamFaces)

\* Mutant: one wall only.
ReconstructFluxOrder2XWallBoundary_OneWall(a) == {<<FirstFace(iy), Zero>> : iy \in CellRows}

ReconstructFluxOrder2XWallBoundary(a) ==
  UNION {{<<FirstFace(iy), Zero>>, <<LastFace(iy), Zero>>} : iy \in CellRows}

ReconstructFluxOrder2XBoundaryRt(a) == ReconstructFluxOrder2XPeriodicBoundary(a)

ReconstructFluxOrder2XBoundary(a) ==
  IF BoundaryConditions = "RayleighTaylor" THEN ReconstructFluxOrder2XBoundaryRt(a)
  ELSE IF BoundaryConditions = "Wall" THEN ReconstructFluxOrder2XWallBoundary(a)
  ELSE ReconstructFluxOrder2XPeriodicBoundary(a)
-----------------------------------------------------------------------------
\* The flux that the balance of array a takes.
FluxInto(a) == IF a = "out_e" THEN "energy_flux_x" ELSE "concentration_flux_x"

\* The balances of the mass and of what it carries in a cell.
ProjectMassX(a, iy) ==
  {LET c == CellAt(ix, iy, nx)
   IN <<c, Computed("cell", <<ix, iy>>,
             Here({"mass"}, c) \cup
             {<<"mass_flux_x", 0, 0, CellFaceM1O(c, iy, nx)>>,
              <<"mass_flux_x", 1, 0, CellFaceP1O(c, iy, nx)>>})>> : ix \in 0 .. nx - 1}

MassProjectIntensiveVariableX(a, iy) ==
  {LET c == CellAt(ix, iy, nx)
   IN <<c, Computed("cell", <<ix, iy>>,
             Here({"mass", VariableOf(a), "out_mass"}, c) \cup
             {<<FluxInto(a), 0, 0, CellFaceM1O(c, iy, nx)>>,
              <<FluxInto(a), 1, 0, CellFaceP1O(c, iy, nx)>>})>> : ix \in 0 .. nx - 1}

ReconstructDensity(a, iy) ==
  {LET c == CellAt(ix, iy, nx)
   IN <<c, Computed("cell", <<ix, iy>>, Here({"out_mass", "cell_volumes"}, c))>>
   : ix \in 0 .. nx - 1}
-----------------------------------------------------------------------------
\* The limited gradient of a nodal variable, given the two nodes beside.
NodalGradientAt(of, p, m1, node, p1) ==
  Computed("node", p, Beside({of, "predicted_u"}, -1, 0, m1) \cup
                      Here({of, "predicted_u"}, node) \cup
                      Beside({of, "predicted_u"}, 1, 0, p1))

ReconstructGradientNodalX(a, iy) ==
  {LET n == NodeAt(ix, iy, nx)
   IN <<n, NodalGradientAt(VariableOf(a), <<ix, iy>>, NodeNodeM1O(n, iy, nx), n,
                                                      NodeNodeP1O(n, iy, nx))>>
   : ix \in 1 .. nx - 1}

\* Mutant: the neighbour before the first node is its twin, the same node.
ReconstructGradientNodalXPeriodicBoundary_Twin(a) ==
  {LET n == NodeAt(0, iy, nx)
   IN <<n, NodalGradientAt(VariableOf(a), <<0, iy>>, n + nx, n, NodeNodeP1O(n, iy, nx))>>
   : iy \in NodeRows} \cup
  {LET n == NodeAt(nx, iy, nx)
   IN <<n, NodalGradientAt(VariableOf(a), <<nx, iy>>, NodeNodeM1O(n, iy, nx), n,
                                                      iy * (nx + 1) + 1)>>
   : iy \in NodeRows}

ReconstructGradientNodalXPeriodicBoundary(a) ==
  {LET n == NodeAt(0, iy, nx)
   IN <<n, NodalGradientAt(VariableOf(a), <<0, iy>>, n + nx - 1, n, NodeNodeP1O(n, iy, nx))>>
   : iy \in NodeRows} \cup
  {LET n == NodeAt(nx, iy, nx)
   IN <<n, NodalGradientAt(VariableOf(a), <<nx, iy>>, NodeNodeM1O(n, iy, nx), n,
                                                      iy * (nx + 1) + 1)>>
   : iy \in NodeRows}

ReconstructGradientNodalXBoundaryRt(a) == ReconstructGradientNodalXPeriodicBoundary(a)

ReconstructGradientNodalXBoundary(a) ==
  IF BoundaryConditions = "RayleighTaylor" THEN ReconstructGradientNodalXBoundaryRt(a)
  ELSE IF BoundaryConditions = "Wall" THEN {}
  ELSE ReconstructGradientNodalXPeriodicBoundary(a)
-----------------------------------------------------------------------------
\* The balance of a node over its dual cell: what it reads, and its result.
NodalReads(a, s) ==
  LET nodal == {VariableOf(a), GradientOf(a), "predicted_u"}
  IN  Beside(nodal, -1, 0, s.m1) \cup Here(nodal, s.node) \cup Beside(nodal, 1, 0, s.p1) \cup
      Quarters({"mass", "out_mass"}, s.cells[1], s.cells[2], s.cells[3], s.cells[4]) \cup
      {<<"mass_flux_x", -1, -1, s.faces[1]>>, <<"mass_flux_x", 0, -1, s.faces[2]>>,
       <<"mass_flux_x",  1, -1, s.faces[3]>>, <<"mass_flux_x", -1, 0, s.faces[4]>>,
       <<"mass_flux_x",  0,  0, s.faces[5]>>, <<"mass_flux_x",  1, 0, s.faces[6]>>}

ProjectedAt(a, s) == Computed("node", s.at, NodalReads(a, s))

Projected(a, stencils) == UNION {{<<n, ProjectedAt(a, s)>> : n \in s.to} : s \in stencils}

\* The faces around a node that is seen from the four sides of a seam.
FacesAround(sw, se, nw, ne, below, above) ==
  <<NodeFaceXM1M1(sw, below, nx), NodeFaceXOOM1(se, below, nx), NodeFaceXP1M1(se, below, nx),
    NodeFaceXM1P1(nw, above, nx), NodeFaceXOOP1(ne, above, nx), NodeFaceXP1P1(ne, above, nx)>>

InnerStencils(iy) ==
  {LET n == NodeAt(ix, iy, nx)
   IN Stencil(<<ix, iy>>, {n}, NodeNodeM1O(n, iy, nx), n, NodeNodeP1O(n, iy, nx),
              CellsAround(n, n, n, n, iy, iy), FacesAround(n, n, n, n, iy, iy))
   : ix \in 1 .. nx - 1}

ProjectNodalIntensiveVariableOrder2X(a, iy) == Projected(a, InnerStencils(iy))

PeriodicSides ==
  {LET n == NodeAt(0, iy, nx)
       sym == n + nx
   IN Stencil(<<0, iy>>, {n, sym}, NodeNodeM1O(sym, iy, nx), n, NodeNodeP1O(n, iy, nx),
              CellsAround(sym, n, sym, n, iy, iy), FacesAround(sym, n, sym, n, iy, iy))
   : iy \in Inner}

PeriodicEnds ==
  {LET n == NodeAt(ix, 0, nx)
       sym == n + ny * (nx + 1)
   IN Stencil(<<ix, 0>>, {n, sym}, NodeNodeM1O(n, 0, nx), n, NodeNodeP1O(n, 0, nx),
              CellsAround(sym, sym, n, n, ny, 0), FacesAround(sym, sym, n, n, ny, 0))
   : ix \in 1 .. nx - 1}

PeriodicCorner ==
  Stencil(<<0, 0>>, CornerNodes, nx - 1, 0, 1,
          <<nx * ny - 1, (ny - 1) * nx, nx - 1, 0>>,
          <<ny * (nx + 1) - 2, (ny - 1) * (nx + 1), (ny - 1) * (nx + 1) + 1, nx - 1, 0, 1>>)

ProjectNodalIntensiveVariableOrder2XPeriodicBoundary ==
  PeriodicSides \cup PeriodicEnds \cup {PeriodicCorner}

ProjectNodalIntensiveVariableOrder2XBoundaryRt == PeriodicSides

\* What is beyond a wall is taken as what is before it.
ProjectNodalIntensiveVariableOrder2UxXWallBoundary ==
  {LET n  == NodeAt(ix, 0, nx)
       nw == NodeCellM1P1(n, 0, nx)
       ne == NodeCellP1P1(n, 0, nx)
       above == <<NodeFaceXM1P1(n, 0, nx), NodeFaceXOOP1(n, 0, nx), NodeFaceXP1P1(n, 0, nx)>>
   IN Stencil(<<ix, 0>>, {n}, NodeNodeM1O(n, 0, nx), n, NodeNodeP1O(n, 0, nx),
              <<nw, ne, nw, ne>>, above \o above)
   : ix \in 1 .. nx - 1} \cup
  {LET n  == NodeAt(ix, ny, nx)
       sw == NodeCellM1M1(n, ny, nx)
       se == NodeCellP1M1(n, ny, nx)
       below == <<NodeFaceXM1M1(n, ny, nx), NodeFaceXOOM1(n, ny, nx), NodeFaceXP1M1(n, ny, nx)>>
   IN Stencil(<<ix, ny>>, {n}, NodeNodeM1O(n, ny, nx), n, NodeNodeP1O(n, ny, nx),
              <<sw, se, sw, se>>, below \o below)
   : ix \in 1 .. nx - 1}

ProjectNodalIntensiveVariableOrder2UyXWallBoundary ==
  {LET n  == NodeAt(0, iy, nx)
       se == NodeCellP1M1(n, iy, nx)
       ne == NodeCellP1P1(n, iy, nx)
       p1m1 == NodeFaceXP1M1(n, iy, nx)
       p1p1 == NodeFaceXP1P1(n, iy, nx)
   IN Stencil(<<0, iy>>, {n}, NodeNodeP1O(n, iy, nx), n, NodeNodeP1O(n, iy, nx),
              <<se, se, ne, ne>>,
              <<p1m1, NodeFaceXOOM1(n, iy, nx), p1m1, p1p1, NodeFaceXOOP1(n, iy, nx), p1p1>>)
   : iy \in Inner} \cup
  {LET n  == NodeAt(nx, iy, nx)
       sw == NodeCellM1M1(n, iy, nx)
       nw == NodeCellM1P1(n, iy, nx)
       m1m1 == NodeFaceXM1M1(n, iy, nx)
       m1p1 == NodeFaceXM1P1(n, iy, nx)
   IN Stencil(<<nx, iy>>, {n}, NodeNodeM1O(n, iy, nx), n, NodeNodeM1O(n, iy, nx),
              <<sw, sw, nw, nw>>,
              <<m1m1, NodeFaceXOOM1(n, iy, nx), m1m1, m1p1, NodeFaceXOOP1(n, iy, nx), m1p1>>)
   : iy \in Inner}

BoundaryStencils(a) ==
  IF BoundaryConditions = "RayleighTaylor" THEN ProjectNodalIntensiveVariableOrder2XBoundaryRt
  ELSE IF BoundaryConditions # "Wall" THEN ProjectNodalIntensiveVariableOrder2XPeriodicBoundary
  ELSE IF a = "out_u" THEN ProjectNodalIntensiveVariableOrder2UxXWallBoundary
  ELSE ProjectNodalIntensiveVariableOrder2UyXWallBoundary

BoundaryZeros(a) ==
  IF BoundaryConditions \notin {"RayleighTaylor", "Wall"} THEN {}
  ELSE CornerNodes \cup IF BoundaryConditions = "Wall" /\ a = "out_u" THEN Sides ELSE Ends

ProjectNodalIntensiveVariableOrder2XBoundary(a) ==
  Projected(a, BoundaryStencils(a)) \cup Zeros(BoundaryZeros(a))
-----------------------------------------------------------------------------
\* The kernels of the driver, in its order: one for mass, one for energy and one
\* for each component of the velocity.
Gradient ==
  \/ /\ pc = "gradient_density"
     /\ RowOf({"density_gradient"}, ReconstructGradientX, "gradient_density_boundary", {})
  \/ /\ pc = "gradient_energy"
     /\ RowOf({"energy_gradient"}, ReconstructGradientX, "gradient_energy_boundary", {})

GradientBoundary ==
  \/ /\ pc = "gradient_density_boundary"
     /\ BoundaryOf({"density_gradient"}, ReconstructGradientXBoundary, "flux_mass", CellRows)
  \/ /\ pc = "gradient_energy_boundary"
     /\ BoundaryOf({"energy_gradient"}, ReconstructGradientXBoundary, "flux_energy", CellRows)

Flux ==
  \/ /\ pc = "flux_mass"
     /\ RowOf({"mass_flux_x"}, ReconstructFluxOrder2X, "flux_mass_boundary", {})
  \/ /\ pc = "flux_energy"
     /\ RowOf({"energy_flux_x"}, ReconstructFluxOrder2X, "flux_energy_boundary", {})

FluxBoundary ==
  \/ /\ pc = "flux_mass_boundary"
     /\ BoundaryOf({"mass_flux_x"}, ReconstructFluxOrder2XBoundary, "mass", CellRows)
  \/ /\ pc = "flux_energy_boundary"
     /\ BoundaryOf({"energy_flux_x"}, ReconstructFluxOrder2XBoundary, "energy", CellRows)

\* Mutant: the loop over the nodes that follows has one row too many.
Balance_OneMore ==
  \/ pc = "mass" /\ RowOf({"out_mass"}, ProjectMassX, "gradient_energy", CellRows)
  \/ pc = "energy" /\ RowOf({"out_e"}, MassProjectIntensiveVariableX, "density", CellRows)
  \/ pc = "density" /\ RowOf({"out_rho"}, ReconstructDensity, "gradient_u", 0 .. ny + 1)

Balance ==
  \/ pc = "mass" /\ RowOf({"out_mass"}, ProjectMassX, "gradient_energy", CellRows)
  \/ pc = "energy" /\ RowOf({"out_e"}, MassProjectIntensiveVariableX, "density", CellRows)
  \/ pc = "density" /\ RowOf({"out_rho"}, ReconstructDensity, "gradient_u", NodeRows)

NodalGradient ==
  \/ /\ pc = "gradient_u"
     /\ RowOf({"gradient_u"}, ReconstructGradientNodalX, "gradient_u_boundary", {})
  \/ /\ pc = "gradient_v"
     /\ RowOf({"gradient_v"}, ReconstructGradientNodalX, "gradient_v_boundary", {})

NodalGradientBoundary ==
  \/ /\ pc = "gradient_u_boundary"
     /\ BoundaryOf({"gradient_u"}, ReconstructGradientNodalXBoundary, "project_ux", Inner)
  \/ /\ pc = "gradient_v_boundary"
     /\ BoundaryOf({"gradient_v"}, ReconstructGradientNodalXBoundary, "project_uy", Inner)

NodalBalance ==
  \/ /\ pc = "project_ux"
     /\ RowOf({"out_u"}, ProjectNodalIntensiveVariableOrder2X, "project_ux_boundary", {})
  \/ /\ pc = "project_uy"
     /\ RowOf({"out_v"}, ProjectNodalIntensiveVariableOrder2X, "project_uy_boundary", {})

NodalBalanceBoundary ==
  \/ /\ pc = "project_ux_boundary"
     /\ BoundaryOf({"out_u"}, ProjectNodalIntensiveVariableOrder2XBoundary,
                   "gradient_v", NodeRows)
  \/ /\ pc = "project_uy_boundary"
     /\ BoundaryOf({"out_v"}, ProjectNodalIntensiveVariableOrder2XBoundary, "done", {})

Next == \/ ComputeDirectionalLagrangianQuantitiesX
        \/ Gradient \/ GradientBoundary \/ Flux \/ FluxBoundary \/ Balance
        \/ NodalGradient \/ NodalGradientBoundary \/ NodalBalance \/ NodalBalanceBoundary

Spec == Init /\ [][Next]_vars
-----------------------------------------------------------------------------
\* Between walls no kernel stores the gradients of the first and the last column.
Unstored(a, p) ==
  /\ WallsX /\ p[1] \in {0, nx - 1}
  /\ a \in {"density_gradient", "energy_gradient", "concentration_gradient"}

\* When the driver returns, every element of every array it fills is the result of
\* the scheme on a grid without an edge: no cell, face or node on the seam is
\* computed from a neighbour on the wrong side, or left as the last sweep left it.
\* Between walls the neighbours are right too; the values of the gradients above may
\* be in the elements that depend on them.
EveryElementRight ==
  pc = "done" =>
    \A a \in Scratch \cup Outputs : \A p \in Places(KindOf(a)) :
      LET value == mem[a][At(KindOf(a), p)]
      IN value = Right(a, p) \/ Unstored(a, p) \/ (WallsX /\ value = Derived(Fold(KindOf(a), p)))

\* The flux of mass is computed from gradients that a kernel has stored.
GradientsStored ==
  pc = "flux_mass" => \A i \in DOMAIN mem["density_gradient"] : mem["density_gradient"][i] # Garbage

\* The cells whose balance takes value w of array f through the face before them,
\* and through the face after them.
TakenBefore(f, w) == {p \in Places("cell") : mem[f][CellFaceM1O(At("cell", p), p[2], nx)] = w}
TakenAfter(f, w)  == {p \in Places("cell") : mem[f][CellFaceP1O(At("cell", p), p[2], nx)] = w}

\* The sweep conserves mass and energy: a flux that enters one cell leaves exactly
\* one other, around the seam of a periodic grid too, and only a flux that is 0
\* enters or leaves the grid.
Conserves(f) ==
  \A w \in {mem[f][i] : i \in DOMAIN mem[f]} \ {Zero} :
    w # Garbage /\ Cardinality(TakenBefore(f, w)) = Cardinality(TakenAfter(f, w))

MassConserved   == pc = "mass" => Conserves("mass_flux_x")
EnergyConserved == pc = "energy" => Conserves("energy_flux_x")

\* A uniform velocity stays uniform: over the dual cell of every node, what the six
\* fluxes bring is what the masses of the four cells gain.  Each is a sum of mass
\* fluxes; Net counts how often w occurs in it.
Is(i, w) == IF mem["mass_flux_x"][i] = w THEN 1 ELSE 0
CellNet(c, w) == LET iy == c \div nx
                 IN Is(CellFaceM1O(c, iy, nx), w) - Is(CellFaceP1O(c, iy, nx), w)
Net(s, w) == CellNet(s.cells[1], w) + CellNet(s.cells[2], w)
             + CellNet(s.cells[3], w) + CellNet(s.cells[4], w)
DualNet(s, w) == Is(s.faces[1], w) + Is(s.faces[4], w) - Is(s.faces[3], w) - Is(s.faces[6], w)

Balanced(stencils) ==
  \A s \in stencils :
    \A w \in {mem["mass_flux_x"][i] : i \in DOMAIN mem["mass_flux_x"]} \ {Zero} :
      Net(s, w) = DualNet(s, w)

DualCellsBalance ==
  /\ pc \in {"project_ux", "project_uy"} => Balanced(UNION {InnerStencils(iy) : iy \in todo})
  /\ pc = "project_ux" => Balanced(BoundaryStencils("out_u"))
  /\ pc = "project_uy" /\ ~WallsX => Balanced(BoundaryStencils("out_v"))

\* The same of the velocity along the walls that the sweep meets.
WallCellsBalance == pc = "project_uy" /\ WallsX => Balanced(BoundaryStencils("out_v"))
=============================================================================
