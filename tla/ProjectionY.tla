---------------------------- MODULE ProjectionY ----------------------------
(***************************************************************************)
(* AdProjection2dMonomaterialYDriver: the remap of one material in y.      *)
(*                                                                         *)
(* As ProjectionX, with the kernels of the other direction: their loops    *)
(* leave out other elements, and so do their boundary kernels; the density *)
(* follows the mass.                                                       *)
(***************************************************************************)
EXTENDS GridArrays

\* The cells are square.  The driver passes dx where the last kernel expects dy.
CONSTANT DxIsDy

Inputs  == {"mass", "e_lag", "u_lag", "v_lag", "predicted_v", "cell_volumes"}
Scratch == {"volume_fluxes_y", "lag_volume_y", "lag_density_y", "density_gradient_y",
            "mass_flux_y", "energy_gradient_y", "energy_flux_y", "gradient_u_y",
            "gradient_v_y"}
Outputs == {"out_mass", "out_e", "out_rho", "out_u", "out_v"}

\* The first sweep.  A later one finds what this one left; it stores into the same
\* elements.
Init ==
  /\ GridInit(Inputs, {}, Scratch \cup Outputs)
  /\ pc = "volume_flux"
  /\ todo = NodeRows
-----------------------------------------------------------------------------
\* ComputeDirectionalLagrangianQuantitiesY: two loops.
VolumeFluxStores(a, iy) ==
  {LET f == FaceYAt(ix, iy, nx)
       velocities == {<<"predicted_v", 0, 0, FaceYNodeM1(f, iy, nx)>>,
                      <<"predicted_v", 1, 0, FaceYNodeP1(f, iy, nx)>>}
   IN <<f, Driven(velocities, Computed("facey", <<ix, iy>>, velocities))>> : ix \in 0 .. nx - 1}

DirectionalStores(a, iy) ==
  {LET c == CellAt(ix, iy, nx)
   IN <<c, Computed("cell", <<ix, iy>>,
             {<<"volume_fluxes_y", 0, 0, CellFaceOM1(c, iy, nx)>>,
              <<"volume_fluxes_y", 0, 1, CellFaceOP1(c, iy, nx)>>}
             \cup Here(IF a = "lag_density_y" THEN {"mass"} ELSE {}, c))>> : ix \in 0 .. nx - 1}

ComputeDirectionalLagrangianQuantitiesY ==
  \/ pc = "volume_flux" /\ RowOf({"volume_fluxes_y"}, VolumeFluxStores, "lagrangian", CellRows)
  \/ pc = "lagrangian" /\ RowOf({"lag_volume_y", "lag_density_y"}, DirectionalStores,
                                "gradient_density", 1 .. ny - 2)
-----------------------------------------------------------------------------
VariableOf(a) == CASE a \in {"density_gradient_y", "mass_flux_y"}  -> "lag_density_y"
                   [] a \in {"energy_gradient_y", "energy_flux_y", "out_e"} -> "e_lag"
                   [] a \in {"concentration_gradient_y", "concentration_flux_y", "out_c_1"} -> "c_1"
                   [] a \in {"gradient_u_y", "out_u"} -> "u_lag"
                   [] a \in {"gradient_v_y", "out_v"} -> "v_lag"

GradientOf(a) == CASE a = "mass_flux_y"   -> "density_gradient_y"
                   [] a = "energy_flux_y" -> "energy_gradient_y"
                   [] a = "concentration_flux_y" -> "concentration_gradient_y"
                   [] a = "out_u"         -> "gradient_u_y"
                   [] a = "out_v"         -> "gradient_v_y"

\* The limited gradient of a variable in a cell, given its two neighbours.
GradientAt(of, p, om1, cell, op1) ==
  Computed("cell", p,
    {<<of, 0, -1, om1>>, <<of, 0, 0, cell>>, <<of, 0, 1, op1>>,
     <<"volume_fluxes_y", 0, -1, CellFaceOM1(om1, p[2], nx)>>,
     <<"volume_fluxes_y", 0,  0, CellFaceOM1(cell, p[2], nx)>>,
     <<"volume_fluxes_y", 0,  1, CellFaceOP1(cell, p[2], nx)>>,
     <<"volume_fluxes_y", 0,  2, CellFaceOP1(op1, p[2], nx)>>})

ReconstructGradientY(a, iy) ==
  {LET c == CellAt(ix, iy, nx)
   IN <<c, GradientAt(VariableOf(a), <<ix, iy>>, CellCellOM1(c, nx), c, CellCellOP1(c, nx))>>
   : ix \in 0 .. nx - 1}

\* The cell before row 0, in row sym, as the code has it: the column is iy, which
\* is 0, and not ix.
BeforeFirst(ix, sym) == sym * nx + 0

ReconstructGradientYPeriodicBoundary(a) ==
  {LET c == CellAt(ix, 0, nx)
   IN <<c, GradientAt(VariableOf(a), <<ix, 0>>, BeforeFirst(ix, ny - 1), c, CellCellOP1(c, nx))>>
   : ix \in 0 .. nx - 1} \cup
  {LET c == CellAt(ix, ny - 1, nx)
   IN <<c, GradientAt(VariableOf(a), <<ix, ny - 1>>, CellCellOM1(c, nx), c, ix)>>
   : ix \in 0 .. nx - 1}

\* The limiter gives 0 when both neighbours are one element: the slopes are opposite.
Mirrored(p, m1, p1) == IF m1 = p1 THEN Zero ELSE Off(p)

ReconstructGradientYBoundaryRt(a) ==
  {LET c == CellAt(ix, 0, nx)
   IN <<c, Mirrored(<<ix, 0>>, BeforeFirst(ix, 1), CellCellOP1(c, nx))>> : ix \in 0 .. nx - 1} \cup
  {LET c == CellAt(ix, ny - 1, nx)
   IN <<c, Mirrored(<<ix, ny - 1>>, CellCellOM1(c, nx), (ny - 2) * nx + ix)>> : ix \in 0 .. nx - 1}

ReconstructGradientYBoundary(a) ==
  IF BoundaryConditions = "RayleighTaylor" THEN ReconstructGradientYBoundaryRt(a)
  ELSE IF BoundaryConditions = "Wall" THEN {}
  ELSE ReconstructGradientYPeriodicBoundary(a)
-----------------------------------------------------------------------------
\* The second-order flux through a face: of mass, or of energy, which the mass carries.
FluxReads(a, s) ==
  Beside({VariableOf(a), GradientOf(a)}, 0, -1, s.prev) \cup
  Beside({VariableOf(a), GradientOf(a)}, 0,  0, s.next) \cup
  {<<"volume_fluxes_y", 0, -1, CellFaceOM1(s.prev, s.at[2], nx)>>,
   <<"volume_fluxes_y", 0,  1, CellFaceOP1(s.next, s.at[2], nx)>>,
   <<IF a = "mass_flux_y" THEN "volume_fluxes_y" ELSE "mass_flux_y", 0, 0, s.face>>}

Fluxes(a, crossings) ==
  UNION {{<<f, Computed("facey", s.at, FluxReads(a, s))>> : f \in s.to} : s \in crossings}

InnerFaces(iy) ==
  {LET f == FaceYAt(ix, iy, nx)
   IN Crossing(<<ix, iy>>, {f}, FaceYCellM1(f, iy, nx), FaceYCellP1(f, iy, nx), f)
   : ix \in 0 .. nx - 1}

ReconstructFluxOrder2Y(a, iy) == Fluxes(a, InnerFaces(iy))

FirstFace(ix) == ix
LastFace(ix)  == ny * nx + ix

SeamFaces ==
  {Crossing(<<ix, 0>>, {FirstFace(ix), LastFace(ix)}, FaceYCellM1(LastFace(ix), ny, nx),
            FaceYCellP1(FirstFace(ix), 0, nx), FirstFace(ix)) : ix \in 0 .. nx - 1}

ReconstructFluxOrder2YPeriodicBoundary(a) == Fluxes(a, SeamFaces)

\* Mutant: one wall only.
ReconstructFluxOrder2YWallBoundary_OneWall(a) == {<<FirstFace(ix), Zero>> : ix \in 0 .. nx - 1}

ReconstructFluxOrder2YWallBoundary(a) ==
  UNION {{<<FirstFace(ix), Zero>>, <<LastFace(ix), Zero>>} : ix \in 0 .. nx - 1}

ReconstructFluxOrder2YBoundaryRt(a) == ReconstructFluxOrder2YWallBoundary(a)

ReconstructFluxOrder2YBoundary(a) ==
  IF BoundaryConditions = "RayleighTaylor" THEN ReconstructFluxOrder2YBoundaryRt(a)
  ELSE IF BoundaryConditions = "Wall" THEN ReconstructFluxOrder2YWallBoundary(a)
  ELSE ReconstructFluxOrder2YPeriodicBoundary(a)
-----------------------------------------------------------------------------
FluxInto(a) == IF a = "out_e" THEN "energy_flux_y" ELSE "concentration_flux_y"

\* The balances of the mass and of what it carries in a cell.
ProjectMassY(a, iy) ==
  {LET c == CellAt(ix, iy, nx)
   IN <<c, Computed("cell", <<ix, iy>>,
             Here({"mass"}, c) \cup
             {<<"mass_flux_y", 0, 0, CellFaceOM1(c, iy, nx)>>,
              <<"mass_flux_y", 0, 1, CellFaceOP1(c, iy, nx)>>})>> : ix \in 0 .. nx - 1}

MassProjectIntensiveVariableY(a, iy) ==
  {LET c == CellAt(ix, iy, nx)
   IN <<c, Computed("cell", <<ix, iy>>,
             Here({"mass", VariableOf(a), "out_mass"}, c) \cup
             {<<FluxInto(a), 0, 0, CellFaceOM1(c, iy, nx)>>,
              <<FluxInto(a), 0, 1, CellFaceOP1(c, iy, nx)>>})>> : ix \in 0 .. nx - 1}

ReconstructDensity(a, iy) ==
  {LET c == CellAt(ix, iy, nx)
   IN <<c, Computed("cell", <<ix, iy>>, Here({"out_mass", "cell_volumes"}, c))>>
   : ix \in 0 .. nx - 1}
-----------------------------------------------------------------------------
\* The limited gradient of a nodal variable, given the two nodes beside.
NodalGradientAt(of, p, om1, node, op1) ==
  Computed("node", p, Beside({of, "predicted_v"}, 0, -1, om1) \cup
                      Here({of, "predicted_v"}, node) \cup
                      Beside({of, "predicted_v"}, 0, 1, op1))

ReconstructGradientNodalY(a, iy) ==
  {LET n == NodeAt(ix, iy, nx)
   IN <<n, NodalGradientAt(VariableOf(a), <<ix, iy>>, NodeNodeOM1(n, iy, nx), n,
                                                      NodeNodeOP1(n, iy, nx))>> : ix \in 0 .. nx}

ReconstructGradientNodalYPeriodicBoundary(a) ==
  {<<ix, NodalGradientAt(VariableOf(a), <<ix, 0>>, (ny - 1) * (nx + 1) + ix, ix,
                                                   NodeNodeOP1(ix, 0, nx))>> : ix \in 0 .. nx} \cup
  {LET n == NodeAt(ix, ny, nx)
   IN <<n, NodalGradientAt(VariableOf(a), <<ix, ny>>, NodeNodeOM1(n, ny, nx), n, ix + nx + 1)>>
   : ix \in 0 .. nx}

ReconstructGradientNodalYBoundaryRt(a) ==
  {LET op1 == NodeNodeOP1(ix, 0, nx) IN <<ix, Mirrored(<<ix, 0>>, op1, op1)>> : ix \in 0 .. nx} \cup
  {LET n   == NodeAt(ix, ny, nx)
       om1 == NodeNodeOM1(n, ny, nx)
   IN <<n, Mirrored(<<ix, ny>>, om1, om1)>> : ix \in 0 .. nx}

ReconstructGradientNodalYBoundary(a) ==
  IF BoundaryConditions = "RayleighTaylor" THEN ReconstructGradientNodalYBoundaryRt(a)
  ELSE IF BoundaryConditions = "Wall" THEN {}
  ELSE ReconstructGradientNodalYPeriodicBoundary(a)
-----------------------------------------------------------------------------
\* The balance of a node over its dual cell: what it reads, and its result.
NodalReads(a, s) ==
  LET nodal == {VariableOf(a), GradientOf(a), "predicted_v"}
  IN  Beside(nodal, 0, -1, s.m1) \cup Here(nodal, s.node) \cup Beside(nodal, 0, 1, s.p1) \cup
      Quarters({"mass", "out_mass"}, s.cells[1], s.cells[2], s.cells[3], s.cells[4]) \cup
      {<<"mass_flux_y", -1, -1, s.faces[1]>>, <<"mass_flux_y", 0, -1, s.faces[2]>>,
       <<"mass_flux_y", -1,  0, s.faces[3]>>, <<"mass_flux_y", 0,  0, s.faces[4]>>,
       <<"mass_flux_y", -1,  1, s.faces[5]>>, <<"mass_flux_y", 0,  1, s.faces[6]>>}

ProjectedAt(a, s) == Computed("node", s.at, NodalReads(a, s))

Projected(a, stencils) == UNION {{<<n, ProjectedAt(a, s)>> : n \in s.to} : s \in stencils}

\* The faces around a node that is seen as l from the left and r from the right of a
\* seam; or, of a seam between two rows, as its nodes below and above.
FacesAcross(l, r, iy) ==
  <<NodeFaceYM1M1(l, iy, nx), NodeFaceYP1M1(r, iy, nx), NodeFaceYM1OO(l, iy, nx),
    NodeFaceYP1OO(r, iy, nx), NodeFaceYM1P1(l, iy, nx), NodeFaceYP1P1(r, iy, nx)>>
FacesBetween(below, above) ==
  <<NodeFaceYM1M1(below, ny, nx), NodeFaceYP1M1(below, ny, nx), NodeFaceYM1OO(above, 0, nx),
    NodeFaceYP1OO(above, 0, nx), NodeFaceYM1P1(above, 0, nx), NodeFaceYP1P1(above, 0, nx)>>

InnerStencils(iy) ==
  {LET n == NodeAt(ix, iy, nx)
   IN Stencil(<<ix, iy>>, {n}, NodeNodeOM1(n, iy, nx), n, NodeNodeOP1(n, iy, nx),
              CellsAround(n, n, n, n, iy, iy), FacesAcross(n, n, iy)) : ix \in 1 .. nx - 1}

ProjectNodalIntensiveVariableOrder2Y(a, iy) == Projected(a, InnerStencils(iy))

PeriodicSides ==
  {LET n == NodeAt(0, iy, nx)
       sym == n + nx
   IN Stencil(<<0, iy>>, {n, sym}, NodeNodeOM1(n, iy, nx), n, NodeNodeOP1(n, iy, nx),
              CellsAround(sym, n, sym, n, iy, iy), FacesAcross(sym, n, iy)) : iy \in Inner}

\* Mutant: the fluxes below the first row are taken one row of faces too low.
PeriodicEnds_RowTooLow ==
  {LET n == NodeAt(ix, 0, nx)
       sym == n + ny * (nx + 1)
   IN Stencil(<<ix, 0>>, {n, sym}, NodeNodeOM1(sym, ny, nx), n, NodeNodeOP1(n, 0, nx),
              CellsAround(sym, sym, n, n, ny, 0), FacesBetween(sym - nx, n))
   : ix \in 1 .. nx - 1}

PeriodicEnds ==
  {LET n == NodeAt(ix, 0, nx)
       sym == n + ny * (nx + 1)
   IN Stencil(<<ix, 0>>, {n, sym}, NodeNodeOM1(sym, ny, nx), n, NodeNodeOP1(n, 0, nx),
              CellsAround(sym, sym, n, n, ny, 0), FacesBetween(sym, n)) : ix \in 1 .. nx - 1}

PeriodicCorner ==
  Stencil(<<0, 0>>, CornerNodes, (ny - 1) * (nx + 1), 0, nx + 1,
          <<nx * ny - 1, (ny - 1) * nx, nx - 1, 0>>,
          <<ny * nx - 1, (ny - 1) * nx, nx - 1, 0, 2 * nx - 1, nx>>)

ProjectNodalIntensiveVariableOrder2YPeriodicBoundary ==
  PeriodicSides \cup PeriodicEnds \cup {PeriodicCorner}

ProjectNodalIntensiveVariableOrder2YBoundaryRt == PeriodicSides

\* What is beyond a wall is taken as what is before it.
ProjectNodalIntensiveVariableOrder2UyYWallBoundary ==
  {LET n  == NodeAt(0, iy, nx)
       se == NodeCellP1M1(n, iy, nx)
       ne == NodeCellP1P1(n, iy, nx)
       m1 == NodeFaceYP1M1(n, iy, nx)
       oo == NodeFaceYP1OO(n, iy, nx)
       p1 == NodeFaceYP1P1(n, iy, nx)
   IN Stencil(<<0, iy>>, {n}, NodeNodeOM1(n, iy, nx), n, NodeNodeOP1(n, iy, nx),
              <<se, se, ne, ne>>, <<m1, m1, oo, oo, p1, p1>>) : iy \in Inner} \cup
  {LET n  == NodeAt(nx, iy, nx)
       sw == NodeCellM1M1(n, iy, nx)
       nw == NodeCellM1P1(n, iy, nx)
       m1 == NodeFaceYM1M1(n, iy, nx)
       oo == NodeFaceYM1OO(n, iy, nx)
       p1 == NodeFaceYM1P1(n, iy, nx)
   IN Stencil(<<nx, iy>>, {n}, NodeNodeOM1(n, iy, nx), n, NodeNodeOP1(n, iy, nx),
              <<sw, sw, nw, nw>>, <<m1, m1, oo, oo, p1, p1>>) : iy \in Inner}

ProjectNodalIntensiveVariableOrder2UxYWallBoundary ==
  {LET n  == NodeAt(ix, 0, nx)
       nw == NodeCellM1P1(n, 0, nx)
       ne == NodeCellP1P1(n, 0, nx)
       m1p1 == NodeFaceYM1P1(n, 0, nx)
       p1p1 == NodeFaceYP1P1(n, 0, nx)
   IN Stencil(<<ix, 0>>, {n}, NodeNodeOP1(n, 0, nx), n, NodeNodeOP1(n, 0, nx), <<nw, ne, nw, ne>>,
              <<m1p1, p1p1, NodeFaceYM1OO(n, 0, nx), NodeFaceYP1OO(n, 0, nx), m1p1, p1p1>>)
   : ix \in 1 .. nx - 1} \cup
  {LET n  == NodeAt(ix, ny, nx)
       sw == NodeCellM1M1(n, ny, nx)
       se == NodeCellP1M1(n, ny, nx)
       m1m1 == NodeFaceYM1M1(n, ny, nx)
       p1m1 == NodeFaceYP1M1(n, ny, nx)
   IN Stencil(<<ix, ny>>, {n}, NodeNodeOM1(n, ny, nx), n, NodeNodeOM1(n, ny, nx), <<sw, se, sw, se>>,
              <<m1m1, p1m1, NodeFaceYM1OO(n, ny, nx), NodeFaceYP1OO(n, ny, nx), m1m1, p1m1>>)
   : ix \in 1 .. nx - 1}

BoundaryStencils(a) ==
  IF BoundaryConditions = "RayleighTaylor" THEN ProjectNodalIntensiveVariableOrder2YBoundaryRt
  ELSE IF BoundaryConditions # "Wall" THEN ProjectNodalIntensiveVariableOrder2YPeriodicBoundary
  ELSE IF a = "out_u" THEN ProjectNodalIntensiveVariableOrder2UxYWallBoundary
  ELSE ProjectNodalIntensiveVariableOrder2UyYWallBoundary

BoundaryZeros(a) ==
  IF BoundaryConditions \notin {"RayleighTaylor", "Wall"} THEN {}
  ELSE CornerNodes \cup IF BoundaryConditions = "Wall" /\ a = "out_u" THEN Sides ELSE Ends

\* The height of a cell that the driver passes: dy for out_u, dx for out_v.
PassedHeight(a) == a = "out_u" \/ DxIsDy

ProjectNodalIntensiveVariableOrder2YBoundary(a) ==
  LET stencils == BoundaryStencils(a)
  IN (IF PassedHeight(a) THEN Projected(a, stencils)
      ELSE UNION {{<<n, Off(Fold("node", s.at))>> : n \in s.to} : s \in stencils})
     \cup Zeros(BoundaryZeros(a))
-----------------------------------------------------------------------------
\* The kernels of the driver, in its order.
Gradient ==
  \/ /\ pc = "gradient_density"
     /\ RowOf({"density_gradient_y"}, ReconstructGradientY, "gradient_density_boundary", {})
  \/ /\ pc = "gradient_energy"
     /\ RowOf({"energy_gradient_y"}, ReconstructGradientY, "gradient_energy_boundary", {})

GradientBoundary ==
  \/ /\ pc = "gradient_density_boundary"
     /\ BoundaryOf({"density_gradient_y"}, ReconstructGradientYBoundary, "flux_mass", Inner)
  \/ /\ pc = "gradient_energy_boundary"
     /\ BoundaryOf({"energy_gradient_y"}, ReconstructGradientYBoundary, "flux_energy", Inner)

Flux ==
  \/ /\ pc = "flux_mass"
     /\ RowOf({"mass_flux_y"}, ReconstructFluxOrder2Y, "flux_mass_boundary", {})
  \/ /\ pc = "flux_energy"
     /\ RowOf({"energy_flux_y"}, ReconstructFluxOrder2Y, "flux_energy_boundary", {})

FluxBoundary ==
  \/ /\ pc = "flux_mass_boundary"
     /\ BoundaryOf({"mass_flux_y"}, ReconstructFluxOrder2YBoundary, "mass", CellRows)
  \/ /\ pc = "flux_energy_boundary"
     /\ BoundaryOf({"energy_flux_y"}, ReconstructFluxOrder2YBoundary, "energy", CellRows)

Balance ==
  \/ pc = "mass" /\ RowOf({"out_mass"}, ProjectMassY, "density", CellRows)
  \/ pc = "density" /\ RowOf({"out_rho"}, ReconstructDensity, "gradient_energy", 1 .. ny - 2)
  \/ pc = "energy" /\ RowOf({"out_e"}, MassProjectIntensiveVariableY, "gradient_u", Inner)

NodalGradient ==
  \/ /\ pc = "gradient_u"
     /\ RowOf({"gradient_u_y"}, ReconstructGradientNodalY, "gradient_u_boundary", {})
  \/ /\ pc = "gradient_v"
     /\ RowOf({"gradient_v_y"}, ReconstructGradientNodalY, "gradient_v_boundary", {})

NodalGradientBoundary ==
  \/ /\ pc = "gradient_u_boundary"
     /\ BoundaryOf({"gradient_u_y"}, ReconstructGradientNodalYBoundary, "project_ux", Inner)
  \/ /\ pc = "gradient_v_boundary"
     /\ BoundaryOf({"gradient_v_y"}, ReconstructGradientNodalYBoundary, "project_uy", Inner)

NodalBalance ==
  \/ /\ pc = "project_ux"
     /\ RowOf({"out_u"}, ProjectNodalIntensiveVariableOrder2Y, "project_ux_boundary", {})
  \/ /\ pc = "project_uy"
     /\ RowOf({"out_v"}, ProjectNodalIntensiveVariableOrder2Y, "project_uy_boundary", {})

NodalBalanceBoundary ==
  \/ /\ pc = "project_ux_boundary"
     /\ BoundaryOf({"out_u"}, ProjectNodalIntensiveVariableOrder2YBoundary, "gradient_v", Inner)
  \/ /\ pc = "project_uy_boundary"
     /\ BoundaryOf({"out_v"}, ProjectNodalIntensiveVariableOrder2YBoundary, "done", {})

Next == \/ ComputeDirectionalLagrangianQuantitiesY
        \/ Gradient \/ GradientBoundary \/ Flux \/ FluxBoundary \/ Balance
        \/ NodalGradient \/ NodalGradientBoundary \/ NodalBalance \/ NodalBalanceBoundary

Spec == Init /\ [][Next]_vars
-----------------------------------------------------------------------------
\* The gradients of row 0 are computed from another column (SeamGradientRight), and
\* between walls no kernel stores those of the first and the last row at all.
Unstored(a, p) ==
  \/ a \in {"density_gradient_y", "energy_gradient_y", "concentration_gradient_y"} /\ p[2] = 0
  \/ /\ BoundaryConditions = "Wall" /\ p[2] \in {0, LastY(KindOf(a))}
     /\ a \in {"density_gradient_y", "energy_gradient_y", "concentration_gradient_y",
               "gradient_u_y", "gradient_v_y"}

Sound(a, p) == LET k == KindOf(a)
               IN mem[a][At(k, p)] \in {Right(a, p), Derived(Fold(k, p))}

\* When the driver returns, every element of every array it fills was computed from
\* its own neighbours, whatever the order of the rows: no cell, face or node on the
\* seam or at a wall has the neighbours of another.  The gradients above are the only
\* exception; their error may be in the elements that depend on them.
EveryNeighbourRight ==
  pc = "done" =>
    \A a \in Scratch \cup Outputs : \A p \in Places(KindOf(a)) : Sound(a, p) \/ Unstored(a, p)

\* The gradients that the flux of mass is computed from are right, on the first and
\* the last row as everywhere: this is the same kernel as in x, turned.
SeamGradientRight == pc = "flux_mass" => IsRight(mem, "density_gradient_y")

\* The sweep makes the velocity on the boundary right when the cells are not square.
BoundaryVelocityRight ==
  pc = "done" => \A p \in Places("node") : mem["out_v"][At("node", p)] # Off(Fold("node", p))

\* The sweep conserves mass and energy: a flux that enters one cell leaves exactly
\* one other, around the seam of a periodic grid too, and only a flux that is 0
\* enters or leaves the grid.
TakenBefore(f, w) == {p \in Places("cell") : mem[f][CellFaceOM1(At("cell", p), p[2], nx)] = w}
TakenAfter(f, w)  == {p \in Places("cell") : mem[f][CellFaceOP1(At("cell", p), p[2], nx)] = w}

Conserves(f) ==
  \A w \in {mem[f][i] : i \in DOMAIN mem[f]} \ {Zero} :
    w # Garbage /\ Cardinality(TakenBefore(f, w)) = Cardinality(TakenAfter(f, w))

MassConserved   == pc = "mass" => Conserves("mass_flux_y")
EnergyConserved == pc = "energy" => Conserves("energy_flux_y")

\* A uniform velocity stays uniform: over the dual cell of every node, what the six
\* fluxes bring is what the masses of the four cells gain.
Is(i, w) == IF mem["mass_flux_y"][i] = w THEN 1 ELSE 0
CellNet(c, w) == Is(CellFaceOM1(c, c \div nx, nx), w) - Is(CellFaceOP1(c, c \div nx, nx), w)
Net(s, w) == CellNet(s.cells[1], w) + CellNet(s.cells[2], w)
             + CellNet(s.cells[3], w) + CellNet(s.cells[4], w)
DualNet(s, w) == Is(s.faces[1], w) + Is(s.faces[2], w) - Is(s.faces[5], w) - Is(s.faces[6], w)

Balanced(stencils) ==
  \A s \in stencils :
    \A w \in {mem["mass_flux_y"][i] : i \in DOMAIN mem["mass_flux_y"]} \ {Zero} :
      Net(s, w) = DualNet(s, w)

\* Not so of the velocity along a wall, as in the sweep in x.
DualCellsBalance ==
  /\ pc \in {"project_ux", "project_uy"} => Balanced(UNION {InnerStencils(iy) : iy \in todo})
  /\ pc = "project_ux" /\ BoundaryConditions # "Wall" => Balanced(BoundaryStencils("out_u"))
  /\ pc = "project_uy" => Balanced(BoundaryStencils("out_v"))
=============================================================================
