---------------------------- MODULE CornerFluxes ----------------------------
(***************************************************************************)
(* DirectProjectionCornerFluxes2dMonomaterialDriver: the remap of one      *)
(* material in both directions at once, with a flux through every corner.  *)
(*                                                                         *)
(* A node that moves in x and in y takes a piece of one of its four cells  *)
(* into the opposite one.  This corner flux has a gradient along the       *)
(* diagonal of the giving cell; the mass and the energy it carries are     *)
(* subtracted from the one and added to the other, cell by cell, in the    *)
(* array that the balance over the faces has filled; and the momentum is   *)
(* gathered for each node from the corner fluxes of nine nodes.            *)
(*                                                                         *)
(* Velocities have a sign here, the values of flow.  A node has two of     *)
(* them: the scatter goes by the predicted velocity, the gather by u_lag   *)
(* and v_lag, and the acceleration between the two may stop a node, start  *)
(* it or turn it around.  The sums that the corner fluxes enter are kept   *)
(* in ledger: an entry for each flux that was added or subtracted.         *)
(***************************************************************************)
EXTENDS GridArrays

CONSTANT Flows    \* the directions that are tried: see flow

Velocities == {"predicted_u", "predicted_v", "u_lag", "v_lag"}

ASSUME FlowsAssumption ==
  Flows \subseteq [{0, 1} \X {0, 1} -> [Velocities -> {-1, 0, 1}]]

\* The signs of the velocities of a node at a place, by whether its two coordinates are
\* even or odd; and what the corner fluxes have added up to.
VARIABLES flow, ledger

allvars == <<vars, flow, ledger>>

X == INSTANCE ProjectionX

\* This driver has one directional density for both directions.
Shared == [a \in DOMAIN mem \cup {"lag_density_y"} |->
             IF a = "lag_density_y" THEN mem["lag_density"] ELSE mem[a]]

Y == INSTANCE ProjectionY WITH DxIsDy <- TRUE, mem <- Shared

Direct == INSTANCE DirectProjection WITH mem <- Shared

FluxArrays == {"mass_corner_fluxes", "energy_flux_corner"}
Diagonals  == {"density_gradient_diag", "density_gradient_antidiag",
               "energy_gradient_diag", "energy_gradient_antidiag"}
Faces      == {"reconstructed_density_faces_x", "reconstructed_density_faces_y",
               "reconstructed_energy_faces_x", "reconstructed_energy_faces_y"}

Inputs  == X!Inputs \cup Y!Inputs
Scratch == X!Scratch \cup (Y!Scratch \ {"lag_volume_y", "lag_density_y"})
           \cup FluxArrays \cup Diagonals \cup Faces
           \cup {"volume_fluxes_corner", "sign_x_corner_fluxes", "sign_y_corner_fluxes"}
Outputs == X!Outputs
Arrays  == Inputs \cup Scratch \cup Outputs

Scatter(a) == [part |-> "scatter", outs |-> {a}]
Seam(a)    == [part |-> "seam", outs |-> {a}]

\* The calls of the driver: the fluxes and the balances of the mass, those of the energy,
\* and those of a velocity.
MassCalls == <<
  Loop({"volume_fluxes_corner", "sign_x_corner_fluxes", "sign_y_corner_fluxes"}),
  Loop({"volume_fluxes_x"}), Loop({"volume_fluxes_y"}), Loop({"lag_volume", "lag_density"}),
  Loop({"density_gradient"}), Loop({"density_gradient_y"}),
  Loop({"density_gradient_diag", "density_gradient_antidiag"}),
  Boundary({"density_gradient"}), Boundary({"density_gradient_y"}),
  Boundary({"density_gradient_diag", "density_gradient_antidiag"}),
  Loop({"mass_flux_x", "reconstructed_density_faces_x"}),
  Loop({"mass_flux_y", "reconstructed_density_faces_y"}),
  Boundary({"mass_flux_x", "reconstructed_density_faces_x"}),
  Boundary({"mass_flux_y", "reconstructed_density_faces_y"}),
  Loop({"mass_corner_fluxes"}), Boundary({"mass_corner_fluxes"}),
  Loop({"out_mass"}), Scatter("out_mass"), Seam("out_mass") >>

EnergyCalls == <<
  Loop({"energy_gradient"}), Loop({"energy_gradient_y"}),
  Boundary({"energy_gradient"}), Boundary({"energy_gradient_y"}),
  Loop({"energy_flux_x", "reconstructed_energy_faces_x"}),
  Loop({"energy_flux_y", "reconstructed_energy_faces_y"}),
  Boundary({"energy_flux_x", "reconstructed_energy_faces_x"}),
  Boundary({"energy_flux_y", "reconstructed_energy_faces_y"}),
  Loop({"energy_flux_corner"}), Boundary({"energy_flux_corner"}),
  Loop({"out_e"}), Scatter("out_e"), Seam("out_e") >>

VelocityCalls(gradient, gradient_y, out) == <<
  Loop({gradient}), Loop({gradient_y}), Boundary({gradient}), Boundary({gradient_y}),
  Loop({out}), Boundary({out}), Scatter(out), Seam(out) >>

Driver ==
  MassCalls \o EnergyCalls \o VelocityCalls("gradient_u", "gradient_u_y", "out_u")
  \o VelocityCalls("gradient_v", "gradient_v_y", "out_v") \o << Loop({"out_rho"}) >>

\* Mutant: the first loop has one row too many.
Rows_OneMore(call) ==
  IF call.part = "scatter" THEN Inner
  ELSE IF call.part = "loop" /\ call.outs \cap {"volume_fluxes_corner"} # {} THEN NodeRows
  ELSE IF call.part = "loop" /\ call.outs \cap Diagonals # {} THEN 1 .. ny - 2
  ELSE IF call.part = "loop" /\ call.outs \cap FluxArrays # {} THEN 1 .. ny + 2
  ELSE Direct!Rows(call)

Rows(call) ==
  IF call.part = "scatter" THEN Inner
  ELSE IF call.part = "loop" /\ call.outs \cap {"volume_fluxes_corner"} # {} THEN NodeRows
  ELSE IF call.part = "loop" /\ call.outs \cap Diagonals # {} THEN 1 .. ny - 2
  ELSE IF call.part = "loop" /\ call.outs \cap FluxArrays # {} THEN Inner
  ELSE Direct!Rows(call)

Init ==
  /\ GridInit(Inputs, X!Zeroed, Scratch \cup Outputs)
  /\ pc = 1
  /\ todo = NodeRows
  /\ flow \in Flows
  /\ ledger = {}
-----------------------------------------------------------------------------
\* The sign of the value that array a has for node n.
Sign(a, n) ==
  LET w == mem[a][n]
  IN IF w \in {Zero, Garbage} THEN 0
     ELSE flow[<<w[1] % 2, w[2] % 2>>][a]

Still(n) == Sign("predicted_u", n) = 0 \/ Sign("predicted_v", n) = 0

\* ComputeDirectionalLagrangianQuantitiesCornerFluxesXY: four loops.
VelocityOf(a) == CASE a = "volume_fluxes_corner" -> {"predicted_u", "predicted_v"}
                   [] a = "sign_x_corner_fluxes" -> {"predicted_u"}
                   [] a = "sign_y_corner_fluxes" -> {"predicted_v"}

CornerVolumes(a, iy) ==
  {LET n == NodeAt(ix, iy, nx)
   IN <<n, Computed("node", <<ix, iy>>, Here(VelocityOf(a), n))>> : ix \in 0 .. nx}

FaceVolumesX(a, iy) ==
  {LET f == FaceXAt(ix, iy, nx)
       velocities(A) == Here(A, FaceXNodeM1(f, iy, nx)) \cup Beside(A, 0, 1, FaceXNodeP1(f, iy, nx))
   IN <<f, Driven(velocities({"predicted_u"}),
                  Computed("facex", <<ix, iy>>, velocities({"predicted_u", "predicted_v"})))>>
   : ix \in 0 .. nx}

FaceVolumesY(a, iy) ==
  {LET f == FaceYAt(ix, iy, nx)
       velocities(A) == Here(A, FaceYNodeM1(f, iy, nx)) \cup Beside(A, 1, 0, FaceYNodeP1(f, iy, nx))
   IN <<f, Driven(velocities({"predicted_v"}),
                  Computed("facey", <<ix, iy>>, velocities({"predicted_u", "predicted_v"})))>>
   : ix \in 0 .. nx - 1}

Directional(a, iy) ==
  {LET c == CellAt(ix, iy, nx)
   IN <<c, Computed("cell", <<ix, iy>>,
             Direct!FourFaces(c, iy, "volume_fluxes_x", "volume_fluxes_y") \cup
             Corners({"predicted_u", "predicted_v"},
                     CellNodeM1M1(c, iy, nx), CellNodeP1M1(c, iy, nx),
                     CellNodeM1P1(c, iy, nx), CellNodeP1P1(c, iy, nx)) \cup
             Here(IF a = "lag_density" THEN {"mass"} ELSE {}, c))>> : ix \in 0 .. nx - 1}
-----------------------------------------------------------------------------
\* The gradients of a variable along both diagonals of a cell, given the four cells
\* beyond its corners, in the rows below and above.
Diagonal(ix, iy, m1m1, p1m1, m1p1, p1p1, below, above) ==
  [at |-> <<ix, iy>>, m1m1 |-> m1m1, p1m1 |-> p1m1, m1p1 |-> m1p1, p1p1 |-> p1p1,
   below |-> below, above |-> above]

DiagonalReads(a, s) ==
  LET iy == s.at[2]
      c  == CellAt(s.at[1], iy, nx)
      of == "lag_density"
      velocity == {"predicted_u", "predicted_v"}
  IN Here({of}, c) \cup
     IF a = "density_gradient_diag"
     THEN {<<of, -1, -1, s.m1m1>>, <<of, 1, 1, s.p1p1>>} \cup
          Here(velocity, CellNodeM1M1(c, iy, nx)) \cup
          Beside(velocity, 1, 1, CellNodeP1P1(c, iy, nx)) \cup
          Beside(velocity, -1, -1, CellNodeM1M1(s.m1m1, s.below, nx)) \cup
          Beside(velocity, 2, 2, CellNodeP1P1(s.p1p1, s.above, nx))
     ELSE {<<of, 1, -1, s.p1m1>>, <<of, -1, 1, s.m1p1>>} \cup
          Beside(velocity, 1, 0, CellNodeP1M1(c, iy, nx)) \cup
          Beside(velocity, 0, 1, CellNodeM1P1(c, iy, nx)) \cup
          Beside(velocity, 2, -1, CellNodeP1M1(s.p1m1, s.below, nx)) \cup
          Beside(velocity, -1, 2, CellNodeM1P1(s.m1p1, s.above, nx))

Gradients(a, diagonals) ==
  {<<CellAt(s.at[1], s.at[2], nx), Computed("cell", s.at, DiagonalReads(a, s))>> : s \in diagonals}

ReconstructGradientDiag(a, iy) ==
  Gradients(a,
    {LET c == CellAt(ix, iy, nx)
     IN Diagonal(ix, iy, CellCellM1M1(c, nx), CellCellP1M1(c, nx),
                 CellCellM1P1(c, nx), CellCellP1P1(c, nx), iy - 1, iy + 1) : ix \in 1 .. nx - 2})

\* Both sides, both ends and the four corners.
DiagonalSides ==
  UNION {LET first == CellAt(0, iy, nx)
             last  == CellAt(nx - 1, iy, nx)
         IN {Diagonal(0, iy, CellCellOM1(last, nx), CellCellP1M1(first, nx),
                      CellCellOP1(last, nx), CellCellP1P1(first, nx), iy - 1, iy + 1),
             Diagonal(nx - 1, iy, CellCellM1M1(last, nx), CellCellOM1(first, nx),
                      CellCellM1P1(last, nx), CellCellOP1(first, nx), iy - 1, iy + 1)}
         : iy \in 1 .. ny - 2}

\* Mutant: beyond the first row is the last but one.
DiagonalEnds_RowTooLow ==
  UNION {LET first == CellAt(ix, 0, nx)
             last  == CellAt(ix, ny - 2, nx)
         IN {Diagonal(ix, 0, CellCellM1O(last, nx), CellCellP1O(last, nx),
                      CellCellM1P1(first, nx), CellCellP1P1(first, nx), ny - 2, 1)}
         : ix \in 1 .. nx - 2}

DiagonalEnds ==
  UNION {LET first == CellAt(ix, 0, nx)
             last  == CellAt(ix, ny - 1, nx)
         IN {Diagonal(ix, 0, CellCellM1O(last, nx), CellCellP1O(last, nx),
                      CellCellM1P1(first, nx), CellCellP1P1(first, nx), ny - 1, 1),
             Diagonal(ix, ny - 1, CellCellM1M1(last, nx), CellCellP1M1(last, nx),
                      CellCellM1O(first, nx), CellCellP1O(first, nx), ny - 2, 0)}
         : ix \in 1 .. nx - 2}

DiagonalCorners ==
  LET sw == CellAt(0, 0, nx)
      se == CellAt(nx - 1, 0, nx)
      nw == CellAt(0, ny - 1, nx)
      ne == CellAt(nx - 1, ny - 1, nx)
  IN {Diagonal(0, 0, ne, CellCellP1O(nw, nx), CellCellOP1(se, nx), CellCellP1P1(sw, nx),
               ny - 1, 1),
      Diagonal(nx - 1, 0, CellCellM1O(ne, nx), nw, CellCellM1P1(se, nx), CellCellOP1(sw, nx),
               ny - 1, 1),
      Diagonal(0, ny - 1, CellCellOM1(ne, nx), CellCellP1M1(nw, nx), se, CellCellP1O(sw, nx),
               ny - 2, 0),
      Diagonal(nx - 1, ny - 1, CellCellM1M1(ne, nx), CellCellOM1(nw, nx), CellCellM1O(se, nx), sw,
               ny - 2, 0)}

ReconstructGradientDiagPeriodicBoundary(a) ==
  Gradients(a, DiagonalSides \cup DiagonalEnds \cup DiagonalCorners)

\* At a wall the cell beyond is the one before it.
WallCells ==
  UNION {LET first == CellAt(0, iy, nx)
             last  == CellAt(nx - 1, iy, nx)
         IN {Diagonal(0, iy, CellCellOM1(first, nx), CellCellP1M1(first, nx),
                      CellCellOP1(first, nx), CellCellP1P1(first, nx), iy - 1, iy + 1),
             Diagonal(nx - 1, iy, CellCellM1M1(last, nx), CellCellOM1(last, nx),
                      CellCellM1P1(last, nx), CellCellOP1(last, nx), iy - 1, iy + 1)}
         : iy \in 1 .. ny - 2} \cup
  UNION {LET first == CellAt(ix, 0, nx)
             last  == CellAt(ix, ny - 1, nx)
         IN {Diagonal(ix, 0, CellCellM1O(first, nx), CellCellP1O(first, nx),
                      CellCellM1P1(first, nx), CellCellP1P1(first, nx), 0, 1),
             Diagonal(ix, ny - 1, CellCellM1M1(last, nx), CellCellP1M1(last, nx),
                      CellCellM1O(last, nx), CellCellP1O(last, nx), ny - 2, ny - 1)}
         : ix \in 1 .. nx - 2}

WallCorners ==
  LET sw == CellAt(0, 0, nx)
      se == CellAt(nx - 1, 0, nx)
      nw == CellAt(0, ny - 1, nx)
      ne == CellAt(nx - 1, ny - 1, nx)
  IN {Diagonal(0, 0, sw, CellCellP1O(sw, nx), CellCellOP1(sw, nx), CellCellP1P1(sw, nx), 0, 1),
      Diagonal(nx - 1, 0, CellCellM1O(se, nx), se, CellCellM1P1(se, nx), CellCellOP1(se, nx), 0, 1),
      Diagonal(0, ny - 1, CellCellOM1(nw, nx), CellCellP1M1(nw, nx), nw, CellCellP1O(nw, nx),
               ny - 2, ny - 1),
      Diagonal(nx - 1, ny - 1, CellCellM1M1(ne, nx), CellCellOM1(ne, nx), CellCellM1O(ne, nx), ne,
               ny - 2, ny - 1)}

ReconstructGradientDiagBoundaryWall(a) == Gradients(a, WallCells \cup WallCorners)

ReconstructGradientDiagBoundary(a) ==
  IF BoundaryConditions = "Wall" THEN ReconstructGradientDiagBoundaryWall(a)
  ELSE ReconstructGradientDiagPeriodicBoundary(a)
-----------------------------------------------------------------------------
\* The fluxes through the faces are those of the sweeps, of a face whose ends move along
\* it too; the value that was reconstructed at the face is kept.
FluxOf(a) == CASE a = "reconstructed_density_faces_x" -> "mass_flux_x"
               [] a = "reconstructed_energy_faces_x"  -> "energy_flux_x"
               [] a = "reconstructed_density_faces_y" -> "mass_flux_y"
               [] a = "reconstructed_energy_faces_y"  -> "energy_flux_y"
               [] OTHER -> a

FluxesX(a, crossings) ==
  UNION {{<<f, Computed("facex", s.at,
                 X!FluxReads(FluxOf(a), s) \cup
                 {<<"volume_fluxes_x", 0, 0, s.face>>,
                  <<"predicted_v", 0, 0, FaceXNodeM1(s.face, s.at[2], nx)>>,
                  <<"predicted_v", 0, 1, FaceXNodeP1(s.face, s.at[2], nx)>>})>>
          : f \in s.to} : s \in crossings}

FluxesY(a, crossings) ==
  UNION {{<<f, Y!Computed("facey", s.at,
                 Y!FluxReads(FluxOf(a), s) \cup
                 {<<"volume_fluxes_y", 0, 0, s.face>>,
                  <<"predicted_u", 0, 0, FaceYNodeM1(s.face, s.at[2], nx)>>,
                  <<"predicted_u", 1, 0, FaceYNodeP1(s.face, s.at[2], nx)>>})>>
          : f \in s.to} : s \in crossings}

FluxOrder2XCornerFluxes(a, iy) == FluxesX(a, X!InnerFaces(iy))
FluxOrder2YCornerFluxes(a, iy) == FluxesY(a, Y!InnerFaces(iy))

FluxOrder2XCornerFluxesPeriodicBoundary(a) == FluxesX(a, X!SeamFaces)

FluxOrder2XCornerFluxesBoundaryWall(a) == X!ReconstructFluxOrder2XWallBoundary(a)

FluxOrder2XCornerFluxesBoundary(a) ==
  IF BoundaryConditions = "Wall" THEN FluxOrder2XCornerFluxesBoundaryWall(a)
  ELSE FluxOrder2XCornerFluxesPeriodicBoundary(a)

FluxOrder2YCornerFluxesPeriodicBoundary(a) == FluxesY(a, Y!SeamFaces)

FluxOrder2YCornerFluxesBoundaryWall(a) == Y!ReconstructFluxOrder2YWallBoundary(a)

FluxOrder2YCornerFluxesBoundary(a) ==
  IF BoundaryConditions = "Wall" THEN FluxOrder2YCornerFluxesBoundaryWall(a)
  ELSE FluxOrder2YCornerFluxesPeriodicBoundary(a)
-----------------------------------------------------------------------------
\* A node with its four cells, which are in the rows below and above; the flux of the
\* place at is stored to the nodes to.
Corner(at, to, node, cells, below, above) ==
  [at |-> at, to |-> to, node |-> node, cells |-> cells, below |-> below, above |-> above]

InnerCorners(iy) ==
  {LET n == NodeAt(ix, iy, nx)
   IN Corner(<<ix, iy>>, {n}, n, CellsAround(n, n, n, n, iy, iy), iy - 1, iy) : ix \in 1 .. nx - 1}

SeamSides ==
  {LET n == NodeAt(0, iy, nx)
       sym == n + nx
   IN Corner(<<0, iy>>, {n, sym}, n, CellsAround(sym, n, sym, n, iy, iy), iy - 1, iy) : iy \in Inner}

SeamEnds ==
  {LET n == NodeAt(ix, 0, nx)
       sym == NodeAt(ix, ny, nx)
   IN Corner(<<ix, 0>>, {n, sym}, n, CellsAround(sym, sym, n, n, ny, 0), ny - 1, 0)
   : ix \in 1 .. nx - 1}

SeamCorner ==
  Corner(<<0, 0>>, CornerNodes, 0, <<nx * (ny - 1) + nx - 1, nx * (ny - 1), nx - 1, 0>>, ny - 1, 0)

SeamCorners == SeamSides \cup SeamEnds \cup {SeamCorner}

\* The cells that give and that receive the piece a moving node takes along: opposite
\* ones, of sw, se, nw and ne.
Giving(s) ==
  IF Sign("predicted_u", s.node) = 1
  THEN IF Sign("predicted_v", s.node) = 1 THEN 1 ELSE 3
  ELSE IF Sign("predicted_v", s.node) = 1 THEN 2 ELSE 4
Receiving(s) == 5 - Giving(s)

\* Where the cells sw, se, nw and ne are from the node.
Quarter == <<<<-1, -1>>, <<0, -1>>, <<-1, 0>>, <<0, 0>>>>

CornerVariable(a) == IF a = "mass_corner_fluxes" THEN "lag_density" ELSE "e_lag"
CornerCarrier(a)  == IF a = "mass_corner_fluxes" THEN "volume_fluxes_corner" ELSE "mass_corner_fluxes"
CornerGradient(a, g) ==
  CASE a = "mass_corner_fluxes" /\ g \in {1, 4} -> "density_gradient_diag"
    [] a = "mass_corner_fluxes" /\ g \in {2, 3} -> "density_gradient_antidiag"
    [] a = "energy_flux_corner" /\ g \in {1, 4} -> "energy_gradient_diag"
    [] a = "energy_flux_corner" /\ g \in {2, 3} -> "energy_gradient_antidiag"

\* The flux is computed from the giving cell and two nodes of it.
CornerReads(a, s) ==
  LET g  == Giving(s)
      q  == Quarter[g]
      c  == s.cells[g]
      iy == IF g \in {1, 2} THEN s.below ELSE s.above
      velocity == {"predicted_u", "predicted_v"}
  IN Here({CornerCarrier(a)} \cup velocity, s.node) \cup
     Beside({CornerVariable(a), CornerGradient(a, g)}, q[1], q[2], c) \cup
     IF g \in {1, 4}
     THEN Beside(velocity, q[1], q[2], CellNodeM1M1(c, iy, nx)) \cup
          Beside(velocity, q[1] + 1, q[2] + 1, CellNodeP1P1(c, iy, nx))
     ELSE Beside(velocity, q[1], q[2] + 1, CellNodeM1P1(c, iy, nx)) \cup
          Beside(velocity, q[1] + 1, q[2], CellNodeP1M1(c, iy, nx))

\* A node that is still has the flux 0, as the place has; its twins keep what they had.
CornerFluxStores(a, corners) ==
  UNION {IF Still(s.node) THEN {<<s.node, Fold("node", s.at)>>}
         ELSE {<<n, Computed("node", s.at, CornerReads(a, s))>> : n \in s.to} : s \in corners}

FluxOrder2DiagCorner(a, iy) == CornerFluxStores(a, InnerCorners(iy))

FluxOrder2DiagCornerPeriodicBoundary(a) == CornerFluxStores(a, SeamCorners)

FluxOrder2DiagCornerBoundaryWall == Zeros(CornerNodes \cup Sides \cup Ends)

FluxOrder2DiagCornerBoundary(a) ==
  IF BoundaryConditions = "Wall" THEN FluxOrder2DiagCornerBoundaryWall
  ELSE FluxOrder2DiagCornerPeriodicBoundary(a)
-----------------------------------------------------------------------------
\* The entries that the corners make for an array a of cells: what the flux of the node
\* takes from one cell and gives to the other, where it is not 0.
Carried(a) == CASE a = "out_mass" -> "mass_corner_fluxes"
                [] a = "out_e"    -> "energy_flux_corner"

Source(w) == IF w = Garbage THEN Garbage ELSE <<w[1], w[2]>>

\* from tells the terms of one sum apart: the node, and where it is from the element.
Entry(a, i, from, gain, w) ==
  [of |-> a, at |-> i, from |-> from, gain |-> gain, flux |-> Source(w)]

Transfers(a, corners) ==
  UNION {LET w == mem[Carried(a)][s.node]
         IN {Entry(a, s.cells[Giving(s)], <<s.node, Quarter[Giving(s)]>>, -1, w),
             Entry(a, s.cells[Receiving(s)], <<s.node, Quarter[Receiving(s)]>>, 1, w)}
         : s \in {t \in corners : ~Still(t.node) /\ mem[Carried(a)][t.node] # Zero}}

\* What becomes of the cells, each at its own place, as its node is a corner of it.
ScatterStores(a, corners) ==
  LET touched == {t \in corners \X (1 .. 4) : /\ ~Still(t[1].node)
                                               /\ t[2] \in {Giving(t[1]), Receiving(t[1])}}
  IN {LET c == t[1].cells[t[2]]
      IN <<c, Computed("cell", <<c % nx, c \div nx>>,
                Here({a, "out_mass"}, c) \cup
                {<<Carried(a), -Quarter[r[2]][1], -Quarter[r[2]][2], r[1].node>>
                 : r \in {r \in touched : r[1].cells[r[2]] = c}})>> : t \in touched}
-----------------------------------------------------------------------------
\* The momentum of a node: the nodes around it, row by row from the lower left.
Around(at, to, node, nodes, cells) ==
  [at |-> at, to |-> to, node |-> node, nodes |-> nodes, cells |-> cells]

Nine == <<<<-1, -1>>, <<0, -1>>, <<1, -1>>, <<-1, 0>>, <<0, 0>>, <<1, 0>>, <<-1, 1>>, <<0, 1>>, <<1, 1>>>>

InnerAround(iy) ==
  {LET n == NodeAt(ix, iy, nx)
   IN Around(<<ix, iy>>, {n}, n,
        <<NodeNodeM1M1(n, iy, nx), NodeNodeOM1(n, iy, nx), NodeNodeP1M1(n, iy, nx),
          NodeNodeM1O(n, iy, nx), n, NodeNodeP1O(n, iy, nx),
          NodeNodeM1P1(n, iy, nx), NodeNodeOP1(n, iy, nx), NodeNodeP1P1(n, iy, nx)>>,
        CellsAround(n, n, n, n, iy, iy)) : ix \in 1 .. nx - 1}

\* The node on the left is taken from the first node of the row and not from the last.
SidesAround ==
  {LET n == NodeAt(0, iy, nx)
       sym == n + nx
   IN Around(<<0, iy>>, {n, sym}, n,
        <<NodeNodeM1M1(sym, iy, nx), NodeNodeOM1(sym, iy, nx), NodeNodeP1M1(n, iy, nx),
          NodeNodeM1O(n, iy, nx), n, NodeNodeP1O(n, iy, nx),
          NodeNodeM1P1(sym, iy, nx), NodeNodeOP1(n, iy, nx), NodeNodeP1P1(n, iy, nx)>>,
        CellsAround(sym, n, sym, n, iy, iy)) : iy \in Inner}

\* Mutant: the nodes above are taken for the nodes below.
EndsAround_Above ==
  {LET n == NodeAt(ix, 0, nx)
       sym == NodeAt(ix, ny, nx)
   IN Around(<<ix, 0>>, {n, sym}, n,
        <<NodeNodeM1P1(n, 0, nx), NodeNodeOP1(n, 0, nx), NodeNodeP1P1(n, 0, nx),
          NodeNodeM1O(n, 0, nx), n, NodeNodeP1O(n, 0, nx),
          NodeNodeM1P1(n, 0, nx), NodeNodeOP1(n, 0, nx), NodeNodeP1P1(n, 0, nx)>>,
        CellsAround(sym, sym, n, n, ny, 0)) : ix \in 1 .. nx - 1}

EndsAround ==
  {LET n == NodeAt(ix, 0, nx)
       sym == NodeAt(ix, ny, nx)
   IN Around(<<ix, 0>>, {n, sym}, n,
        <<NodeNodeM1M1(sym, ny, nx), NodeNodeOM1(sym, ny, nx), NodeNodeP1M1(sym, ny, nx),
          NodeNodeM1O(n, 0, nx), n, NodeNodeP1O(n, 0, nx),
          NodeNodeM1P1(n, 0, nx), NodeNodeOP1(n, 0, nx), NodeNodeP1P1(n, 0, nx)>>,
        CellsAround(sym, sym, n, n, ny, 0)) : ix \in 1 .. nx - 1}

CornerAround ==
  LET x  == nx
      y  == (nx + 1) * ny
      xy == (nx + 1) * (ny + 1) - 1
  IN Around(<<0, 0>>, CornerNodes, 0,
       <<NodeNodeM1M1(xy, ny, nx), NodeNodeOM1(y, ny, nx), NodeNodeP1M1(y, ny, nx),
         NodeNodeM1O(x, 0, nx), 0, NodeNodeP1O(0, 0, nx),
         NodeNodeM1P1(x, 0, nx), NodeNodeOP1(0, 0, nx), NodeNodeP1P1(0, 0, nx)>>,
       <<nx * ny - 1, nx * (ny - 1), nx - 1, 0>>)

SeamAround == SidesAround \cup EndsAround \cup {CornerAround}

\* The corners of the dual cell that the flux of a neighbour goes through, and how: the
\* direction is that of the velocity at the end of the Lagrange phase.
SW == {-1, 0} \X {-1, 0}
SE == {0, 1} \X {-1, 0}
NW == {-1, 0} \X {0, 1}
NE == {0, 1} \X {0, 1}

\* Mutant: the direction is that of the corner flux of mass.
Through_Predicted(n, d) ==
  LET su == Sign("predicted_u", n)
      sv == Sign("predicted_v", n)
      gains == IF su * sv > 0 THEN {<<SW, su>>, <<NE, -su>>}
               ELSE IF su * sv < 0 THEN {<<SE, sv>>, <<NW, -sv>>} ELSE {}
  IN {g[2] : g \in {g \in gains : d \in g[1]}}

Through(n, d) ==
  LET su == Sign("u_lag", n)
      sv == Sign("v_lag", n)
      gains == IF su * sv > 0 THEN {<<SW, su>>, <<NE, -su>>}
               ELSE IF su * sv < 0 THEN {<<SE, sv>>, <<NW, -sv>>} ELSE {}
  IN {g[2] : g \in {g \in gains : d \in g[1]}}

MomentumEntries(a, arounds) ==
  UNION {UNION {{Entry(a, n, <<s.nodes[k], Nine[k]>>, gain, mem["mass_corner_fluxes"][s.nodes[k]])
                 : n \in s.to, gain \in Through(s.nodes[k], Nine[k])}
                : k \in {k \in 1 .. 9 : mem["mass_corner_fluxes"][s.nodes[k]] # Zero}} : s \in arounds}

MomentumReads(a, s) ==
  Here({a}, s.node) \cup
  Quarters({"out_mass"}, s.cells[1], s.cells[2], s.cells[3], s.cells[4]) \cup
  UNION {Beside({"u_lag", "v_lag"} \cup
                IF Through(s.nodes[k], Nine[k]) # {} THEN {"mass_corner_fluxes"} ELSE {},
                Nine[k][1], Nine[k][2], s.nodes[k]) : k \in 1 .. 9}

MomentumStores(a, arounds) ==
  UNION {{<<n, Computed("node", s.at, MomentumReads(a, s))>> : n \in s.to} : s \in arounds}
-----------------------------------------------------------------------------
\* The kernels of the driver that store into one array.
LoopStores(a, iy) ==
  CASE a \in {"volume_fluxes_corner", "sign_x_corner_fluxes", "sign_y_corner_fluxes"}
                                    -> CornerVolumes(a, iy)
    [] a = "volume_fluxes_x"        -> FaceVolumesX(a, iy)
    [] a = "volume_fluxes_y"        -> FaceVolumesY(a, iy)
    [] a \in {"lag_volume", "lag_density"} -> Directional(a, iy)
    [] a \in Diagonals              -> ReconstructGradientDiag(a, iy)
    [] a \in {"mass_flux_x", "energy_flux_x",
              "reconstructed_density_faces_x", "reconstructed_energy_faces_x"}
                                    -> FluxOrder2XCornerFluxes(a, iy)
    [] a \in {"mass_flux_y", "energy_flux_y",
              "reconstructed_density_faces_y", "reconstructed_energy_faces_y"}
                                    -> FluxOrder2YCornerFluxes(a, iy)
    [] a \in FluxArrays             -> FluxOrder2DiagCorner(a, iy)
    [] OTHER                        -> Direct!LoopStores(a, iy)

BoundaryStores(a) ==
  CASE a \in Diagonals -> ReconstructGradientDiagBoundary(a)
    [] a \in {"mass_flux_x", "energy_flux_x",
              "reconstructed_density_faces_x", "reconstructed_energy_faces_x"}
                       -> FluxOrder2XCornerFluxesBoundary(a)
    [] a \in {"mass_flux_y", "energy_flux_y",
              "reconstructed_density_faces_y", "reconstructed_energy_faces_y"}
                       -> FluxOrder2YCornerFluxesBoundary(a)
    [] a \in FluxArrays -> FluxOrder2DiagCornerBoundary(a)
    [] OTHER           -> Direct!BoundaryStores(a)

Row  == LoopRow(Driver, LoopStores, Rows) /\ UNCHANGED <<flow, ledger>>
Edge == BoundaryCall(Driver, BoundaryStores, Rows) /\ UNCHANGED <<flow, ledger>>

\* The array a takes what the corners, or the nodes around, have for it.
Scattered(a, entries, stores) ==
  /\ ledger' = ledger \cup entries
  /\ mem'    = [mem EXCEPT ![a] = Stored(@, stores)]
  /\ UNCHANGED flow

Calls(part, a) == pc \in DOMAIN Driver /\ Driver[pc] = [part |-> part, outs |-> {a}]

ProjectCellsCornerFluxes(a) ==
  /\ Calls("scatter", a)
  /\ \E iy \in todo : /\ Scattered(a, Transfers(a, InnerCorners(iy)), ScatterStores(a, InnerCorners(iy)))
                      /\ RowDone(iy, pc + 1, {})

ProjectNodalIntensiveVariableCornerFluxes(a) ==
  /\ Calls("scatter", a)
  /\ \E iy \in todo : /\ Scattered(a, MomentumEntries(a, InnerAround(iy)), MomentumStores(a, InnerAround(iy)))
                      /\ RowDone(iy, pc + 1, {})

\* The interfaces of these kernels know the periodic boundary only: with another name
\* nothing is done.
SeamReturns ==
  /\ pc'   = pc + 1
  /\ todo' = RowsFor(Driver, pc + 1, Rows)
  /\ UNCHANGED <<nx, ny, BoundaryConditions>>

\* Mutant: both twins of a side give and receive.
ProjectCellsCornerFluxesBoundary_Twins(a) ==
  /\ Calls("seam", a)
  /\ IF BoundaryConditions = "periodic"
     THEN LET corners == SeamCorners \cup {[s EXCEPT !.node = @ + nx] : s \in SeamSides}
          IN Scattered(a, Transfers(a, corners), ScatterStores(a, corners))
     ELSE UNCHANGED <<mem, flow, ledger>>
  /\ SeamReturns

ProjectCellsCornerFluxesBoundary(a) ==
  /\ Calls("seam", a)
  /\ IF BoundaryConditions = "periodic"
     THEN Scattered(a, Transfers(a, SeamCorners), ScatterStores(a, SeamCorners))
     ELSE UNCHANGED <<mem, flow, ledger>>
  /\ SeamReturns

ProjectNodalIntensiveVariableCornerFluxesBoundary(a) ==
  /\ Calls("seam", a)
  /\ IF BoundaryConditions = "periodic"
     THEN Scattered(a, MomentumEntries(a, SeamAround), MomentumStores(a, SeamAround))
     ELSE UNCHANGED <<mem, flow, ledger>>
  /\ SeamReturns

ProjectCells == \E a \in {"out_mass", "out_e"} : ProjectCellsCornerFluxes(a)
ProjectNodes == \E a \in {"out_u", "out_v"} : ProjectNodalIntensiveVariableCornerFluxes(a)
SeamCells    == \E a \in {"out_mass", "out_e"} : ProjectCellsCornerFluxesBoundary(a)
SeamNodes    == \E a \in {"out_u", "out_v"} : ProjectNodalIntensiveVariableCornerFluxesBoundary(a)

Next == Row \/ Edge \/ ProjectCells \/ ProjectNodes \/ SeamCells \/ SeamNodes

Spec == Init /\ [][Next]_allvars
-----------------------------------------------------------------------------
\* Type invariant: the arrays keep their sizes, and hold values of the model; the
\* entries are of the arrays that the corners change.
TypeOK ==
  /\ ArraysOK(Arrays)
  /\ flow \in Flows
  /\ \A e \in ledger : /\ e.of \in {"out_mass", "out_e", "out_u", "out_v"}
                       /\ e.at \in DOMAIN mem[e.of]
                       /\ e.gain \in {-1, 1}

Done == pc = Len(Driver) + 1

\* The call has returned: a later one runs.
Returned(call) == \E k \in DOMAIN Driver : Driver[k] = call /\ k < pc

Moves(p) == ~Still(At("node", p))

\* The cells that the velocity <<u, v>> of a node comes from and leads to.
ComesFrom(u, v, p) ==
  Fold("cell", <<IF Sign(u, At("node", p)) = 1 THEN p[1] - 1 ELSE p[1],
                 IF Sign(v, At("node", p)) = 1 THEN p[2] - 1 ELSE p[2]>>)
LeadsTo(u, v, p) ==
  Fold("cell", <<IF Sign(u, At("node", p)) = 1 THEN p[1] ELSE p[1] - 1,
                 IF Sign(v, At("node", p)) = 1 THEN p[2] ELSE p[2] - 1>>)

\* Where the piece that a node takes along comes from, and where it goes.
Upstream(p)   == ComesFrom("predicted_u", "predicted_v", p)
Downstream(p) == LeadsTo("predicted_u", "predicted_v", p)

\* The nodes, the twins on the seams of a periodic grid as one.
Nodes == {Fold("node", q) : q \in Places("node")}

\* What the entries of array a for element i add up to, in flux w.
Sum(a, i, w) ==
  LET of(gain) == Cardinality({e \in ledger : e.of = a /\ e.at = i /\ e.flux = w /\ e.gain = gain})
  IN of(1) - of(-1)

\* When the corners are done, each piece that moves has left the cell it comes from and
\* entered the opposite one, once, on the seams of a periodic grid too; nothing else
\* was added or subtracted.
CornerFluxesCross ==
  \A a \in {"out_mass", "out_e"} :
    Returned(Seam(a)) /\ BoundaryConditions \in {"periodic", "Wall"} =>
      \A p \in Nodes : \A c \in Places("cell") :
        Sum(a, At("cell", c), p) =
          (IF Moves(p) /\ c = Downstream(p) THEN 1 ELSE 0) - (IF Moves(p) /\ c = Upstream(p) THEN 1 ELSE 0)

\* When a balance over faces begins, the fluxes it reads conserve what they carry: what
\* enters a cell leaves exactly one other, or is 0.
FaceFluxesCross ==
  /\ Calls("loop", "out_mass") => X!Conserves("mass_flux_x") /\ Y!Conserves("mass_flux_y")
  /\ Calls("loop", "out_e") => X!Conserves("energy_flux_x") /\ Y!Conserves("energy_flux_y")

\* The cells around a node.
QuarterPlace(p, k) == Fold("cell", <<p[1] + Quarter[k][1], p[2] + Quarter[k][2]>>)
QuarterCell(p, k)  == At("cell", QuarterPlace(p, k))

\* The velocity of a node at the end of the Lagrange phase: whether it is still, and
\* whether it has the signs that the node was predicted to have.
LagStill(p) == Sign("u_lag", At("node", p)) = 0 \/ Sign("v_lag", At("node", p)) = 0

KeepsDirection(p) ==
  /\ Sign("u_lag", At("node", p)) = Sign("predicted_u", At("node", p))
  /\ Sign("v_lag", At("node", p)) = Sign("predicted_v", At("node", p))

\* A node of a periodic seam that only the acceleration starts has no corner flux, but
\* its twins keep one: that of an earlier step, or what memory held.
Starts(p) == ~Moves(p) /\ ~LagStill(p)

NearStaleTwin(p) ==
  \E d \in {-1, 0, 1} \X {-1, 0, 1} :
    LET q == <<Fold("node", p)[1] + d[1], Fold("node", p)[2] + d[2]>>
    IN (q[1] = nx \/ q[2] = ny) /\ Starts(Fold("node", q))

\* The nodes whose momentum is gathered: between walls those inside, and on a periodic
\* grid all but those on the seam in x.
MomentumNodes(a) ==
  {p \in Places("node") :
     /\ Returned(Seam(a)) /\ BoundaryConditions \in {"periodic", "Wall"}
     /\ p[1] \notin {0, nx}
     /\ BoundaryConditions = "periodic" \/ p[2] \notin {0, ny}}

\* What the corners of the dual cell of p gain, in quarters, of the flux of node w: it
\* comes from the cell that u_lag and v_lag come from, and goes where they lead.
LagGain(w, p) ==
  LET gain(k) == (IF QuarterPlace(p, k) = LeadsTo("u_lag", "v_lag", w) THEN 1 ELSE 0)
                 - (IF QuarterPlace(p, k) = ComesFrom("u_lag", "v_lag", w) THEN 1 ELSE 0)
  IN IF LagStill(w) THEN 0 ELSE gain(1) + gain(2) + gain(3) + gain(4)

\* The momentum that a dual cell gets through its corners is that of the fluxes of mass
\* around it, each taken in the direction of u_lag and v_lag: in the one the mass went
\* in where the node keeps its direction, in another one where the acceleration turned
\* it around, in none where it stopped the node.  Nothing else comes in, but what the
\* twins keep beside the flux 0 of a node that the acceleration starts.
MomentumGoesWithLag ==
  \A a \in {"out_u", "out_v"} : \A p \in MomentumNodes(a) :
    /\ \A w \in Nodes : ~Starts(w) => Sum(a, At("node", p), w) = LagGain(w, p)
    /\ \A e \in ledger : e.of = a /\ e.at = At("node", p) => e.flux \in Nodes \/ NearStaleTwin(p)

\* A uniform velocity stays uniform where the acceleration changes no direction: what
\* the corners of a dual cell bring of the flux of a node that goes on as predicted is
\* what this flux brought to the four cells.  The premise is needed: of a node that is
\* turned around the mass and the momentum part.
CornersBalance ==
  \A a \in {"out_u", "out_v"} : \A p \in MomentumNodes(a) : \A w \in Nodes :
    LET mass(k) == Sum("out_mass", QuarterCell(p, k), w)
    IN KeepsDirection(w) => Sum(a, At("node", p), w) = mass(1) + mass(2) + mass(3) + mass(4)

\* What the kernels do not compute from the right neighbours: at a wall, the gradients
\* along the diagonals, whose lengths come from the wrong corners of the cell that stands
\* for the one beyond; the flux of a node that is still, at its twins, and the velocities
\* beside them that take it along; the gradients of energy along the diagonals, which
\* nothing computes; the velocities on the seam in x.
Misplaced(a, p) ==
  \/ /\ a \in {"density_gradient_diag", "density_gradient_antidiag"}
     /\ BoundaryConditions = "Wall" /\ (p[1] \in {0, nx - 1} \/ p[2] \in {0, ny - 1})
  \/ a \in FluxArrays /\ ~Moves(p) /\ (p[1] = nx \/ p[2] = ny)
  \/ a \in {"energy_gradient_diag", "energy_gradient_antidiag"}
  \/ /\ a \in {"out_u", "out_v"} /\ BoundaryConditions # "Wall"
     /\ NearStaleTwin(p) \/ (BoundaryConditions = "periodic" /\ p[1] \in {0, nx})

\* When the driver returns, every other element of every array it fills was computed
\* from its own neighbours, along the axes and the diagonals, around both seams and
\* around their corner.
EveryNeighbourRight ==
  Done => \A a \in Scratch \cup Outputs : \A p \in Places(KindOf(a)) :
            Y!Sound(a, p) \/ X!Unstored(a, p) \/ Y!Unstored(a, p) \/ Misplaced(a, p)
=============================================================================
