------------------------- MODULE MultimaterialSweep -------------------------
(***************************************************************************)
(* The drivers of AdProjection2dXDriver and ...YDriver for two materials:  *)
(* the remap in one direction, of a mix or with an interface.              *)
(*                                                                         *)
(* A mix is one material whose mass carries its concentration with the     *)
(* energy, through the kernels of ProjectionX or ProjectionY.  With an     *)
(* interface a cell may hold both materials, on the two sides of a line    *)
(* whose normal is a gradient of their fractions over nine cells.  The     *)
(* volume that goes through a face is cut by the line of the cell that     *)
(* gives it; each material has its own masses, energies and fluxes, and    *)
(* the two share their velocity, which follows the sum of their fluxes.    *)
(* Two kernels check the fluxes of a cell that gives all it has of a       *)
(* material, and correct them.                                             *)
(*                                                                         *)
(* mem holds the arrays of the whole, materials those of each material,    *)
(* under the same names: mass is in_cell_mass in the one and               *)
(* in_cell_mass_1, in_cell_mass_2 in the other.                            *)
(***************************************************************************)
EXTENDS Sweeps

CONSTANT Drains    \* the sets of cells that are tried for drained

ASSUME DrainsAssumption == Drains \subseteq SUBSET ((1 .. 2) \X (Nat \X Nat) \X {"prev", "next"})

\* drained has a triple <<m, p, side>> when the cell p gives all it has of material m
\* through one of its faces, to within the tolerance of the checks.
VARIABLES TypeOfModel, materials, direction, drained

allvars == <<vars, TypeOfModel, materials, direction, drained>>

\* The kernels of the sweeps on the arrays of a material: X and Y are those on the whole.
XOf(m) == INSTANCE ProjectionX WITH mem <- materials[m]
YOf(m) == INSTANCE ProjectionY WITH mem <- materials[m]

InX == direction = "x"
Mix == TypeOfModel = "MultimaterialMix"

\* The arrays of the direction.
Volumes    == IF InX THEN "volume_fluxes_x" ELSE "volume_fluxes_y"
Masses     == IF InX THEN "mass_flux_x" ELSE "mass_flux_y"
Energies   == IF InX THEN "energy_flux_x" ELSE "energy_flux_y"
LagVolume  == IF InX THEN "lag_volume" ELSE "lag_volume_y"
LagDensity == IF InX THEN "lag_density" ELSE "lag_density_y"
DensityGradient == IF InX THEN "density_gradient" ELSE "density_gradient_y"
EnergyGradient  == IF InX THEN "energy_gradient" ELSE "energy_gradient_y"
Concentrations  == IF InX THEN "concentration_flux_x" ELSE "concentration_flux_y"
ConcentrationGradient == IF InX THEN "concentration_gradient" ELSE "concentration_gradient_y"
GradientU  == IF InX THEN "gradient_u" ELSE "gradient_u_y"
GradientV  == IF InX THEN "gradient_v" ELSE "gradient_v_y"
Predicted  == IF InX THEN "predicted_u" ELSE "predicted_v"

Inputs  == {"mass", "u_lag", "v_lag", Predicted} \cup
           IF Mix THEN {"e_lag", "c_1", "cell_volumes"} ELSE {"fraction"}
Zeroed  == IF InX THEN X!Zeroed ELSE {}
Filling == {Volumes, LagVolume, Masses, GradientU, GradientV,
            "out_mass", "out_rho", "out_e", "out_u", "out_v"} \cup
           IF Mix THEN {LagDensity, DensityGradient, EnergyGradient, Energies,
                        ConcentrationGradient, Concentrations, "out_c_1", "out_c_2"}
           ELSE {"interface_normal", "out_fraction"}
Arrays  == Inputs \cup Filling

OwnInputs  == IF Mix THEN {} ELSE {"mass", "e_lag"}
OwnFilling == {"out_rho", "out_e"} \cup
              IF Mix THEN {}
              ELSE {Volumes, LagDensity, DensityGradient, Masses, EnergyGradient, Energies, "out_mass"}
OwnArrays  == OwnInputs \cup OwnFilling
-----------------------------------------------------------------------------
\* A call of the driver: the arrays of the whole that the kernel stores into, the
\* materials it is called for and the arrays of theirs it stores into, and the rows of
\* the loop.  A boundary kernel stores into the arrays of the kernel it follows.
Call(kernel, outs, of, own, rows) ==
  [kernel |-> kernel, part |-> "loop", outs |-> outs, of |-> of, own |-> own, rows |-> rows]

AtBoundary(call) == [call EXCEPT !.part = "boundary", !.rows = {}]
WithBoundary(call) == <<call, AtBoundary(call)>>

Both == {1, 2}

\* The rows of a loop whose boundary kernel does the first and the last in y.
Rows(inX, inY) == IF InX THEN inX ELSE inY

\* The flux of a variable that the masses carry, for each material.
FluxCalls(a) ==
  LET call(m) == Call("Flux", {}, {m}, {a}, Rows(CellRows, Inner))
  IN <<call(1), call(2), AtBoundary(call(1)), AtBoundary(call(2))>>

\* Mutant: the loop in x has one row too many.
VelocityCalls_OneMore(gradient, out) ==
  WithBoundary(Call("GradientNodal", {gradient}, {}, {}, Rows(0 .. ny + 1, Inner))) \o
  WithBoundary(Call("ProjectNodal", {out}, {}, {}, Inner))

VelocityCalls(gradient, out) ==
  WithBoundary(Call("GradientNodal", {gradient}, {}, {}, Rows(NodeRows, Inner))) \o
  WithBoundary(Call("ProjectNodal", {out}, {}, {}, Inner))

\* The calls of the driver: the volumes and the masses, the energies, the velocities.
MassCalls ==
  WithBoundary(Call("NormalInterface", {"interface_normal"}, {}, {}, 1 .. ny - 2)) \o
  << Call("VolumeFlux", {Volumes}, {}, {}, Rows(CellRows, NodeRows)),
     Call("Lagrangian", {LagVolume}, Both, {LagDensity}, CellRows) >> \o
  WithBoundary(Call("FractionalVolumeFluxes", {}, Both, {Volumes}, Rows(CellRows, Inner))) \o
  << Call("CheckVolumeFluxes", {}, Both, {Volumes}, CellRows) >> \o
  WithBoundary(Call("GradientMultimat", {}, Both, {DensityGradient}, Rows(CellRows, 1 .. ny - 2))) \o
  FluxCalls(Masses) \o
  << Call("CheckMassFlux", {}, Both, {Masses}, CellRows),
     Call("Balance", {}, {1}, {"out_mass"}, CellRows),
     Call("Balance", {}, {2}, {"out_mass"}, CellRows),
     Call("TotalMassFlux", {Masses}, {}, {}, Rows(CellRows, NodeRows)),
     Call("ProjectDensity", {"out_mass", "out_fraction"}, Both, {"out_mass", "out_rho"}, CellRows) >>

EnergyCalls ==
  WithBoundary(Call("GradientMultimat", {}, Both, {EnergyGradient}, Rows(CellRows, 1 .. ny - 2))) \o
  FluxCalls(Energies) \o
  << Call("Balance", {}, {1}, {"out_e"}, CellRows), Call("Balance", {}, {2}, {"out_e"}, CellRows) >>

InterfaceDriver ==
  MassCalls \o EnergyCalls \o VelocityCalls(GradientU, "out_u") \o VelocityCalls(GradientV, "out_v") \o
  << Call("MaterialQuantities", {"out_rho", "out_e"}, {}, {}, CellRows) >>

\* The gradient, the flux and the balance of a variable of a mix.
MixCalls(gradient, flux, out) ==
  WithBoundary(Call("Gradient", {gradient}, {}, {}, Rows(CellRows, 1 .. ny - 2))) \o
  WithBoundary(Call("Flux", {flux}, {}, {}, Rows(CellRows, Inner))) \o
  << Call("Balance", {out}, {}, {}, CellRows) >>

MixDriver ==
  << Call("VolumeFlux", {Volumes}, {}, {}, Rows(CellRows, NodeRows)),
     Call("Lagrangian", {LagVolume, LagDensity}, {}, {}, CellRows) >> \o
  MixCalls(DensityGradient, Masses, "out_mass") \o MixCalls(EnergyGradient, Energies, "out_e") \o
  MixCalls(ConcentrationGradient, Concentrations, "out_c_1") \o
  VelocityCalls(GradientU, "out_u") \o VelocityCalls(GradientV, "out_v") \o
  << Call("MixQuantities", {"out_rho", "out_c_2"}, Both, {"out_rho", "out_e"}, CellRows) >>

Driver == IF Mix THEN MixDriver ELSE InterfaceDriver

\* Arrays of the whole, and arrays of the materials, over the grid.
FilledOr(inputs, zeroed, arrays) ==
  [a \in arrays |-> IF a \in inputs THEN Filled(a)
                    ELSE [i \in 0 .. Size(KindOf(a)) - 1 |-> IF a \in zeroed THEN Zero ELSE Garbage]]

\* The volume that goes through a face has one sign: only one of the cells beside it gives.
NextPlace(p) == IF InX THEN <<p[1] + 1, p[2]>> ELSE <<p[1], p[2] + 1>>
OneWay(d) == \A t \in d : t[3] = "next" => <<t[1], NextPlace(t[2]), "prev">> \notin d

Init ==
  /\ TypeOfModel \in {"MultimaterialMix", "MultimaterialInterface"}
  /\ direction \in {"x", "y"}
  /\ drained \in IF Mix THEN {{}} ELSE {d \in Drains : OneWay(d)}
  /\ GridInit(Inputs, Zeroed, Filling)
  /\ materials = [m \in Both |-> FilledOr(OwnInputs, {}, OwnArrays)]
  /\ pc = 1
  /\ todo = Driver[1].rows
-----------------------------------------------------------------------------
\* The reads of array a, k elements away in the direction of the sweep.
Along(a, k, i) == IF InX THEN <<a, k, 0, i>> ELSE <<a, 0, k, i>>

FaceBefore(c, iy) == IF InX THEN CellFaceM1O(c, iy, nx) ELSE CellFaceOM1(c, iy, nx)
FaceAfter(c, iy)  == IF InX THEN CellFaceP1O(c, iy, nx) ELSE CellFaceOP1(c, iy, nx)
FaceKind == IF InX THEN "facex" ELSE "facey"

\* The value of a formula for place p of kind k with reads in the arrays of the whole
\* and, own[m], in those of material m.
None == [m \in Both |-> {}]
Of(m, reads) == [None EXCEPT ![m] = reads]
Each(reads) == [m \in Both |-> reads]

Value(k, p, reads, own) ==
  LET parts == {Computed(k, p, reads)} \cup {XOf(m)!Computed(k, p, own[m]) : m \in Both}
      q == Fold(k, p)
  IN IF Off(q) \in parts THEN Off(q) ELSE IF Derived(q) \in parts THEN Derived(q) ELSE q
-----------------------------------------------------------------------------
Columns == 0 .. nx - 1

\* ReconstructNormalInterface: the normal in a cell, from the three rows of three cells
\* around it.  The rows are at the heights dy.
Nine(at, rows, dy) == [at |-> at, rows |-> rows, dy |-> dy]

Normals(nines) ==
  {<<CellAt(s.at[1], s.at[2], nx),
     Computed("cell", s.at, {<<"fraction", k[1] - 2, s.dy[k[2]], s.rows[k[2]][k[1]]>>
                             : k \in (1 .. 3) \X (1 .. 3)})>> : s \in nines}

\* The columns around column ix in the rows around row iy: in the middle of the grid,
\* around the seam, and at a wall, where a cell stands for the one beyond.
MiddleColumns(c) ==
  <<<<CellCellM1M1(c, nx), CellCellOM1(c, nx), CellCellP1M1(c, nx)>>,
    <<CellCellM1O(c, nx), c, CellCellP1O(c, nx)>>,
    <<CellCellM1P1(c, nx), CellCellOP1(c, nx), CellCellP1P1(c, nx)>>>>

FirstColumns(c, west) ==
  <<<<CellCellOM1(west, nx), CellCellOM1(c, nx), CellCellP1M1(c, nx)>>,
    <<west, c, CellCellP1O(c, nx)>>,
    <<CellCellOP1(west, nx), CellCellOP1(c, nx), CellCellP1P1(c, nx)>>>>

LastColumns(c, east) ==
  <<<<CellCellM1M1(c, nx), CellCellOM1(c, nx), CellCellOM1(east, nx)>>,
    <<CellCellM1O(c, nx), c, east>>,
    <<CellCellM1P1(c, nx), CellCellOP1(c, nx), CellCellOP1(east, nx)>>>>

SeamColumns(ix, iy) ==
  LET c == CellAt(ix, iy, nx)
  IN IF ix = 0 THEN FirstColumns(c, c + nx - 1)
     ELSE IF ix = nx - 1 THEN LastColumns(c, iy * nx) ELSE MiddleColumns(c)

WallColumns(ix, iy) ==
  LET c == CellAt(ix, iy, nx)
  IN IF ix = 0 THEN FirstColumns(c, c)
     ELSE IF ix = nx - 1 THEN LastColumns(c, c) ELSE MiddleColumns(c)

Here3 == <<-1, 0, 1>>

ReconstructNormalInterface(a, iy) ==
  Normals({Nine(<<ix, iy>>, MiddleColumns(CellAt(ix, iy, nx)), Here3) : ix \in 1 .. nx - 2})

SeamSides ==
  {Nine(<<ix, iy>>, SeamColumns(ix, iy), Here3) : ix \in {0, nx - 1}, iy \in 1 .. ny - 2}

\* Mutant: below the first row is the last but one.
ReconstructNormalInterfacePeriodicBoundary_RowTooLow(a) ==
  Normals(SeamSides \cup
    {Nine(<<ix, 0>>, [SeamColumns(ix, 0) EXCEPT ![1] = SeamColumns(ix, ny - 2)[2]], Here3)
     : ix \in Columns} \cup
    {Nine(<<ix, ny - 1>>, [SeamColumns(ix, ny - 1) EXCEPT ![3] = SeamColumns(ix, 0)[2]], Here3)
     : ix \in Columns})

\* The first and the last row, with their corners, meet.
ReconstructNormalInterfacePeriodicBoundary(a) ==
  Normals(SeamSides \cup
    {Nine(<<ix, 0>>, [SeamColumns(ix, 0) EXCEPT ![1] = SeamColumns(ix, ny - 1)[2]], Here3)
     : ix \in Columns} \cup
    {Nine(<<ix, ny - 1>>, [SeamColumns(ix, ny - 1) EXCEPT ![3] = SeamColumns(ix, 0)[2]], Here3)
     : ix \in Columns})

\* The row beyond the wall is taken to be the one before it: the normal has no y there.
ReconstructNormalInterfaceBoundaryRt(a) ==
  Normals(SeamSides \cup
    {Nine(<<ix, 0>>, [SeamColumns(ix, 0) EXCEPT ![1] = SeamColumns(ix, 0)[3]], <<1, 0, 1>>)
     : ix \in Columns} \cup
    {Nine(<<ix, ny - 1>>, [SeamColumns(ix, ny - 1) EXCEPT ![3] = SeamColumns(ix, ny - 1)[1]],
          <<-1, 0, -1>>) : ix \in Columns})

ReconstructNormalInterfaceBoundaryWall(a) ==
  Normals(
    {Nine(<<ix, iy>>, WallColumns(ix, iy), Here3) : ix \in {0, nx - 1}, iy \in 1 .. ny - 2} \cup
    {Nine(<<ix, 0>>, [WallColumns(ix, 0) EXCEPT ![1] = WallColumns(ix, 0)[2]], Here3)
     : ix \in Columns} \cup
    {Nine(<<ix, ny - 1>>, [WallColumns(ix, ny - 1) EXCEPT ![3] = WallColumns(ix, ny - 1)[2]], Here3)
     : ix \in Columns})

ReconstructNormalInterfaceBoundary(a) ==
  IF BoundaryConditions = "RayleighTaylor" THEN ReconstructNormalInterfaceBoundaryRt(a)
  ELSE IF BoundaryConditions = "Wall" THEN ReconstructNormalInterfaceBoundaryWall(a)
  ELSE ReconstructNormalInterfacePeriodicBoundary(a)
-----------------------------------------------------------------------------
\* ComputeDirectionalLagrangianQuantitiesMultimatX and ...Y: two loops.
VolumeFlux(a, iy) == IF InX THEN X!VolumeFluxStores(a, iy) ELSE Y!VolumeFluxStores(a, iy)

Lagrangian(a, iy) == IF InX THEN X!DirectionalStores(a, iy) ELSE Y!DirectionalStores(a, iy)

LagrangianOf(m, a, iy) ==
  {LET c == CellAt(ix, iy, nx)
   IN <<c, Value("cell", <<ix, iy>>,
             {Along(Volumes, 0, FaceBefore(c, iy)), Along(Volumes, 1, FaceAfter(c, iy))} \cup
             Here({"fraction"}, c), Of(m, Here({"mass"}, c)))>> : ix \in Columns}

\* ComputeDirectionalLagrangianFractionalVolumeFluxesX and ...Y: what the line in the
\* cell that gives cuts off, the cell before or the cell after by the sign of the flux.
FractionReads(s) ==
  LET iy == s.at[2]
  IN {Along(a, -1, s.prev) : a \in {"fraction", LagVolume, "interface_normal"}} \cup
     {Along(a,  0, s.next) : a \in {"fraction", LagVolume, "interface_normal"}} \cup
     {Along(Volumes, -1, FaceBefore(s.prev, iy)), Along(Volumes, 0, FaceAfter(s.prev, iy)),
      Along(Volumes,  0, FaceBefore(s.next, iy)), Along(Volumes, 1, FaceAfter(s.next, iy)),
      Along(Volumes,  0, s.face)}

Fractions(crossings) ==
  UNION {{<<f, Driven({Along(Volumes, 0, s.face)}, Computed(FaceKind, s.at, FractionReads(s)))>>
          : f \in s.to} : s \in crossings}

FractionalVolumeFluxes(iy) == Fractions(IF InX THEN X!InnerFaces(iy) ELSE Y!InnerFaces(iy))

FractionalVolumeFluxesXPeriodicBoundary == Fractions(X!SeamFaces)
FractionalVolumeFluxesYPeriodicBoundary == Fractions(Y!SeamFaces)
FractionalVolumeFluxesXBoundaryWall == X!ReconstructFluxOrder2XWallBoundary(Volumes)
FractionalVolumeFluxesYBoundaryWall == Y!ReconstructFluxOrder2YWallBoundary(Volumes)

\* The Rayleigh-Taylor problem takes the periodic kernel in y too: the flux is 0 there.
FractionalVolumeFluxesBoundary ==
  IF BoundaryConditions = "Wall"
  THEN IF InX THEN FractionalVolumeFluxesXBoundaryWall ELSE FractionalVolumeFluxesYBoundaryWall
  ELSE IF InX THEN FractionalVolumeFluxesXPeriodicBoundary ELSE FractionalVolumeFluxesYPeriodicBoundary
-----------------------------------------------------------------------------
\* CheckDirectionalVolumeFluxesX and ...Y, CheckDirectionalMassFluxX and ...Y: where a cell
\* is left with next to nothing of material m, but not with 0, they rescale the fluxes of
\* both its faces, so that what leaves is what the cell has.  Here such a cell gives the
\* material through one face and nothing of it passes the other, where the rescaled flux is
\* 0 as it was; so one flux is corrected, in the face that this cell has on that side.  A
\* cell that is drained through both faces, and a face that two drained cells share, are
\* not modelled.
OwnFaces(a, c, iy, k) == {Along(a, k, FaceBefore(c, iy)), Along(a, k + 1, FaceAfter(c, iy))}

\* The right flux, corrected.
Corrected(q, value) == IF value = Off(Fold(FaceKind, q)) THEN value ELSE Derived(Fold(FaceKind, q))

Flows(m, a, f) == f \in DOMAIN materials[m][a] /\ materials[m][a][f] # Zero

\* The corrections of row iy: the values are computed from the cell and its faces, which are
\* k elements away from the face that is corrected.
Corrections(m, iy, Reads(_, _)) ==
  {LET before == t[3] = "prev"
       c == CellAt(t[2][1], iy, nx)
       q == IF before THEN t[2] ELSE NextPlace(t[2])
       k == IF before THEN 0 ELSE -1
   IN <<IF before THEN FaceBefore(c, iy) ELSE FaceAfter(c, iy),
        Corrected(q, Value(FaceKind, q, {Along("fraction", k, c), Along(LagVolume, k, c)},
                           Of(m, OwnFaces(Volumes, c, iy, k) \cup Reads(c, k))))>>
   : t \in {t \in drained : t[1] = m /\ t[2] \in Columns \X {iy}}}

CheckVolumeFluxes(m, iy) ==
  {s \in Corrections(m, iy, LAMBDA c, k : {}) : Flows(m, Volumes, s[1])}

CheckMassFlux(m, iy) ==
  {s \in Corrections(m, iy, LAMBDA c, k : {Along("mass", k, c)}) : Flows(m, Volumes, s[1])}
-----------------------------------------------------------------------------
\* ReconstructGradientMultimatX and ...Y: the gradient of a variable of one material in a
\* cell, 0 where its neighbours or the volumes that enter have the other material.
Line(at, m1, cell, p1) ==
  [at |-> at, cells |-> <<m1, cell, p1>>,
   faces |-> <<FaceBefore(m1, at[2]), FaceBefore(cell, at[2]),
               FaceAfter(cell, at[2]), FaceAfter(p1, at[2])>>]

OwnVariableOf(a) == IF a = DensityGradient THEN LagDensity ELSE "e_lag"

GradientsOf(m, a, lines) ==
  {LET three(b) == {Along(b, k - 2, s.cells[k]) : k \in 1 .. 3}
       volumes  == {Along(Volumes, k - 2, s.faces[k]) : k \in 1 .. 4}
   IN <<s.cells[2], Value("cell", s.at, three("fraction"),
                          [Each(volumes) EXCEPT ![m] = @ \cup three(OwnVariableOf(a))])>> : s \in lines}

GradientMultimatX(m, a, iy) ==
  GradientsOf(m, a, {LET c == CellAt(ix, iy, nx)
                     IN Line(<<ix, iy>>, CellCellM1O(c, nx), c, CellCellP1O(c, nx)) : ix \in 1 .. nx - 2})

GradientMultimatY(m, a, iy) ==
  GradientsOf(m, a, {LET c == CellAt(ix, iy, nx)
                     IN Line(<<ix, iy>>, CellCellOM1(c, nx), c, CellCellOP1(c, nx)) : ix \in Columns})

GradientMultimat(m, a, iy) == IF InX THEN GradientMultimatX(m, a, iy) ELSE GradientMultimatY(m, a, iy)

GradientMultimatXPeriodicBoundary(m, a) ==
  GradientsOf(m, a,
    {LET c == iy * nx IN Line(<<0, iy>>, c + nx - 1, c, CellCellP1O(c, nx)) : iy \in CellRows} \cup
    {LET c == CellAt(nx - 1, iy, nx)
     IN Line(<<nx - 1, iy>>, CellCellM1O(c, nx), c, iy * nx) : iy \in CellRows})

\* The cell before row 0 is that of column 0, as in the sweep of one material.
GradientMultimatYPeriodicBoundary(m, a) ==
  GradientsOf(m, a,
    {Line(<<ix, 0>>, Y!BeforeFirst(ix, ny - 1), ix, CellCellOP1(ix, nx)) : ix \in Columns} \cup
    {LET c == CellAt(ix, ny - 1, nx)
     IN Line(<<ix, ny - 1>>, CellCellOM1(c, nx), c, ix) : ix \in Columns})

GradientMultimatBoundary(m, a) ==
  IF BoundaryConditions = "Wall" THEN {}
  ELSE IF InX THEN GradientMultimatXPeriodicBoundary(m, a)
  ELSE GradientMultimatYPeriodicBoundary(m, a)
-----------------------------------------------------------------------------
\* The flux and the balance of the mass and of the energy of one material, by the kernels
\* of one material; those of the Rayleigh-Taylor problem repeat the periodic ones in x and
\* those of the walls in y.
FluxOf(m, a, iy) ==
  IF InX THEN XOf(m)!Fluxes(a, X!InnerFaces(iy)) ELSE YOf(m)!Fluxes(a, Y!InnerFaces(iy))

FluxBoundaryOf(m, a) ==
  IF InX THEN IF WallsX THEN XOf(m)!ReconstructFluxOrder2XWallBoundary(a)
              ELSE XOf(m)!ReconstructFluxOrder2XPeriodicBoundary(a)
  ELSE IF WallsY THEN YOf(m)!ReconstructFluxOrder2YWallBoundary(a)
       ELSE YOf(m)!ReconstructFluxOrder2YPeriodicBoundary(a)

BalanceOf(m, a, iy) ==
  IF a = "out_mass" THEN IF InX THEN XOf(m)!ProjectMassX(a, iy) ELSE YOf(m)!ProjectMassY(a, iy)
  ELSE IF InX THEN XOf(m)!MassProjectIntensiveVariableX(a, iy)
  ELSE YOf(m)!MassProjectIntensiveVariableY(a, iy)

\* Mutant: the last face is left out.
TotalMassFlux_Short(iy) ==
  {LET f == IF InX THEN FaceXAt(ix, iy, nx) ELSE FaceYAt(ix, iy, nx)
   IN <<f, IF \E m \in Both : Flows(m, Masses, f)
           THEN Value(FaceKind, <<ix, iy>>, {}, Each(Here({Masses}, f))) ELSE Zero>>
   : ix \in Columns}

\* The sum of the fluxes of the two materials, through every face.
TotalMassFlux(iy) ==
  {LET f == IF InX THEN FaceXAt(ix, iy, nx) ELSE FaceYAt(ix, iy, nx)
   IN <<f, IF \E m \in Both : Flows(m, Masses, f)
           THEN Value(FaceKind, <<ix, iy>>, {}, Each(Here({Masses}, f))) ELSE Zero>>
   : ix \in IF InX THEN 0 .. nx ELSE Columns}

\* ProjectDensityMultimatX and ...Y: the mass of the whole; from it those of the materials,
\* with their volumes, densities and fractions.
MassReads(c, iy) ==
  Here({"mass"}, c) \cup {Along(Masses, 0, FaceBefore(c, iy)), Along(Masses, 1, FaceAfter(c, iy))}

ProjectDensity(a, iy) ==
  {LET c == CellAt(ix, iy, nx)
   IN <<c, IF a = "out_mass" THEN Computed("cell", <<ix, iy>>, MassReads(c, iy))
           ELSE Value("cell", <<ix, iy>>, MassReads(c, iy) \cup Here({"fraction", LagVolume}, c),
                      Each(Here({"out_mass"}, c) \cup OwnFaces(Volumes, c, iy, 0)))>> : ix \in Columns}

MaterialQuantities(a, iy) ==
  {LET c == CellAt(ix, iy, nx)
   IN <<c, IF a = "out_rho" THEN Value("cell", <<ix, iy>>, Here({"out_fraction"}, c), Each(Here({"out_rho"}, c)))
           ELSE Value("cell", <<ix, iy>>, Here({"out_mass"}, c), Each(Here({"out_mass", "out_e"}, c)))>>
   : ix \in Columns}
-----------------------------------------------------------------------------
\* The same of a variable of a mix.
Gradient(a, iy) == IF InX THEN X!ReconstructGradientX(a, iy) ELSE Y!ReconstructGradientY(a, iy)

GradientBoundary(a) ==
  IF InX THEN X!ReconstructGradientXBoundary(a) ELSE Y!ReconstructGradientYBoundary(a)

Flux(a, iy) == IF InX THEN X!ReconstructFluxOrder2X(a, iy) ELSE Y!ReconstructFluxOrder2Y(a, iy)

FluxBoundary(a) ==
  IF InX THEN X!ReconstructFluxOrder2XBoundary(a) ELSE Y!ReconstructFluxOrder2YBoundary(a)

Balance(a, iy) ==
  IF a = "out_mass" THEN IF InX THEN X!ProjectMassX(a, iy) ELSE Y!ProjectMassY(a, iy)
  ELSE IF InX THEN X!MassProjectIntensiveVariableX(a, iy)
  ELSE Y!MassProjectIntensiveVariableY(a, iy)

\* The materials of a mix have one temperature and one pressure: their densities and
\* energies follow from those of the mix and its concentration.
MixQuantities(a, iy) ==
  {LET c == CellAt(ix, iy, nx)
   IN <<c, Computed("cell", <<ix, iy>>,
             Here(IF a = "out_rho" THEN {"out_mass", "cell_volumes"} ELSE {"out_c_1"}, c))>>
   : ix \in Columns}

MixQuantitiesOf(a, iy) ==
  {LET c == CellAt(ix, iy, nx)
   IN <<c, Computed("cell", <<ix, iy>>,
             Here({"out_c_1"} \cup IF a = "out_rho" THEN {"out_mass", "cell_volumes"} ELSE {"out_e"}, c))>>
   : ix \in Columns}
-----------------------------------------------------------------------------
\* The gradient and the balance of the velocity that the materials share.
GradientNodal(a, iy) ==
  IF InX THEN X!ReconstructGradientNodalX(a, iy) ELSE Y!ReconstructGradientNodalY(a, iy)

GradientNodalBoundary(a) ==
  IF InX THEN X!ReconstructGradientNodalXBoundary(a) ELSE Y!ReconstructGradientNodalYBoundary(a)

ProjectNodal(a, iy) ==
  IF InX THEN X!ProjectNodalIntensiveVariableOrder2X(a, iy)
  ELSE Y!ProjectNodalIntensiveVariableOrder2Y(a, iy)

ProjectNodalBoundary(a) ==
  IF InX THEN X!ProjectNodalIntensiveVariableOrder2XBoundary(a)
  ELSE Y!ProjectNodalIntensiveVariableOrder2YBoundary(a)
-----------------------------------------------------------------------------
\* The stores of a call into an array a of the whole, and into that of a material m.
LoopStores(call, a, iy) ==
  CASE call.kernel = "NormalInterface"    -> ReconstructNormalInterface(a, iy)
    [] call.kernel = "VolumeFlux"         -> VolumeFlux(a, iy)
    [] call.kernel = "Lagrangian"         -> Lagrangian(a, iy)
    [] call.kernel = "TotalMassFlux"      -> TotalMassFlux(iy)
    [] call.kernel = "ProjectDensity"     -> ProjectDensity(a, iy)
    [] call.kernel = "GradientNodal"      -> GradientNodal(a, iy)
    [] call.kernel = "ProjectNodal"       -> ProjectNodal(a, iy)
    [] call.kernel = "MaterialQuantities" -> MaterialQuantities(a, iy)
    [] call.kernel = "Gradient"           -> Gradient(a, iy)
    [] call.kernel = "Flux"               -> Flux(a, iy)
    [] call.kernel = "Balance"            -> Balance(a, iy)
    [] call.kernel = "MixQuantities"      -> MixQuantities(a, iy)

LoopStoresOf(call, m, a, iy) ==
  CASE call.kernel = "Lagrangian"             -> LagrangianOf(m, a, iy)
    [] call.kernel = "FractionalVolumeFluxes" -> FractionalVolumeFluxes(iy)
    [] call.kernel = "CheckVolumeFluxes"      -> CheckVolumeFluxes(m, iy)
    [] call.kernel = "CheckMassFlux"          -> CheckMassFlux(m, iy)
    [] call.kernel = "GradientMultimat"       -> GradientMultimat(m, a, iy)
    [] call.kernel = "Flux"                   -> FluxOf(m, a, iy)
    [] call.kernel = "Balance"                -> BalanceOf(m, a, iy)
    [] call.kernel = "ProjectDensity"         -> ProjectDensity(a, iy)
    [] call.kernel = "MixQuantities"          -> MixQuantitiesOf(a, iy)

BoundaryStores(call, a) ==
  CASE call.kernel = "NormalInterface" -> ReconstructNormalInterfaceBoundary(a)
    [] call.kernel = "GradientNodal"   -> GradientNodalBoundary(a)
    [] call.kernel = "ProjectNodal"    -> ProjectNodalBoundary(a)
    [] call.kernel = "Gradient"        -> GradientBoundary(a)
    [] call.kernel = "Flux"            -> FluxBoundary(a)

BoundaryStoresOf(call, m, a) ==
  CASE call.kernel = "FractionalVolumeFluxes" -> FractionalVolumeFluxesBoundary
    [] call.kernel = "GradientMultimat"       -> GradientMultimatBoundary(m, a)
    [] call.kernel = "Flux"                   -> FluxBoundaryOf(m, a)

\* The arrays after the call has done its stores.
After(call, Stores(_), StoresOf(_, _)) ==
  /\ mem' = [a \in DOMAIN mem |-> IF a \in call.outs THEN Stored(mem[a], Stores(a)) ELSE mem[a]]
  /\ materials' = [m \in Both |->
       [a \in DOMAIN materials[m] |->
          IF m \in call.of /\ a \in call.own THEN Stored(materials[m][a], StoresOf(m, a))
          ELSE materials[m][a]]]

RowsAfter == IF pc + 1 \in DOMAIN Driver THEN Driver[pc + 1].rows ELSE {}

Calls(part) == pc \in DOMAIN Driver /\ Driver[pc].part = part

\* One row of a loop.  A loop that has no row is done at once.
Row ==
  /\ Calls("loop")
  /\ UNCHANGED <<TypeOfModel, direction, drained>>
  /\ \/ /\ todo = {}
        /\ pc' = pc + 1 /\ todo' = RowsAfter
        /\ UNCHANGED <<nx, ny, BoundaryConditions, mem, materials>>
     \/ \E iy \in todo :
          /\ After(Driver[pc], LAMBDA a : LoopStores(Driver[pc], a, iy),
                               LAMBDA m, a : LoopStoresOf(Driver[pc], m, a, iy))
          /\ RowDone(iy, pc + 1, RowsAfter)

\* A boundary kernel.
Edge ==
  /\ Calls("boundary")
  /\ After(Driver[pc], LAMBDA a : BoundaryStores(Driver[pc], a),
                       LAMBDA m, a : BoundaryStoresOf(Driver[pc], m, a))
  /\ pc' = pc + 1 /\ todo' = RowsAfter
  /\ UNCHANGED <<nx, ny, BoundaryConditions, TypeOfModel, direction, drained>>

Next == Row \/ Edge

Spec == Init /\ [][Next]_allvars
-----------------------------------------------------------------------------
\* Type invariant: the arrays keep their sizes, and hold values of the model.
TypeOK ==
  /\ ArraysOK(Arrays)
  /\ TypeOfModel \in {"MultimaterialMix", "MultimaterialInterface"}
  /\ direction \in {"x", "y"}
  /\ drained \in {{}} \cup Drains
  /\ DOMAIN materials = Both
  /\ \A m \in Both :
       /\ DOMAIN materials[m] = OwnArrays
       /\ \A a \in OwnArrays : /\ DOMAIN materials[m][a] = 0 .. Size(KindOf(a)) - 1
                               /\ \A i \in DOMAIN materials[m][a] : materials[m][a][i] \in Values

Done == pc = Len(Driver) + 1

\* The gradients that have other neighbours, or that nothing stores: those between walls,
\* and in y those of the first row, and of the last in the Rayleigh-Taylor problem, where
\* the kernel takes the two rows for neighbours.
Unstored(a, p) ==
  \/ X!Unstored(a, p)
  \/ Y!Unstored(a, p)
  \/ /\ a \in {"density_gradient_y", "energy_gradient_y", "concentration_gradient_y"}
     /\ WallsY /\ p[2] = ny - 1

\* When the driver returns, every other element of every array of the whole and of each
\* material was computed from its own neighbours, with the lines of both cells beside a
\* face cut from the nine cells around them; and around the seam in x, when nothing is
\* corrected, each is right.
EveryNeighbourRight ==
  Done => /\ InX /\ ~WallsX /\ drained = {} =>
               /\ \A a \in Filling : IsRight(mem, a)
               /\ \A m \in Both : \A a \in OwnFilling : IsRight(materials[m], a)
          /\ \A a \in Filling : \A p \in Places(KindOf(a)) : Y!Sound(a, p) \/ Unstored(a, p)
          /\ \A m \in Both : \A a \in OwnFilling : \A p \in Places(KindOf(a)) :
               YOf(m)!Sound(a, p) \/ Unstored(a, p)

\* The cells that give all they have of material m over the seam of a periodic direction.
OverSeam(m) ==
  {t \in drained :
     /\ t[1] = m
     /\ IF InX THEN ~WallsX /\ t[2][1] = (IF t[3] = "prev" THEN 0 ELSE nx - 1)
        ELSE ~WallsY /\ t[2][2] = (IF t[3] = "prev" THEN 0 ELSE ny - 1)}

\* What one cell gives of a material its neighbour receives, mass, energy and volume, after
\* the corrections too: but not where a cell on the seam gives all it has over it, since the
\* checks correct the flux of one of the twins.  In a mix, the same of the mass, the energy
\* and the mass of the first material, and so of the second.
MaterialsConserved ==
  Done =>
    IF Mix THEN \A a \in {Masses, Energies, Concentrations} :
                  IF InX THEN X!Conserves(a) ELSE Y!Conserves(a)
    ELSE \A m \in Both : \A a \in {Volumes, Masses, Energies} :
           OverSeam(m) = {} => IF InX THEN XOf(m)!Conserves(a) ELSE YOf(m)!Conserves(a)

\* A uniform velocity of both materials stays uniform, off the walls: the sum of their
\* fluxes through the sides of a dual cell is what its mass gains.
DualCellsBalance ==
  pc \in DOMAIN Driver /\ Driver[pc].kernel = "ProjectNodal" /\ OverSeam(1) \cup OverSeam(2) = {} =>
    LET a == CHOOSE a \in {"out_u", "out_v"} : Driver[pc].outs = {a}
    IN IF InX THEN /\ X!Balanced(UNION {X!InnerStencils(iy) : iy \in todo})
                   /\ ~WallsX => X!Balanced(X!BoundaryStencils(a))
       ELSE /\ Y!Balanced(UNION {Y!InnerStencils(iy) : iy \in todo})
            /\ BoundaryConditions # "Wall" => Y!Balanced(Y!BoundaryStencils(a))
=============================================================================
