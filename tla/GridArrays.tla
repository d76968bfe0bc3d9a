----------------------------- MODULE GridArrays -----------------------------
(***************************************************************************)
(* Flattened arrays over a Cartesian grid, and what they ought to hold.    *)
(*                                                                         *)
(* The numbers are abstracted to where they come from.  The value of a     *)
(* quantity at a place is the pair <<x, y>> of that place; Zero is the     *)
(* number 0 that a boundary kernel assigns; Garbage is what memory held    *)
(* before.  Off(p) is the result that a formula, computed for p, has when  *)
(* its arguments are not the neighbours they should be; Derived(p) has the *)
(* right neighbours, of which one is Off or Derived itself, or Garbage.    *)
(*                                                                         *)
(* The reference is a grid without an edge.  A place outside the grid is   *)
(* folded back into it: around the torus in a periodic direction, by       *)
(* reflection at a wall.  A kernel is judged against it: the value it      *)
(* stores for a place is right if each of its arguments, fetched with the  *)
(* index arithmetic of the code, is the value of the right quantity at the *)
(* folded neighbour.                                                       *)
(*                                                                         *)
(* A driver calls one kernel after another; pc names the one that runs.  A *)
(* kernel is a parallel loop over rows, whose rows are taken in any order  *)
(* and of which todo is what is left, or a boundary kernel, which is one   *)
(* step.                                                                   *)
(***************************************************************************)
EXTENDS CartesianConnectivity, FiniteSets, Sequences

CONSTANTS Shapes,          \* the pairs <<nx, ny>> that are tried
          BoundaryNames    \* the values of BoundaryConditions that are tried

ASSUME ShapesAssumption == Shapes \subseteq (Nat \ {0, 1}) \X (Nat \ {0, 1})

VARIABLES nx, ny, BoundaryConditions, mem, pc, todo

vars == <<nx, ny, BoundaryConditions, mem, pc, todo>>
-----------------------------------------------------------------------------
Kinds == {"cell", "node", "facex", "facey", "position"}

\* The kind of element an array has one value for.  The positions of the nodes
\* are of a kind of their own: they are never folded.
KindOf(a) ==
  CASE a \in {"mass", "e", "pressure", "predicted_pressure", "pseudo_pressure",
              "e_lag", "lag_volume", "lag_density", "lag_volume_y", "lag_density_y",
              "density_gradient", "energy_gradient", "density_gradient_y", "energy_gradient_y",
              "density_gradient_diag", "density_gradient_antidiag",
              "energy_gradient_diag", "energy_gradient_antidiag",
              "rho", "out_mass", "out_e", "out_rho", "cell_volumes",
              "fraction", "out_fraction", "interface_normal", "c_1", "out_c_1", "out_c_2",
              "concentration_gradient", "concentration_gradient_y"}
                                                                      -> "cell"
    [] a \in {"u", "v", "predicted_u", "predicted_v", "u_lag", "v_lag",
              "gradient_u", "gradient_v", "gradient_u_y", "gradient_v_y",
              "volume_fluxes_corner", "sign_x_corner_fluxes", "sign_y_corner_fluxes",
              "mass_corner_fluxes", "energy_flux_corner", "out_u", "out_v"}
                                                                      -> "node"
    [] a \in {"volume_fluxes_x", "mass_flux_x", "energy_flux_x", "concentration_flux_x",
              "reconstructed_density_faces_x", "reconstructed_energy_faces_x"} -> "facex"
    [] a \in {"volume_fluxes_y", "mass_flux_y", "energy_flux_y", "concentration_flux_y",
              "reconstructed_density_faces_y", "reconstructed_energy_faces_y"} -> "facey"
    [] a = "X"                                                       -> "position"

StaggeredX(k) == k \in {"node", "facex", "position"}
StaggeredY(k) == k \in {"node", "facey", "position"}

LastX(k) == IF StaggeredX(k) THEN nx ELSE nx - 1
LastY(k) == IF StaggeredY(k) THEN ny ELSE ny - 1

Places(k) == (0 .. LastX(k)) \X (0 .. LastY(k))
Size(k)   == (LastX(k) + 1) * (LastY(k) + 1)
At(k, p)  == IF StaggeredX(k) THEN NodeAt(p[1], p[2], nx) ELSE CellAt(p[1], p[2], nx)

\* A name of boundary condition that is not known is taken as periodic.
WallsX == BoundaryConditions = "Wall"
WallsY == BoundaryConditions \in {"Wall", "RayleighTaylor"}

\* The coordinate z of an element, folded into a direction of n cells.
Folded(z, n, walls, staggered) ==
  IF ~walls THEN z % n
  ELSE IF staggered THEN IF z < 0 THEN -z ELSE IF z > n THEN 2 * n - z ELSE z
  ELSE IF z < 0 THEN -1 - z ELSE IF z >= n THEN 2 * n - 1 - z ELSE z

Fold(k, p) == IF k = "position" THEN p
              ELSE <<Folded(p[1], nx, WallsX, StaggeredX(k)),
                     Folded(p[2], ny, WallsY, StaggeredY(k))>>

Garbage == <<>>
Zero    == <<0>>
Off(p)     == <<p[1], p[2], -1>>
Derived(p) == <<p[1], p[2], -2>>
Values  == {Garbage, Zero} \cup (Nat \X Nat) \cup (Nat \X Nat \X {-1, -2})

\* Where the boundary condition prescribes the value 0: the velocity normal to a
\* wall, at the corners of the grid as on its sides, and every velocity on the
\* walls of the Rayleigh-Taylor problem; no flux goes through a wall.  There the
\* slopes of the two sides are opposite, and the limiter gives a gradient 0.
OnWallX(p) == WallsX /\ p[1] \in {0, nx}
OnWallY(p) == WallsY /\ p[2] \in {0, ny}

Held(a, p) ==
  \/ a \in {"predicted_u", "out_u"} /\ (OnWallX(p) \/ (~WallsX /\ OnWallY(p)))
  \/ a \in {"predicted_v", "out_v"} /\ OnWallY(p)
  \/ /\ a \in {"volume_fluxes_x", "mass_flux_x", "energy_flux_x", "concentration_flux_x",
               "reconstructed_density_faces_x", "reconstructed_energy_faces_x"}
     /\ OnWallX(p)
  \/ /\ a \in {"volume_fluxes_y", "mass_flux_y", "energy_flux_y", "concentration_flux_y",
               "gradient_u_y", "gradient_v_y",
               "reconstructed_density_faces_y", "reconstructed_energy_faces_y"}
     /\ OnWallY(p)
  \/ a \in {"mass_corner_fluxes", "energy_flux_corner"} /\ (OnWallX(p) \/ OnWallY(p))
  \/ /\ a \in {"density_gradient_y", "energy_gradient_y", "concentration_gradient_y"}
     /\ WallsY /\ p[2] \in {0, ny - 1}
  \/ a \in {"gradient_u", "gradient_v"} /\ OnWallX(p)
  \/ /\ a \in {"density_gradient", "energy_gradient", "concentration_gradient"}
     /\ WallsX /\ p[1] \in {0, nx - 1}

\* What array a ought to hold for place p.
Right(a, p) == IF Held(a, p) THEN Zero ELSE Fold(KindOf(a), p)

IsRight(m, a) == \A p \in Places(KindOf(a)) : m[a][At(KindOf(a), p)] = Right(a, p)

Filled(a) == [i \in 0 .. Size(KindOf(a)) - 1 |->
                LET w == LastX(KindOf(a)) + 1 IN Right(a, <<i % w, i \div w>>)]
-----------------------------------------------------------------------------
\* A read <<a, dx, dy, i>> fetches element i of array a where the reference asks
\* for the place at (dx, dy) of the one being computed.
Neighbour(p, r) == <<p[1] + r[2], p[2] + r[3]>>

\* The velocity a second sweep starts from is what the first one left: 0 on a wall.
Lagged == [u_lag |-> "out_u", v_lag |-> "out_v"]

Expected(a, p) ==
  {Right(a, p)} \cup (IF a \in DOMAIN Lagged THEN {Right(Lagged[a], p)} ELSE {})

ReadsRight(p, r) == r[4] \in DOMAIN mem[r[1]] /\ mem[r[1]][r[4]] \in Expected(r[1], Neighbour(p, r))

ReadsDerived(p, r) ==
  /\ r[4] \in DOMAIN mem[r[1]]
  /\ LET k == KindOf(r[1])
         q == Fold(k, Neighbour(p, r))
     IN \/ mem[r[1]][r[4]] \in {Off(q), Derived(q)}
        \/ mem[r[1]][r[4]] = Garbage /\ r[4] = At(k, q)

\* The value for place p of kind k of a formula with these reads.
Computed(k, p, reads) ==
  IF \A r \in reads : ReadsRight(p, r) THEN Fold(k, p)
  ELSE IF \A r \in reads : ReadsRight(p, r) \/ ReadsDerived(p, r) THEN Derived(Fold(k, p))
  ELSE Off(Fold(k, p))

\* A flux that velocities drive: 0 where all of them are 0.
Driven(velocities, flux) ==
  IF \A r \in velocities : r[4] \in DOMAIN mem[r[1]] /\ mem[r[1]][r[4]] = Zero THEN Zero ELSE flux

\* The reads of the arrays A at the element itself, and beside it.
Here(A, i) == {<<a, 0, 0, i>> : a \in A}
Beside(A, dx, dy, i) == {<<a, dx, dy, i>> : a \in A}

\* The reads around a cell (of its corner nodes) and around a node (of its cells).
Corners(A, sw, se, nw, ne) ==
  UNION {{<<a, 0, 0, sw>>, <<a, 1, 0, se>>, <<a, 0, 1, nw>>, <<a, 1, 1, ne>>} : a \in A}
Quarters(A, sw, se, nw, ne) ==
  UNION {{<<a, -1, -1, sw>>, <<a, 0, -1, se>>, <<a, -1, 0, nw>>, <<a, 0, 0, ne>>} : a \in A}

\* The array f after the stores <<index, value>>, none of which depends on
\* another; an index out of bounds may spoil anything.
Stored(f, stores) ==
  IF \E s \in stores : s[1] \notin DOMAIN f THEN [i \in DOMAIN f |-> Garbage]
  ELSE [i \in DOMAIN f |-> LET vs == {s[2] : s \in {t \in stores : t[1] = i}}
                           IN IF vs = {} THEN f[i]
                              ELSE IF \A v, w \in vs : v = w THEN CHOOSE v \in vs : TRUE
                              ELSE Garbage]
-----------------------------------------------------------------------------
\* The rows of cells, of nodes, and of nodes that are not on the boundary; and the
\* nodes that are: the corners, those of the sides and those of the ends.
CellRows == 0 .. ny - 1
NodeRows == 0 .. ny
Inner    == 1 .. ny - 1

CornerNodes == {0, nx, ny * (nx + 1), (nx + 1) * (ny + 1) - 1}
Sides == {NodeAt(ix, iy, nx) : ix \in {0, nx}, iy \in Inner}
Ends  == {NodeAt(ix, iy, nx) : ix \in 1 .. nx - 1, iy \in {0, ny}}

Zeros(nodes) == {<<n, Zero>> : n \in nodes}

\* A flux goes through a face from the cell prev to the cell next.  That of the place at
\* is stored to the faces to.
Crossing(at, to, prev, next, face) ==
  [at |-> at, to |-> to, prev |-> prev, next |-> next, face |-> face]

\* The projection of a nodal variable needs the neighbours m1 and p1 of the node in
\* the direction of the sweep, the four cells around it, and the six faces whose
\* fluxes cross the sides of its dual cell.  Cells and faces are given row by row
\* from the lower left to the upper right.  The result for the place at is stored
\* into the nodes to.
Stencil(at, to, m1, node, p1, cells, faces) ==
  [at |-> at, to |-> to, m1 |-> m1, node |-> node, p1 |-> p1, cells |-> cells, faces |-> faces]

\* The cells around a node that is seen as sw, se, nw and ne from the four sides of
\* a seam; below and above are the rows of these nodes.
CellsAround(sw, se, nw, ne, below, above) ==
  <<NodeCellM1M1(sw, below, nx), NodeCellP1M1(se, below, nx),
    NodeCellM1P1(nw, above, nx), NodeCellP1P1(ne, above, nx)>>
-----------------------------------------------------------------------------
\* A grid of one of the shapes: some arrays filled, some set to 0, the others as
\* memalign returned them.
GridInit(inputs, zeroed, scratch) ==
  /\ \E s \in Shapes : nx = s[1] /\ ny = s[2]
  /\ BoundaryConditions \in BoundaryNames
  /\ mem = [a \in inputs \cup zeroed \cup scratch |->
              IF a \in inputs THEN Filled(a)
              ELSE [i \in 0 .. Size(KindOf(a)) - 1 |-> IF a \in zeroed THEN Zero ELSE Garbage]]

\* What is left when the row iy of a loop is done.  The kernel that follows starts when
\* the last row is done.
RowDone(iy, next, rows) ==
  /\ pc'   = IF todo = {iy} THEN next ELSE pc
  /\ todo' = IF todo = {iy} THEN rows ELSE todo \ {iy}
  /\ UNCHANGED <<nx, ny, BoundaryConditions>>

\* One row of a parallel loop that stores into the arrays outs: Stores(a, iy) are
\* the stores of row iy into array a.  A loop that has no row is done at once.
RowOf(outs, Stores(_, _), next, rows) ==
  IF todo = {} THEN pc' = next /\ todo' = rows /\ UNCHANGED <<nx, ny, BoundaryConditions, mem>>
  ELSE \E iy \in todo :
         /\ mem'  = [a \in DOMAIN mem |->
                       IF a \in outs THEN Stored(mem[a], Stores(a, iy)) ELSE mem[a]]
         /\ RowDone(iy, next, rows)

\* A boundary kernel, in one step.
BoundaryOf(outs, Stores(_), next, rows) ==
  /\ mem'  = [a \in DOMAIN mem |-> IF a \in outs THEN Stored(mem[a], Stores(a)) ELSE mem[a]]
  /\ pc'   = next
  /\ todo' = rows
  /\ UNCHANGED <<nx, ny, BoundaryConditions>>

\* The calls of a driver that is given as a sequence: pc is the number of the one that
\* runs.  A call is the loop or the boundary kernel that stores into the arrays outs.
Loop(outs)     == [part |-> "loop", outs |-> outs]
Boundary(outs) == [part |-> "boundary", outs |-> outs]

RowsFor(driver, k, Rows(_)) == IF k \in DOMAIN driver THEN Rows(driver[k]) ELSE {}

LoopRow(driver, LoopStores(_, _), Rows(_)) ==
  /\ pc \in DOMAIN driver
  /\ driver[pc].part = "loop"
  /\ RowOf(driver[pc].outs, LoopStores, pc + 1, RowsFor(driver, pc + 1, Rows))

BoundaryCall(driver, BoundaryStores(_), Rows(_)) ==
  /\ pc \in DOMAIN driver
  /\ driver[pc].part = "boundary"
  /\ BoundaryOf(driver[pc].outs, BoundaryStores, pc + 1, RowsFor(driver, pc + 1, Rows))

\* The arrays keep the sizes the grid gives their kinds.
ArraysOK(arrays) ==
  /\ <<nx, ny>> \in Shapes
  /\ BoundaryConditions \in BoundaryNames
  /\ todo \subseteq 0 .. ny
  /\ DOMAIN mem = arrays
  /\ \A a \in arrays : /\ DOMAIN mem[a] = 0 .. Size(KindOf(a)) - 1
                       /\ \A i \in DOMAIN mem[a] : mem[a][i] \in Values
=============================================================================
