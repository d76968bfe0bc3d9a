--------------------------- MODULE LagrangePhase ---------------------------
(***************************************************************************)
(* Lagrange2dDefaultDriver: one Lagrangian prediction and correction.      *)
(*                                                                         *)
(* Five kernels run one after another over the arrays of the grid.  Four   *)
(* of them are parallel loops over rows: their rows are taken here in any  *)
(* order, and todo is what the current kernel has left.  The fifth gives   *)
(* the predicted velocity of the nodes on the boundary, in one step.       *)
(* X stands for in_X_x and in_X_y, which are always read together.         *)
(***************************************************************************)
EXTENDS GridArrays

Inputs  == {"mass", "e", "u", "v", "X"}
Scratch == {"pressure", "predicted_pressure", "pseudo_pressure", "predicted_u",
            "predicted_v", "e_lag", "u_lag", "v_lag"}
-----------------------------------------------------------------------------
\* The pressure is that of the cell as it is, the other two depend on how the
\* nodes move.
PressureReads(a, cell, iy) ==
  Here({"mass", "e"}, cell) \cup
  Corners(IF a = "pressure" THEN {"X"} ELSE {"u", "v", "X"},
          CellNodeM1M1(cell, iy, nx), CellNodeP1M1(cell, iy, nx),
          CellNodeM1P1(cell, iy, nx), CellNodeP1P1(cell, iy, nx))

PressureStores(a, iy) ==
  {LET c == CellAt(ix, iy, nx)
   IN <<c, Computed("cell", <<ix, iy>>, PressureReads(a, c, iy))>> : ix \in 0 .. nx - 1}

LagrangePressurePredictedOptimised ==
  /\ pc = "pressure"
  /\ RowOf({"pressure", "predicted_pressure", "pseudo_pressure"}, PressureStores,
           "velocity", 1 .. ny - 1)

\* kernel_lagrange_velocity: the acceleration of a node by the cells around it.
VelocityAt(a, p, sw, se, nw, ne, node) ==
  Computed("node", p,
    Quarters({"mass", "predicted_pressure", "pseudo_pressure"}, sw, se, nw, ne)
    \cup Here(IF a = "predicted_u" THEN {"u"} ELSE {"v"}, node))

VelocityStores(a, iy) ==
  {LET n == NodeAt(ix, iy, nx)
   IN <<n, VelocityAt(a, <<ix, iy>>, NodeCellM1M1(n, iy, nx), NodeCellP1M1(n, iy, nx),
                                     NodeCellM1P1(n, iy, nx), NodeCellP1P1(n, iy, nx), n)>>
   : ix \in 1 .. nx - 1}

LagrangeVelocityPredicted ==
  /\ pc = "velocity"
  /\ RowOf({"predicted_u", "predicted_v"}, VelocityStores, "boundary", {})
-----------------------------------------------------------------------------
\* The nodes of the bottom, the top, the left and the right side.
Bottom(ix)  == ix
Top(ix)     == ny * (nx + 1) + ix
Leftmost(iy)  == iy * (nx + 1)
\* Mutant: the nodes before the last column.
Rightmost_Short(iy) == (iy + 1) * (nx + 1) - 2

Rightmost(iy) == (iy + 1) * (nx + 1) - 1
\* One value for the two nodes of a left and right pair, computed from the cells
\* on both sides of the seam.
PeriodicLeftRight(a) ==
  UNION {LET l == Leftmost(iy)
             r == Rightmost(iy)
             value == VelocityAt(a, <<0, iy>>,
                                 NodeCellM1M1(r, iy, nx), NodeCellP1M1(l, iy, nx),
                                 NodeCellM1P1(r, iy, nx), NodeCellP1P1(l, iy, nx), l)
         IN {<<l, value>>, <<r, value>>} : iy \in 1 .. ny - 1}

PeriodicBottomTop(a) ==
  UNION {LET b == Bottom(ix)
             t == Top(ix)
             value == VelocityAt(a, <<ix, 0>>,
                                 NodeCellM1M1(t, ny, nx), NodeCellP1M1(t, ny, nx),
                                 NodeCellM1P1(b, 0, nx), NodeCellP1P1(b, 0, nx), b)
         IN {<<b, value>>, <<t, value>>} : ix \in 1 .. nx - 1}

\* Mutant: one corner of the grid is forgotten.
PeriodicCorners_Three(a) ==
  {<<n, VelocityAt(a, <<0, 0>>, ny * nx - 1, (ny - 1) * nx, nx - 1, 0, 0)>>
   : n \in CornerNodes \ {ny * (nx + 1)}}

PeriodicCorners(a) ==
  {<<n, VelocityAt(a, <<0, 0>>, ny * nx - 1, (ny - 1) * nx, nx - 1, 0, 0)>> : n \in CornerNodes}

PeriodicBoundaryVelocityPrediction(a) ==
  PeriodicBottomTop(a) \cup PeriodicLeftRight(a) \cup PeriodicCorners(a)

BottomAndTop == {Bottom(ix) : ix \in 1 .. nx - 1} \cup {Top(ix) : ix \in 1 .. nx - 1}
LeftAndRight == {Leftmost(iy) : iy \in 1 .. ny - 1} \cup {Rightmost(iy) : iy \in 1 .. ny - 1}

RtBoundaryVelocityPrediction(a) ==
  Zeros(BottomAndTop) \cup PeriodicLeftRight(a) \cup Zeros(CornerNodes)

\* The cells outside a wall mirror the cells inside.
WallUx ==
  {LET n == Bottom(ix) IN
     <<n, VelocityAt("predicted_u", <<ix, 0>>,
        NodeCellM1P1(n, 0, nx), NodeCellP1P1(n, 0, nx),
        NodeCellM1P1(n, 0, nx), NodeCellP1P1(n, 0, nx), n)>>
   : ix \in 1 .. nx - 1} \cup
  {LET n == Top(ix) IN
     <<n, VelocityAt("predicted_u", <<ix, ny>>,
        NodeCellM1M1(n, ny, nx), NodeCellP1M1(n, ny, nx),
        NodeCellM1M1(n, ny, nx), NodeCellP1M1(n, ny, nx), n)>>
   : ix \in 1 .. nx - 1}

WallUy ==
  {LET n == Leftmost(iy) IN
     <<n, VelocityAt("predicted_v", <<0, iy>>,
        NodeCellP1M1(n, iy, nx), NodeCellP1M1(n, iy, nx),
        NodeCellP1P1(n, iy, nx), NodeCellP1P1(n, iy, nx), n)>>
   : iy \in 1 .. ny - 1} \cup
  {LET n == Rightmost(iy) IN
     <<n, VelocityAt("predicted_v", <<nx, iy>>,
        NodeCellM1M1(n, iy, nx), NodeCellM1M1(n, iy, nx),
        NodeCellM1P1(n, iy, nx), NodeCellM1P1(n, iy, nx), n)>>
   : iy \in 1 .. ny - 1}

WallBoundaryVelocityPrediction(a) ==
  Zeros(CornerNodes) \cup IF a = "predicted_u" THEN WallUx \cup Zeros(LeftAndRight)
                                               ELSE WallUy \cup Zeros(BottomAndTop)

BoundaryStores(a) ==
  IF BoundaryConditions = "RayleighTaylor" THEN RtBoundaryVelocityPrediction(a)
  ELSE IF BoundaryConditions = "Wall" THEN WallBoundaryVelocityPrediction(a)
  ELSE PeriodicBoundaryVelocityPrediction(a)

BoundaryVelocityPrediction ==
  /\ pc = "boundary"
  /\ BoundaryOf({"predicted_u", "predicted_v"}, BoundaryStores, "energy", 0 .. ny - 1)
-----------------------------------------------------------------------------
EnergyAt(p, cell) ==
  Computed("cell", p,
    Here({"mass", "e", "predicted_pressure", "pseudo_pressure"}, cell) \cup
    Corners({"predicted_u", "predicted_v", "X"},
            CellNodeM1M1(cell, p[2], nx), CellNodeP1M1(cell, p[2], nx),
            CellNodeM1P1(cell, p[2], nx), CellNodeP1P1(cell, p[2], nx)))

EnergyStores(a, iy) ==
  {<<CellAt(ix, iy, nx), EnergyAt(<<ix, iy>>, CellAt(ix, iy, nx))>> : ix \in 0 .. nx - 1}

LagrangeCorrectionOptimised ==
  /\ pc = "energy"
  /\ RowOf({"e_lag"}, EnergyStores, "correction", 0 .. ny)

CorrectionStores(a, iy) ==
  {LET n == NodeAt(ix, iy, nx)
   IN <<n, Computed("node", <<ix, iy>>,
             Here(IF a = "u_lag" THEN {"u", "predicted_u"} ELSE {"v", "predicted_v"}, n))>>
   : ix \in 0 .. nx}

LagrangeVelocityCorrection ==
  /\ pc = "correction"
  /\ RowOf({"u_lag", "v_lag"}, CorrectionStores, "done", {})
-----------------------------------------------------------------------------
Next == \/ LagrangePressurePredictedOptimised
        \/ LagrangeVelocityPredicted
        \/ BoundaryVelocityPrediction
        \/ LagrangeCorrectionOptimised
        \/ LagrangeVelocityCorrection
-----------------------------------------------------------------------------
\* When the driver returns, every element of every array it fills, up to the last
\* row and column of nodes, is the result of the scheme on a grid without an edge:
\* the interior kernels and the boundary kernel cover all nodes between them, with
\* the neighbours of each, whatever the order of the rows.
EveryElementRight == pc = "done" => \A a \in Scratch : IsRight(mem, a)
=============================================================================
