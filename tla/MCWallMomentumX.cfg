CONSTANTS
  Shapes <- SmallShapes
  BoundaryNames = {"Wall"}
SPECIFICATION Spec
INVARIANTS
  WallCellsBalance
CHECK_DEADLOCK FALSE
