CONSTANTS
  Shapes <- MCShapes
  Drains <- MCDrains
  DxIsDy = TRUE
  BoundaryNames = {"periodic", "RayleighTaylor", "Wall", "unknown"}
SPECIFICATION Spec
INVARIANTS
  TypeOK
  EveryNeighbourRight
  MaterialsConserved
  DualCellsBalance
CHECK_DEADLOCK FALSE
