CONSTANTS
  Shapes <- SmallShapes
  BoundaryNames = {"periodic"}
  DxIsDy = FALSE
SPECIFICATION Spec
INVARIANTS
  BoundaryVelocityRight
CHECK_DEADLOCK FALSE
