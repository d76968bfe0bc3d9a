CONSTANTS
  Shapes <- SmallShapes
  BoundaryNames = {"Wall"}
SPECIFICATION Spec
INVARIANTS
  GradientsStored
CHECK_DEADLOCK FALSE
