CONSTANTS
  Shapes <- SmallShapes
  BoundaryNames = {"periodic"}
  DxIsDy = TRUE
SPECIFICATION Spec
INVARIANTS
  SeamGradientRight
CHECK_DEADLOCK FALSE
