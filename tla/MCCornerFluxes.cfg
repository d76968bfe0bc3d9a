CONSTANTS
  Shapes <- MCShapes
  Flows <- MCFlows
  BoundaryNames = {"periodic", "Wall", "unknown"}
SPECIFICATION Spec
INVARIANTS
  TypeOK
  FaceFluxesCross
  CornerFluxesCross
  MomentumGoesWithLag
  CornersBalance
  EveryNeighbourRight
CHECK_DEADLOCK FALSE
