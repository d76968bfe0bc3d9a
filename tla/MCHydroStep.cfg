CONSTANTS
  Shapes <- MCShapes
  BoundaryNames = {"periodic", "RayleighTaylor", "Wall", "unknown"}
  Projections = {"AdProjection", "DirectProjection"}
  DxIsDy = TRUE
SPECIFICATION Spec
INVARIANTS
  TypeOK
  LagrangeRight
  FirstSweepRight
  EveryNeighbourRight
  MassConserved
  EnergyConserved
  DualCellsBalance
  TwinsAgree
PROPERTIES
  RightStaysRight
  SoundStaysSound
CHECK_DEADLOCK FALSE
