------------------------------- MODULE Sweeps -------------------------------
(***************************************************************************)
(* The kernels of the sweeps in x and in y over one set of arrays: what    *)
(* the drivers of a step and those of two materials are composed of.       *)
(***************************************************************************)
EXTENDS GridArrays

CONSTANT DxIsDy    \* whether the cells are square

ASSUME DxIsDyAssumption == DxIsDy \in BOOLEAN

X == INSTANCE ProjectionX
Y == INSTANCE ProjectionY
=============================================================================
