----------------------- MODULE CartesianConnectivity -----------------------
(***************************************************************************)
(* The index arithmetic of the Cartesian grid of nx cells by ny cells.     *)
(*                                                                         *)
(* Cells, nodes, faces normal to x and faces normal to y are numbered row  *)
(* by row, each kind in its own array.  A kernel computes the index of one *)
(* of them from its column and row, and reaches its neighbours with the    *)
(* operators below; oo is the element itself, M1 and P1 are the neighbour  *)
(* before and after it in x, then in y.  An operator takes the row iy of   *)
(* the element it starts from when the rows of the two kinds differ in     *)
(* length.                                                                 *)
(***************************************************************************)
EXTENDS Integers

CellAt(ix, iy, nx)  == nx * iy + ix
NodeAt(ix, iy, nx)  == (nx + 1) * iy + ix
FaceXAt(ix, iy, nx) == (nx + 1) * iy + ix
FaceYAt(ix, iy, nx) == nx * iy + ix

CellCellM1O(cell, nx) == cell - 1
CellCellP1O(cell, nx) == cell + 1
CellCellOM1(cell, nx) == cell - nx
CellCellOP1(cell, nx) == cell + nx

CellCellM1M1(cell, nx) == cell - nx - 1
CellCellP1M1(cell, nx) == cell - nx + 1
CellCellM1P1(cell, nx) == cell + nx - 1
CellCellP1P1(cell, nx) == cell + nx + 1

CellFaceM1O(cell, iy, nx) == cell + iy
CellFaceP1O(cell, iy, nx) == cell + iy + 1
CellFaceOM1(cell, iy, nx) == cell
CellFaceOP1(cell, iy, nx) == cell + nx

CellNodeM1M1(cell, iy, nx) == cell + iy
CellNodeP1M1(cell, iy, nx) == cell + iy + 1
CellNodeM1P1(cell, iy, nx) == cell + iy + nx + 1
CellNodeP1P1(cell, iy, nx) == cell + iy + nx + 2

FaceXCellM1(face, iy, nx) == face - iy - 1
FaceXCellP1(face, iy, nx) == face - iy
FaceYCellM1(face, iy, nx) == face - nx
FaceYCellP1(face, iy, nx) == face

FaceXNodeM1(face, iy, nx) == face
FaceXNodeP1(face, iy, nx) == face + nx + 1
FaceYNodeM1(face, iy, nx) == face + iy
FaceYNodeP1(face, iy, nx) == face + iy + 1

NodeCellM1M1(node, iy, nx) == node - (nx + 1 + iy)
NodeCellP1M1(node, iy, nx) == node - (nx + iy)
NodeCellM1P1(node, iy, nx) == node - (iy + 1)
NodeCellP1P1(node, iy, nx) == node - iy

NodeNodeM1O(node, iy, nx) == node - 1
NodeNodeP1O(node, iy, nx) == node + 1
NodeNodeOM1(node, iy, nx) == node - (nx + 1)
NodeNodeOP1(node, iy, nx) == node + (nx + 1)

NodeNodeM1M1(node, iy, nx) == node - (nx + 1) - 1
NodeNodeP1M1(node, iy, nx) == node - (nx + 1) + 1
NodeNodeM1P1(node, iy, nx) == node + (nx + 1) - 1
NodeNodeP1P1(node, iy, nx) == node + (nx + 1) + 1

NodeFaceXOOM1(node, iy, nx) == node - (nx + 1)
NodeFaceXOOP1(node, iy, nx) == node
NodeFaceXM1M1(node, iy, nx) == node - nx - 2
NodeFaceXM1P1(node, iy, nx) == node - 1
NodeFaceXP1M1(node, iy, nx) == node - nx
NodeFaceXP1P1(node, iy, nx) == node + 1

NodeFaceYM1OO(node, iy, nx) == node - iy - 1
NodeFaceYP1OO(node, iy, nx) == node - iy
NodeFaceYM1M1(node, iy, nx) == node - nx - iy - 1
NodeFaceYM1P1(node, iy, nx) == node + nx - iy - 1
NodeFaceYP1M1(node, iy, nx) == node - nx - iy
NodeFaceYP1P1(node, iy, nx) == node + nx - iy
=============================================================================
