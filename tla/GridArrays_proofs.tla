-------------------------- MODULE GridArrays_proofs --------------------------
(***************************************************************************)
(* The numbering of the grid, for every nx and ny: the arrays have exactly *)
(* one element for each place, the rows of a parallel loop have none in    *)
(* common, and the index maps of cartesian_connectivity.h lead from an     *)
(* element to the ones beside it, as far as the numbering goes.            *)
(*                                                                         *)
(* The runs check the kernels on a few shapes of grid.  What these lemmas  *)
(* say of the index maps is why nothing more is to be expected of others.  *)
(***************************************************************************)
EXTENDS GridArrays, TLAPS

\* Row by row, the rows of width w: equal numbers are of equal rows and columns.
LEMMA RowMajor ==
  ASSUME NEW w \in Nat \ {0}, NEW x1 \in 0 .. w - 1, NEW x2 \in 0 .. w - 1,
         NEW y1 \in Nat, NEW y2 \in Nat, w * y1 + x1 = w * y2 + x2
  PROVE  x1 = x2 /\ y1 = y2
<1>1. ~(y1 < y2)
  <2>1. SUFFICES ASSUME y1 < y2 PROVE FALSE
    OBVIOUS
  <2>2. PICK d \in Nat : y2 = y1 + 1 + d
    <3>1. y2 - y1 - 1 \in Nat /\ y2 = y1 + 1 + (y2 - y1 - 1)
      BY <2>1
    <3>2. QED BY <3>1
  <2>3. w * y2 = w * y1 + w + w * d
    BY <2>2
  <2>4. w * d >= 0 /\ w * y1 \in Int /\ w * d \in Int
    OBVIOUS
  <2>5. QED BY <2>3, <2>4
<1>2. ~(y2 < y1)
  <2>1. SUFFICES ASSUME y2 < y1 PROVE FALSE
    OBVIOUS
  <2>2. PICK d \in Nat : y1 = y2 + 1 + d
    <3>1. y1 - y2 - 1 \in Nat /\ y1 = y2 + 1 + (y1 - y2 - 1)
      BY <2>1
    <3>2. QED BY <3>1
  <2>3. w * y1 = w * y2 + w + w * d
    BY <2>2
  <2>4. w * d >= 0 /\ w * y2 \in Int /\ w * d \in Int
    OBVIOUS
  <2>5. QED BY <2>3, <2>4
<1>3. y1 = y2
  BY <1>1, <1>2
<1>4. w * y1 \in Int
  OBVIOUS
<1>5. QED BY <1>3, <1>4

\* A number of a row is below that of the first element of the row after the last.
LEMMA RowMajorInside ==
  ASSUME NEW w \in Nat \ {0}, NEW h \in Nat \ {0}, NEW x \in 0 .. w - 1, NEW y \in 0 .. h - 1
  PROVE  w * y + x \in 0 .. w * h - 1
<1>1. PICK d \in Nat : h = y + 1 + d
  <2>1. h - y - 1 \in Nat /\ h = y + 1 + (h - y - 1)
    OBVIOUS
  <2>2. QED BY <2>1
<1>2. w * h = w * y + w + w * d
  BY <1>1
<1>3. w * d >= 0 /\ w * y >= 0 /\ w * y \in Int /\ w * d \in Int
  OBVIOUS
<1>4. QED BY <1>2, <1>3

\* A grid has at least one cell in each direction.
Grid == nx \in Nat \ {0} /\ ny \in Nat \ {0}

\* The width and the height of the numbering of a kind.
LEMMA Widths ==
  ASSUME Grid, NEW k \in Kinds
  PROVE  /\ LastX(k) + 1 \in Nat \ {0} /\ LastY(k) + 1 \in Nat \ {0}
         /\ LastX(k) = (LastX(k) + 1) - 1 /\ LastY(k) = (LastY(k) + 1) - 1
         /\ \A p \in Places(k) : At(k, p) = (LastX(k) + 1) * p[2] + p[1]
  BY DEF Grid, Kinds, LastX, LastY, StaggeredX, StaggeredY, Places, At, NodeAt, CellAt

\* Two places never have the same element of an array: a kernel that is right for each
\* place it computes cannot spoil another by storing to it.
THEOREM ElementsApart ==
  ASSUME Grid, NEW k \in Kinds, NEW p \in Places(k), NEW q \in Places(k), At(k, p) = At(k, q)
  PROVE  p = q
<1>1. /\ p = <<p[1], p[2]>> /\ q = <<q[1], q[2]>>
      /\ p[1] \in 0 .. LastX(k) /\ q[1] \in 0 .. LastX(k)
      /\ p[2] \in 0 .. LastY(k) /\ q[2] \in 0 .. LastY(k)
  BY DEF Places
<1> DEFINE w  == LastX(k) + 1
           x1 == p[1]
           x2 == q[1]
           y1 == p[2]
           y2 == q[2]
<1>2. w \in Nat \ {0} /\ x1 \in 0 .. w - 1 /\ x2 \in 0 .. w - 1 /\ y1 \in Nat /\ y2 \in Nat
  BY <1>1, Widths
<1>3. w * y1 + x1 = w * y2 + x2
  BY Widths
<1>4. x1 = x2 /\ y1 = y2
  <2> HIDE DEF w, x1, x2, y1, y2
  <2>1. QED BY <1>2, <1>3, RowMajor
<1>5. QED BY <1>1, <1>4

\* Every place has an element of the array: no place of the grid is out of bounds.
THEOREM ElementsInside ==
  ASSUME Grid, NEW k \in Kinds, NEW p \in Places(k)
  PROVE  At(k, p) \in 0 .. Size(k) - 1
<1>1. p[1] \in 0 .. (LastX(k) + 1) - 1 /\ p[2] \in 0 .. (LastY(k) + 1) - 1
  BY Widths DEF Places
<1>2. QED BY <1>1, Widths, RowMajorInside DEF Size

\* The rows of a parallel loop, which threads may take in any order or together, store to
\* different elements.
THEOREM RowsApart ==
  ASSUME Grid, NEW k \in Kinds, NEW iy \in 0 .. LastY(k), NEW jy \in 0 .. LastY(k), iy # jy
  PROVE  {At(k, <<ix, iy>>) : ix \in 0 .. LastX(k)} \cap {At(k, <<ix, jy>>) : ix \in 0 .. LastX(k)} = {}
<1>1. SUFFICES ASSUME NEW ix \in 0 .. LastX(k), NEW jx \in 0 .. LastX(k),
                      At(k, <<ix, iy>>) = At(k, <<jx, jy>>)
               PROVE  FALSE
  OBVIOUS
<1>2. <<ix, iy>> \in Places(k) /\ <<jx, jy>> \in Places(k)
  BY DEF Places
<1>3. <<ix, iy>> = <<jx, jy>>
  BY <1>1, <1>2, ElementsApart
<1>4. QED BY <1>3

\* What the stores leave in element i of an array f whose elements they all are.
Element(f, stores, i) ==
  LET vs == {s[2] : s \in {t \in stores : t[1] = i}}
  IN IF vs = {} THEN f[i]
     ELSE IF \A v, w \in vs : v = w THEN CHOOSE v \in vs : TRUE ELSE Garbage

Indices(stores) == {s[1] : s \in stores}

LEMMA StoredElements ==
  ASSUME NEW f, NEW stores, Indices(stores) \subseteq DOMAIN f
  PROVE  Stored(f, stores) = [i \in DOMAIN f |-> Element(f, stores, i)]
<1>1. ~(\E s \in stores : s[1] \notin DOMAIN f)
  BY DEF Indices
<1>2. QED BY <1>1 DEF Stored, Element

LEMMA ElementKept ==
  ASSUME NEW f, NEW stores, NEW i, i \notin Indices(stores)
  PROVE  Element(f, stores, i) = f[i]
<1>1. {s[2] : s \in {t \in stores : t[1] = i}} = {}
  BY DEF Indices
<1>2. QED BY <1>1 DEF Element

\* Where something is stored, what was there before is of no account.
LEMMA ElementStored ==
  ASSUME NEW f, NEW g, NEW stores, NEW i \in Indices(stores)
  PROVE  Element(f, stores, i) = Element(g, stores, i)
<1>1. PICK s \in stores : s[1] = i
  BY DEF Indices
<1>2. s[2] \in {r[2] : r \in {t \in stores : t[1] = i}}
  BY <1>1
<1>3. QED BY <1>2 DEF Element

\* Two rows of a parallel loop, or two kernels, that store into the array to different
\* elements of it leave the same array in either order: with RowsApart, this is why the
\* order of the threads does not matter as long as no row reads what another stores.
THEOREM StoresCommute ==
  ASSUME NEW f, NEW S, NEW T, Indices(S) \subseteq DOMAIN f, Indices(T) \subseteq DOMAIN f,
         Indices(S) \cap Indices(T) = {}
  PROVE  Stored(Stored(f, S), T) = Stored(Stored(f, T), S)
<1> DEFINE fs == [i \in DOMAIN f |-> Element(f, S, i)]
           ft == [i \in DOMAIN f |-> Element(f, T, i)]
<1>1. Stored(f, S) = fs /\ Stored(f, T) = ft
  BY StoredElements
<1>2. DOMAIN fs = DOMAIN f /\ DOMAIN ft = DOMAIN f
  OBVIOUS
<1>3. \A i \in DOMAIN f : fs[i] = Element(f, S, i) /\ ft[i] = Element(f, T, i)
  OBVIOUS
<1> HIDE DEF fs, ft
<1>4. /\ Stored(fs, T) = [i \in DOMAIN f |-> Element(fs, T, i)]
      /\ Stored(ft, S) = [i \in DOMAIN f |-> Element(ft, S, i)]
  BY <1>2, StoredElements
<1>5. ASSUME NEW i \in DOMAIN f PROVE Element(fs, T, i) = Element(ft, S, i)
  <2>1. CASE i \in Indices(S)
    <3>1. Element(fs, T, i) = fs[i]
      BY <2>1, ElementKept
    <3>2. Element(ft, S, i) = Element(f, S, i)
      BY <2>1, ElementStored
    <3>3. QED BY <1>3, <3>1, <3>2
  <2>2. CASE i \in Indices(T)
    <3>1. Element(ft, S, i) = ft[i]
      BY <2>2, ElementKept
    <3>2. Element(fs, T, i) = Element(f, T, i)
      BY <2>2, ElementStored
    <3>3. QED BY <1>3, <3>1, <3>2
  <2>3. CASE i \notin Indices(S) /\ i \notin Indices(T)
    <3>1. Element(fs, T, i) = fs[i] /\ Element(ft, S, i) = ft[i]
      BY <2>3, ElementKept
    <3>2. Element(f, S, i) = f[i] /\ Element(f, T, i) = f[i]
      BY <2>3, ElementKept
    <3>3. QED BY <1>3, <3>1, <3>2
  <2>4. QED BY <2>1, <2>2, <2>3
<1>6. QED BY <1>1, <1>4, <1>5
-----------------------------------------------------------------------------
\* The product of the width of a row of nodes and a row is that of a row of cells, and one
\* more element for each row before.
LEMMA Products ==
  ASSUME NEW n \in Int, NEW y \in Int
  PROVE  /\ n * y \in Int
         /\ (n + 1) * y = n * y + y
         /\ n * (y - 1) = n * y - n /\ n * (y + 1) = n * y + n
         /\ (n + 1) * (y - 1) = n * y + y - n - 1 /\ (n + 1) * (y + 1) = n * y + y + n + 1
  OBVIOUS

\* From a cell to its nodes, faces and neighbours, and from a face to its cells and nodes:
\* the maps of the code, given the row of the element they start from, lead to the element
\* that is there in the numbering of its own kind, whatever the length of the rows.
THEOREM CellMaps ==
  ASSUME NEW n \in Int, NEW ix \in Int, NEW iy \in Int
  PROVE  LET c == CellAt(ix, iy, n)
             f == FaceXAt(ix, iy, n)
             g == FaceYAt(ix, iy, n)
         IN /\ CellNodeM1M1(c, iy, n) = NodeAt(ix, iy, n)
            /\ CellNodeP1M1(c, iy, n) = NodeAt(ix + 1, iy, n)
            /\ CellNodeM1P1(c, iy, n) = NodeAt(ix, iy + 1, n)
            /\ CellNodeP1P1(c, iy, n) = NodeAt(ix + 1, iy + 1, n)
            /\ CellFaceM1O(c, iy, n) = FaceXAt(ix, iy, n)
            /\ CellFaceP1O(c, iy, n) = FaceXAt(ix + 1, iy, n)
            /\ CellFaceOM1(c, iy, n) = FaceYAt(ix, iy, n)
            /\ CellFaceOP1(c, iy, n) = FaceYAt(ix, iy + 1, n)
            /\ CellCellM1O(c, n) = CellAt(ix - 1, iy, n)
            /\ CellCellP1O(c, n) = CellAt(ix + 1, iy, n)
            /\ CellCellOM1(c, n) = CellAt(ix, iy - 1, n)
            /\ CellCellOP1(c, n) = CellAt(ix, iy + 1, n)
            /\ CellCellM1M1(c, n) = CellAt(ix - 1, iy - 1, n)
            /\ CellCellP1M1(c, n) = CellAt(ix + 1, iy - 1, n)
            /\ CellCellM1P1(c, n) = CellAt(ix - 1, iy + 1, n)
            /\ CellCellP1P1(c, n) = CellAt(ix + 1, iy + 1, n)
            /\ FaceXCellM1(f, iy, n) = CellAt(ix - 1, iy, n)
            /\ FaceXCellP1(f, iy, n) = CellAt(ix, iy, n)
            /\ FaceYCellM1(g, iy, n) = CellAt(ix, iy - 1, n)
            /\ FaceYCellP1(g, iy, n) = CellAt(ix, iy, n)
            /\ FaceXNodeP1(f, iy, n) = NodeAt(ix, iy + 1, n)
            /\ FaceYNodeP1(g, iy, n) = NodeAt(ix + 1, iy, n)
  BY Products, SMTT(60)
     DEF CellAt, NodeAt, FaceXAt, FaceYAt, CellNodeM1M1, CellNodeP1M1, CellNodeM1P1, CellNodeP1P1,
         CellFaceM1O, CellFaceP1O, CellFaceOM1, CellFaceOP1,
         CellCellM1O, CellCellP1O, CellCellOM1, CellCellOP1, CellCellM1M1, CellCellP1M1,
         CellCellM1P1, CellCellP1P1, FaceXCellM1, FaceXCellP1, FaceYCellM1, FaceYCellP1,
         FaceXNodeP1, FaceYNodeP1

\* From a node to its cells, faces and neighbours, in the same way.
THEOREM NodeMaps ==
  ASSUME NEW n \in Int, NEW ix \in Int, NEW iy \in Int
  PROVE  LET m == NodeAt(ix, iy, n)
         IN /\ NodeCellM1M1(m, iy, n) = CellAt(ix - 1, iy - 1, n)
            /\ NodeCellP1M1(m, iy, n) = CellAt(ix, iy - 1, n)
            /\ NodeCellM1P1(m, iy, n) = CellAt(ix - 1, iy, n)
            /\ NodeCellP1P1(m, iy, n) = CellAt(ix, iy, n)
            /\ NodeNodeM1O(m, iy, n) = NodeAt(ix - 1, iy, n)
            /\ NodeNodeP1O(m, iy, n) = NodeAt(ix + 1, iy, n)
            /\ NodeNodeOM1(m, iy, n) = NodeAt(ix, iy - 1, n)
            /\ NodeNodeOP1(m, iy, n) = NodeAt(ix, iy + 1, n)
            /\ NodeNodeM1M1(m, iy, n) = NodeAt(ix - 1, iy - 1, n)
            /\ NodeNodeP1M1(m, iy, n) = NodeAt(ix + 1, iy - 1, n)
            /\ NodeNodeM1P1(m, iy, n) = NodeAt(ix - 1, iy + 1, n)
            /\ NodeNodeP1P1(m, iy, n) = NodeAt(ix + 1, iy + 1, n)
            /\ NodeFaceXOOM1(m, iy, n) = FaceXAt(ix, iy - 1, n)
            /\ NodeFaceXOOP1(m, iy, n) = FaceXAt(ix, iy, n)
            /\ NodeFaceXM1M1(m, iy, n) = FaceXAt(ix - 1, iy - 1, n)
            /\ NodeFaceXM1P1(m, iy, n) = FaceXAt(ix - 1, iy, n)
            /\ NodeFaceXP1M1(m, iy, n) = FaceXAt(ix + 1, iy - 1, n)
            /\ NodeFaceXP1P1(m, iy, n) = FaceXAt(ix + 1, iy, n)
            /\ NodeFaceYM1OO(m, iy, n) = FaceYAt(ix - 1, iy, n)
            /\ NodeFaceYP1OO(m, iy, n) = FaceYAt(ix, iy, n)
            /\ NodeFaceYM1M1(m, iy, n) = FaceYAt(ix - 1, iy - 1, n)
            /\ NodeFaceYM1P1(m, iy, n) = FaceYAt(ix - 1, iy + 1, n)
            /\ NodeFaceYP1M1(m, iy, n) = FaceYAt(ix, iy - 1, n)
            /\ NodeFaceYP1P1(m, iy, n) = FaceYAt(ix, iy + 1, n)
  BY Products, SMTT(60)
     DEF CellAt, NodeAt, FaceXAt, FaceYAt, NodeCellM1M1, NodeCellP1M1, NodeCellM1P1, NodeCellP1P1,
         NodeNodeM1O, NodeNodeP1O, NodeNodeOM1, NodeNodeOP1,
         NodeNodeM1M1, NodeNodeP1M1, NodeNodeM1P1, NodeNodeP1P1,
         NodeFaceXOOM1, NodeFaceXOOP1, NodeFaceXM1M1, NodeFaceXM1P1, NodeFaceXP1M1, NodeFaceXP1P1,
         NodeFaceYM1OO, NodeFaceYP1OO, NodeFaceYM1M1, NodeFaceYM1P1, NodeFaceYP1M1, NodeFaceYP1P1
-----------------------------------------------------------------------------
\* A grid the code allows: at least two cells in each direction.
WideGrid == nx \in Nat \ {0, 1} /\ ny \in Nat \ {0, 1}

LEMMA WideGridIsGrid == WideGrid => Grid
  BY DEF WideGrid, Grid

LEMMA ShapesAreWide == <<nx, ny>> \in Shapes => WideGrid
  BY ShapesAssumption DEF WideGrid

\* The remainders that a coordinate of the grid or next to it has.
LEMMA RemainderNear ==
  ASSUME NEW n \in Nat \ {0, 1}, NEW z \in Int
  PROVE  /\ z \in 0 .. n - 1 => z % n = z
         /\ z = n => z % n = 0
         /\ z = n + 1 => z % n = 1
         /\ z + 1 = 0 => z % n = n - 1
<1>1. z \in 0 .. n - 1 => z % n = z
  BY SMTT(30)
<1>2. z = n => z % n = 0
  BY SMTT(30)
<1>3. z = n + 1 => z % n = 1
  BY SMTT(30)
<1>4. z + 1 = 0 => z % n = n - 1
  BY SMTT(30)
<1>5. QED BY <1>1, <1>2, <1>3, <1>4

\* Where a coordinate of the grid, or one beside it, is folded to.
LEMMA FoldedXNear ==
  ASSUME WideGrid, NEW k, NEW z \in Int
  PROVE  /\ z \in 0 .. nx - 1 => Folded(z, nx, WallsX, StaggeredX(k)) = z
         /\ StaggeredX(k) =>
              /\ z = nx => Folded(z, nx, WallsX, StaggeredX(k)) = IF WallsX THEN nx ELSE 0
              /\ z + 1 = 0 => Folded(z, nx, WallsX, StaggeredX(k)) = IF WallsX THEN 1 ELSE nx - 1
              /\ z = nx + 1 =>
                   Folded(z, nx, WallsX, StaggeredX(k)) = IF WallsX THEN nx - 1 ELSE 1
         /\ ~StaggeredX(k) =>
              /\ z = nx => Folded(z, nx, WallsX, StaggeredX(k)) = IF WallsX THEN nx - 1 ELSE 0
              /\ z + 1 = 0 => Folded(z, nx, WallsX, StaggeredX(k)) = IF WallsX THEN 0 ELSE nx - 1
<1>1. /\ nx \in Nat \ {0, 1}
      /\ z + 1 = 0 => z % nx = nx - 1
      /\ z \in 0 .. nx - 1 => z % nx = z
      /\ z = nx => z % nx = 0
      /\ z = nx + 1 => z % nx = 1
  BY RemainderNear DEF WideGrid
<1>2. CASE ~WallsX
  BY <1>1, <1>2 DEF Folded
<1>3. CASE WallsX
  BY <1>1, <1>3 DEF Folded
<1>4. QED BY <1>2, <1>3

LEMMA FoldedYNear ==
  ASSUME WideGrid, NEW k, NEW z \in Int
  PROVE  /\ z \in 0 .. ny - 1 => Folded(z, ny, WallsY, StaggeredY(k)) = z
         /\ StaggeredY(k) =>
              /\ z = ny => Folded(z, ny, WallsY, StaggeredY(k)) = IF WallsY THEN ny ELSE 0
              /\ z + 1 = 0 => Folded(z, ny, WallsY, StaggeredY(k)) = IF WallsY THEN 1 ELSE ny - 1
              /\ z = ny + 1 =>
                   Folded(z, ny, WallsY, StaggeredY(k)) = IF WallsY THEN ny - 1 ELSE 1
         /\ ~StaggeredY(k) =>
              /\ z = ny => Folded(z, ny, WallsY, StaggeredY(k)) = IF WallsY THEN ny - 1 ELSE 0
              /\ z + 1 = 0 => Folded(z, ny, WallsY, StaggeredY(k)) = IF WallsY THEN 0 ELSE ny - 1
<1>1. /\ ny \in Nat \ {0, 1}
      /\ z + 1 = 0 => z % ny = ny - 1
      /\ z \in 0 .. ny - 1 => z % ny = z
      /\ z = ny => z % ny = 0
      /\ z = ny + 1 => z % ny = 1
  BY RemainderNear DEF WideGrid
<1>2. CASE ~WallsY
  BY <1>1, <1>2 DEF Folded
<1>3. CASE WallsY
  BY <1>1, <1>3 DEF Folded
<1>4. QED BY <1>2, <1>3

\* A place of the grid is folded into the grid, and folded no further.
LEMMA FoldInside ==
  ASSUME WideGrid, NEW k \in Kinds, NEW p \in Places(k)
  PROVE  Fold(k, p) \in Places(k) /\ Fold(k, Fold(k, p)) = Fold(k, p)
<1>1. CASE k = "position"
  BY <1>1 DEF Fold
<1>2. CASE k # "position"
  <2> DEFINE x == p[1]
             y == p[2]
             fx == Folded(x, nx, WallsX, StaggeredX(k))
             fy == Folded(y, ny, WallsY, StaggeredY(k))
  <2>1. x \in 0 .. LastX(k) /\ y \in 0 .. LastY(k)
    BY DEF Places
  <2>3. fx \in 0 .. LastX(k) /\ Folded(fx, nx, WallsX, StaggeredX(k)) = fx
    BY <2>1, FoldedXNear DEF LastX, WideGrid
  <2>4. fy \in 0 .. LastY(k) /\ Folded(fy, ny, WallsY, StaggeredY(k)) = fy
    BY <2>1, FoldedYNear DEF LastY, WideGrid
  <2>5. Fold(k, p) = <<fx, fy>>
    BY <1>2 DEF Fold
  <2>6. Fold(k, <<fx, fy>>) = <<fx, fy>>
    BY <1>2, <2>3, <2>4 DEF Fold
  <2>7. QED BY <2>3, <2>4, <2>5, <2>6 DEF Places
<1>3. QED BY <1>1, <1>2

\* The kinds of the arrays.
LEMMA KindsOfArrays ==
  /\ \A a \in {"mass", "e", "pressure", "predicted_pressure", "pseudo_pressure", "e_lag"} :
       KindOf(a) = "cell"
  /\ \A a \in {"u", "v", "predicted_u", "predicted_v", "u_lag", "v_lag", "out_u", "out_v"} :
       KindOf(a) = "node"
  /\ KindOf("X") = "position"
  BY DEF KindOf

\* The place of an element, which the number of columns gives.
LEMMA RowMajorInverse ==
  ASSUME NEW w \in Nat \ {0}, NEW x \in 0 .. w - 1, NEW y \in Nat
  PROVE  (w * y + x) % w = x /\ (w * y + x) \div w = y
<1> DEFINE i == w * y + x
           q == i \div w
           r == i % w
<1>1. i \in Nat
  <2>1. w * y \in Nat
    OBVIOUS
  <2> QED BY <2>1
<1> HIDE DEF i
<1>2. /\ q \in Nat /\ r \in 0 .. w - 1
      /\ i = w * q + r
  BY <1>1, SMTT(30)
<1>3. w * q + r = w * y + x
  BY <1>2 DEF i
<1> HIDE DEF q, r
<1>4. r = x /\ q = y
  BY <1>2, <1>3, RowMajor
<1> QED BY <1>4 DEF q, r, i

\* An array that was filled is right all over.
LEMMA FilledRight ==
  ASSUME Grid, NEW a, KindOf(a) \in Kinds, NEW p \in Places(KindOf(a))
  PROVE  Filled(a)[At(KindOf(a), p)] = Right(a, p)
<1> DEFINE k == KindOf(a)
           w == LastX(k) + 1
<1>1. w \in Nat \ {0} /\ p[1] \in 0 .. w - 1 /\ p[2] \in Nat /\ At(k, p) = w * p[2] + p[1] /\ p = <<p[1], p[2]>>
  <2>1. p[1] \in 0 .. LastX(k) /\ p[2] \in 0 .. LastY(k) /\ p = <<p[1], p[2]>>
    BY DEF Places
  <2> QED BY <2>1, Widths
<1>2. At(k, p) % w = p[1] /\ At(k, p) \div w = p[2]
  BY <1>1, RowMajorInverse
<1>3. At(k, p) \in 0 .. Size(k) - 1
  BY ElementsInside
<1> QED BY <1>1, <1>2, <1>3 DEF Filled

-----------------------------------------------------------------------------
\* Stores to the elements of the places S leave the other places as they were.
LEMMA StoredElsewhere ==
  ASSUME Grid, NEW k \in Kinds, NEW S \in SUBSET Places(k),
         NEW f, DOMAIN f = 0 .. Size(k) - 1,
         NEW stores, \A s \in stores : \E p \in S : s[1] = At(k, p)
  PROVE  /\ DOMAIN Stored(f, stores) = DOMAIN f
         /\ \A i \in DOMAIN f : Stored(f, stores)[i] = Element(f, stores, i)
         /\ \A p \in Places(k) \ S : Stored(f, stores)[At(k, p)] = f[At(k, p)]
<1>1. Indices(stores) \subseteq DOMAIN f
  BY ElementsInside DEF Indices
<1>2. Stored(f, stores) = [i \in DOMAIN f |-> Element(f, stores, i)]
  BY <1>1, StoredElements
<1>3. ASSUME NEW p \in Places(k) \ S PROVE Stored(f, stores)[At(k, p)] = f[At(k, p)]
  <2>1. At(k, p) \notin Indices(stores)
    BY ElementsApart DEF Indices
  <2>2. At(k, p) \in DOMAIN f
    BY ElementsInside
  <2>3. Element(f, stores, At(k, p)) = f[At(k, p)]
    BY <2>1, ElementKept
  <2>4. QED BY <1>2, <2>2, <2>3
<1>4. QED BY <1>2, <1>3

\* Where the stores are the values g of the places S, and every place has one, each place
\* gets its own.
LEMMA StoredThere ==
  ASSUME Grid, NEW k \in Kinds, NEW S \in SUBSET Places(k),
         NEW f, DOMAIN f = 0 .. Size(k) - 1, NEW g,
         NEW stores, \A s \in stores : \E p \in S : s[1] = At(k, p) /\ s[2] = g[p],
         \A p \in S : \E s \in stores : s[1] = At(k, p)
  PROVE  \A p \in S : Stored(f, stores)[At(k, p)] = g[p]
<1> SUFFICES ASSUME NEW p \in S PROVE Stored(f, stores)[At(k, p)] = g[p]
  OBVIOUS
<1> DEFINE vs == {s[2] : s \in {t \in stores : t[1] = At(k, p)}}
<1>1. \A s \in stores : s[1] = At(k, p) => s[2] = g[p]
  BY ElementsApart
<1>2. vs = {g[p]}
  BY <1>1
<1>3. Element(f, stores, At(k, p)) = g[p]
  BY <1>2 DEF Element
<1>4. At(k, p) \in DOMAIN f
  BY ElementsInside
<1>5. Stored(f, stores)[At(k, p)] = Element(f, stores, At(k, p))
  <2>1. Indices(stores) \subseteq DOMAIN f
    BY ElementsInside DEF Indices
  <2>2. Stored(f, stores) = [i \in DOMAIN f |-> Element(f, stores, i)]
    BY <2>1, StoredElements
  <2>3. QED BY <1>4, <2>2
<1>6. QED BY <1>3, <1>5
-----------------------------------------------------------------------------
\* Element i of array a is what the place p of a grid without an edge asks for.
Found(a, i, p) == i \in DOMAIN mem[a] /\ mem[a][i] \in Expected(a, p)

\* The element of a place that is right is found from there, and from any place beyond the
\* edge that stands for it.
LEMMA FoundFrom ==
  ASSUME Grid, NEW a, KindOf(a) \in Kinds, NEW q \in Places(KindOf(a)),
         DOMAIN mem[a] = 0 .. Size(KindOf(a)) - 1,
         mem[a][At(KindOf(a), q)] = Right(a, q), NEW p, Right(a, p) = Right(a, q)
  PROVE  Found(a, At(KindOf(a), q), p)
  BY ElementsInside DEF Found, Expected

LEMMA ReadsFound ==
  ASSUME NEW p, NEW a, NEW dx, NEW dy, NEW i, Found(a, i, <<p[1] + dx, p[2] + dy>>)
  PROVE  ReadsRight(p, <<a, dx, dy, i>>)
  BY DEF ReadsRight, Found, Neighbour

\* A formula all of whose reads find what they ask for has the value of its place.
LEMMA ComputedFound ==
  ASSUME NEW k, NEW p, NEW reads, \A r \in reads : ReadsRight(p, r)
  PROVE  Computed(k, p, reads) = Fold(k, p)
  BY DEF Computed

LEMMA HereFound ==
  ASSUME NEW x \in Int, NEW y \in Int, NEW A, NEW i, \A a \in A : Found(a, i, <<x, y>>)
  PROVE  \A r \in Here(A, i) : ReadsRight(<<x, y>>, r)
<1> SUFFICES ASSUME NEW a \in A PROVE ReadsRight(<<x, y>>, <<a, 0, 0, i>>)
  BY DEF Here
<1>1. <<<<x, y>>[1] + 0, <<x, y>>[2] + 0>> = <<x, y>>
  OBVIOUS
<1>2. QED BY <1>1, ReadsFound

LEMMA CornersFound ==
  ASSUME NEW x \in Int, NEW y \in Int, NEW A, NEW sw, NEW se, NEW nw, NEW ne,
         \A a \in A : /\ Found(a, sw, <<x, y>>)     /\ Found(a, se, <<x + 1, y>>)
                      /\ Found(a, nw, <<x, y + 1>>) /\ Found(a, ne, <<x + 1, y + 1>>)
  PROVE  \A r \in Corners(A, sw, se, nw, ne) : ReadsRight(<<x, y>>, r)
<1> SUFFICES ASSUME NEW a \in A
             PROVE  /\ ReadsRight(<<x, y>>, <<a, 0, 0, sw>>) /\ ReadsRight(<<x, y>>, <<a, 1, 0, se>>)
                    /\ ReadsRight(<<x, y>>, <<a, 0, 1, nw>>) /\ ReadsRight(<<x, y>>, <<a, 1, 1, ne>>)
  <2>1. ASSUME NEW r \in Corners(A, sw, se, nw, ne)
        PROVE  \E a \in A : r \in {<<a, 0, 0, sw>>, <<a, 1, 0, se>>, <<a, 0, 1, nw>>, <<a, 1, 1, ne>>}
    BY DEF Corners
  <2>2. QED BY <2>1
<1>1. <<x + 0, y + 0>> = <<x, y>> /\ <<x + 1, y + 0>> = <<x + 1, y>> /\ <<x + 0, y + 1>> = <<x, y + 1>>
  OBVIOUS
<1>2. <<x, y>>[1] = x /\ <<x, y>>[2] = y
  OBVIOUS
<1>3. QED BY <1>1, <1>2, ReadsFound

LEMMA QuartersFound ==
  ASSUME NEW x \in Int, NEW y \in Int, NEW A, NEW sw, NEW se, NEW nw, NEW ne,
         \A a \in A : /\ Found(a, sw, <<x - 1, y - 1>>) /\ Found(a, se, <<x, y - 1>>)
                      /\ Found(a, nw, <<x - 1, y>>)     /\ Found(a, ne, <<x, y>>)
  PROVE  \A r \in Quarters(A, sw, se, nw, ne) : ReadsRight(<<x, y>>, r)
<1> SUFFICES ASSUME NEW a \in A
             PROVE  /\ ReadsRight(<<x, y>>, <<a, -1, -1, sw>>) /\ ReadsRight(<<x, y>>, <<a, 0, -1, se>>)
                    /\ ReadsRight(<<x, y>>, <<a, -1, 0, nw>>)  /\ ReadsRight(<<x, y>>, <<a, 0, 0, ne>>)
  <2>1. ASSUME NEW r \in Quarters(A, sw, se, nw, ne)
        PROVE  \E a \in A : r \in {<<a, -1, -1, sw>>, <<a, 0, -1, se>>, <<a, -1, 0, nw>>, <<a, 0, 0, ne>>}
    BY DEF Quarters
  <2>2. QED BY <2>1
<1>1. /\ <<x + (-1), y + (-1)>> = <<x - 1, y - 1>> /\ <<x + 0, y + (-1)>> = <<x, y - 1>>
      /\ <<x + (-1), y + 0>> = <<x - 1, y>> /\ <<x + 0, y + 0>> = <<x, y>>
  OBVIOUS
<1>2. <<x, y>>[1] = x /\ <<x, y>>[2] = y
  OBVIOUS
<1>3. QED BY <1>1, <1>2, ReadsFound

-----------------------------------------------------------------------------
\* The results that a formula can have for a place, whatever it reads.
Stamps(q) == {q, Derived(q), Off(q)}
Results(k, p) == Stamps(Fold(k, p))

LEMMA ComputedResults ==
  \A k, p, reads : Computed(k, p, reads) \in Results(k, p)
  BY DEF Computed, Results, Stamps

\* The faces that fluxes in a direction go through: those at the two ends of the grid, which
\* a boundary kernel stores, and the others, of the rows of a loop.
FaceKinds == {"facex", "facey"}
AtEnd(k, p) == IF k = "facex" THEN p[1] \in {0, nx} ELSE p[2] \in {0, ny}
WallsOf(k)  == IF k = "facex" THEN WallsX ELSE WallsY
FaceRows(k) == IF k = "facex" THEN CellRows ELSE Inner
FacesOf(k, rows) == {p \in Places(k) : ~AtEnd(k, p) /\ p[2] \in rows}

\* A face has the flux that was computed for it, or 0.
Borne(q) == Stamps(q) \cup {Zero}

FluxesOn(m, k, S) == \A p \in S : m[At(k, p)] \in Borne(Fold(k, p))

\* An array of fluxes that is complete: no flux goes through a wall, and the two faces of a
\* seam have the same.
FaceFlux(m, k, p) ==
  IF WallsOf(k) /\ AtEnd(k, p) THEN m[At(k, p)] = Zero
  ELSE m[At(k, p)] \in Borne(Fold(k, p)) /\ m[At(k, p)] = m[At(k, Fold(k, p))]
Complete(m, k) == \A p \in Places(k) : FaceFlux(m, k, p)

LEMMA FaceCoordinates ==
  ASSUME WideGrid, NEW k \in FaceKinds, NEW p \in Places(k)
  PROVE  /\ k \in Kinds /\ p = <<p[1], p[2]>> /\ p[1] \in Nat /\ p[2] \in Nat
         /\ k = "facex" => p[1] \in 0 .. nx /\ p[2] \in 0 .. ny - 1
         /\ k = "facey" => p[1] \in 0 .. nx - 1 /\ p[2] \in 0 .. ny
  BY DEF FaceKinds, Kinds, Places, LastX, LastY, StaggeredX, StaggeredY, WideGrid

\* Where a face is folded.
LEMMA FaceFold ==
  ASSUME WideGrid, NEW k \in FaceKinds, NEW p \in Places(k)
  PROVE  /\ ~AtEnd(k, p) \/ WallsOf(k) => Fold(k, p) = p
         /\ k = "facex" /\ ~WallsX => Fold(k, p) = IF p[1] = nx THEN <<0, p[2]>> ELSE p
         /\ k = "facey" /\ ~WallsY => Fold(k, p) = IF p[2] = ny THEN <<p[1], 0>> ELSE p
<1> DEFINE x == p[1]
           y == p[2]
<1>1. CASE k = "facex"
  <2>1. /\ StaggeredX(k) /\ ~StaggeredY(k) /\ k # "position"
        /\ x \in 0 .. nx /\ y \in 0 .. ny - 1 /\ p = <<x, y>>
    BY <1>1, FaceCoordinates DEF StaggeredX, StaggeredY
  <2>2. Folded(y, ny, WallsY, StaggeredY(k)) = y
    BY <2>1, FoldedYNear
  <2>3. Folded(x, nx, WallsX, StaggeredX(k)) = IF x = nx /\ ~WallsX THEN 0 ELSE x
    <3>1. CASE x = nx
      <4>1. x \in Int
        BY <2>1
      <4>2. StaggeredX(k) => Folded(x, nx, WallsX, StaggeredX(k)) = IF WallsX THEN nx ELSE 0
        BY <3>1, <4>1, FoldedXNear
      <4>3. Folded(x, nx, WallsX, StaggeredX(k)) = IF WallsX THEN nx ELSE 0
        BY <2>1, <4>2, Zenon
      <4> QED BY <3>1, <4>3
    <3>2. CASE x # nx
      <4>1. x \in 0 .. nx - 1
        BY <2>1, <3>2 DEF WideGrid
      <4>2. Folded(x, nx, WallsX, StaggeredX(k)) = x
        BY <4>1, FoldedXNear
      <4> QED BY <3>2, <4>2
    <3> QED BY <3>1, <3>2
  <2>4. Fold(k, p) = IF x = nx /\ ~WallsX THEN <<0, y>> ELSE p
    BY <2>1, <2>2, <2>3 DEF Fold
  <2> QED BY <1>1, <2>1, <2>4 DEF AtEnd, WallsOf
<1>2. CASE k = "facey"
  <2>1. /\ ~StaggeredX(k) /\ StaggeredY(k) /\ k # "position"
        /\ x \in 0 .. nx - 1 /\ y \in 0 .. ny /\ p = <<x, y>>
    BY <1>2, FaceCoordinates DEF StaggeredX, StaggeredY
  <2>2. Folded(x, nx, WallsX, StaggeredX(k)) = x
    BY <2>1, FoldedXNear
  <2>3. Folded(y, ny, WallsY, StaggeredY(k)) = IF y = ny /\ ~WallsY THEN 0 ELSE y
    <3>1. CASE y = ny
      <4>1. y \in Int
        BY <2>1
      <4>2. StaggeredY(k) => Folded(y, ny, WallsY, StaggeredY(k)) = IF WallsY THEN ny ELSE 0
        BY <3>1, <4>1, FoldedYNear
      <4>3. Folded(y, ny, WallsY, StaggeredY(k)) = IF WallsY THEN ny ELSE 0
        BY <2>1, <4>2, Zenon
      <4> QED BY <3>1, <4>3
    <3>2. CASE y # ny
      <4>1. y \in 0 .. ny - 1
        BY <2>1, <3>2 DEF WideGrid
      <4>2. Folded(y, ny, WallsY, StaggeredY(k)) = y
        BY <4>1, FoldedYNear
      <4> QED BY <3>2, <4>2
    <3> QED BY <3>1, <3>2
  <2>4. Fold(k, p) = IF y = ny /\ ~WallsY THEN <<x, 0>> ELSE p
    BY <2>1, <2>2, <2>3 DEF Fold
  <2> QED BY <1>2, <2>1, <2>4 DEF AtEnd, WallsOf
<1> QED BY <1>1, <1>2 DEF FaceKinds

\* The same for ends that are closed, or else joined, whatever the boundary condition.
Base(closed, k, p) ==
  IF closed THEN p
  ELSE IF k = "facex" /\ p[1] = nx THEN <<0, p[2]>>
  ELSE IF k = "facey" /\ p[2] = ny THEN <<p[1], 0>> ELSE p

FluxAs(closed, m, k, p) ==
  IF closed /\ AtEnd(k, p) THEN m[At(k, p)] = Zero
  ELSE m[At(k, p)] \in Borne(Base(closed, k, p)) /\ m[At(k, p)] = m[At(k, Base(closed, k, p))]
CompleteAs(closed, m, k) == \A p \in Places(k) : FluxAs(closed, m, k, p)

LEMMA BaseInside ==
  ASSUME WideGrid, NEW closed, NEW k \in FaceKinds, NEW p \in Places(k)
  PROVE  /\ Base(closed, k, p) \in Places(k)
         /\ ~AtEnd(k, p) => Base(closed, k, p) = p
  BY FaceCoordinates
     DEF Base, AtEnd, FaceKinds, Places, LastX, LastY, StaggeredX, StaggeredY, WideGrid

LEMMA CompleteIs ==
  ASSUME WideGrid, NEW k \in FaceKinds, NEW m
  PROVE  Complete(m, k) <=> CompleteAs(WallsOf(k), m, k)
<1>1. \A p \in Places(k) : Base(WallsOf(k), k, p) = Fold(k, p)
  <2> TAKE p \in Places(k)
  <2>1. CASE WallsOf(k)
    BY <2>1, FaceFold DEF Base
  <2>2. CASE ~WallsOf(k)
    BY <2>2, FaceFold DEF Base, WallsOf, FaceKinds
  <2> QED BY <2>1, <2>2
<1> QED BY <1>1 DEF Complete, CompleteAs, FaceFlux, FluxAs

\* A result tells the place it was computed for.
LEMMA StampsTell ==
  ASSUME NEW x, NEW y, NEW w \in Stamps(<<x, y>>)
  PROVE  w # Zero /\ w # Garbage /\ w[1] = x /\ w[2] = y
  BY DEF Stamps, Zero, Garbage, Off, Derived

LEMMA ResultsTell ==
  ASSUME NEW x, NEW y, NEW k, NEW p, Fold(k, p) = <<x, y>>, NEW w \in Results(k, p)
  PROVE  w # Zero /\ w # Garbage /\ w[1] = x /\ w[2] = y
  BY StampsTell DEF Results

\* Two faces have the same flux, other than 0, when they are the two of a seam only.
LEMMA SameFluxAs ==
  ASSUME WideGrid, NEW closed, NEW k \in FaceKinds, NEW m, CompleteAs(closed, m, k),
         NEW p \in Places(k), NEW q \in Places(k), m[At(k, p)] # Zero
  PROVE  /\ m[At(k, p)] # Garbage
         /\ m[At(k, q)] = m[At(k, p)] <=> Base(closed, k, q) = Base(closed, k, p)
<1> DEFINE base(f) == Base(closed, k, f)
<1>0. \A f \in Places(k) : base(f) \in Places(k) /\ base(f) = <<base(f)[1], base(f)[2]>>
  BY BaseInside, FaceCoordinates
<1>1. m[At(k, p)] \in Stamps(base(p)) /\ m[At(k, p)] = m[At(k, base(p))] /\ ~(closed /\ AtEnd(k, p))
  BY DEF CompleteAs, FluxAs, Borne
<1>5. closed => base(p) = p /\ base(q) = q
  BY DEF Base
<1>6. m[At(k, q)] # Zero => m[At(k, q)] \in Stamps(base(q)) /\ m[At(k, q)] = m[At(k, base(q))]
  BY DEF CompleteAs, FluxAs, Borne
<1>7. ~closed => m[At(k, q)] = m[At(k, base(q))]
  BY DEF CompleteAs, FluxAs
<1> HIDE DEF base
<1>2. /\ m[At(k, p)] # Garbage
      /\ m[At(k, p)][1] = base(p)[1] /\ m[At(k, p)][2] = base(p)[2]
  BY <1>0, <1>1, StampsTell
<1>3. ASSUME m[At(k, q)] = m[At(k, p)] PROVE base(q) = base(p)
  <2>1. m[At(k, q)] \in Stamps(base(q))
    BY <1>3, <1>6
  <2>2. m[At(k, q)][1] = base(q)[1] /\ m[At(k, q)][2] = base(q)[2]
    BY <1>0, <2>1, StampsTell
  <2>3. base(q)[1] = base(p)[1] /\ base(q)[2] = base(p)[2]
    BY <1>2, <1>3, <2>2
  <2>4. /\ base(q) = <<base(q)[1], base(q)[2]>>
        /\ base(p) = <<base(p)[1], base(p)[2]>>
    BY <1>0
  <2> QED BY <2>3, <2>4, Zenon
<1>4. ASSUME base(q) = base(p) PROVE m[At(k, q)] = m[At(k, p)]
  <2>1. CASE closed
    BY <1>4, <1>5, <2>1
  <2>2. CASE ~closed
    BY <1>1, <1>4, <1>7, <2>2
  <2> QED BY <2>1, <2>2
<1> QED BY <1>2, <1>3, <1>4 DEF base

\* Every element of an array is that of a place.
LEMMA ElementsCovered ==
  ASSUME Grid, NEW k \in Kinds, NEW i \in 0 .. Size(k) - 1
  PROVE  \E p \in Places(k) : At(k, p) = i
<1> DEFINE w == LastX(k) + 1
           h == LastY(k) + 1
           q == i \div w
           r == i % w
<1>1. w \in Nat \ {0} /\ h \in Nat \ {0} /\ LastX(k) = w - 1 /\ LastY(k) = h - 1
  BY Widths
<1>2. Size(k) = w * h
  BY DEF Size
<1> HIDE DEF w, h
<1>3. /\ q \in Nat /\ r \in 0 .. w - 1
      /\ i = w * q + r
  BY <1>1, SMTT(30)
<1> HIDE DEF q, r
<1>4. i < w * h /\ w * q < w * h
  <2>1. w * h \in Nat /\ w * q \in Nat
    BY <1>1, <1>3
  <2> QED BY <1>2, <1>3, <2>1
<1>5. q < h
  <2> SUFFICES ASSUME q >= h PROVE FALSE
    BY <1>1, <1>3
  <2>1. \E d \in Nat : q = h + d
    <3>1. q = h + (q - h) /\ q - h \in Nat
      BY <1>1, <1>3
    <3> QED BY <3>1
  <2>2. PICK d \in Nat : q = h + d
    BY <2>1
  <2>3. w * q = w * h + w * d /\ w * d \in Nat /\ w * h \in Nat
    BY <1>1, <2>2
  <2> QED BY <1>4, <2>3
<1>6. <<r, q>> \in Places(k)
  BY <1>1, <1>3, <1>5 DEF Places
<1>7. At(k, <<r, q>>) = w * q + r
  BY <1>6, Widths DEF w
<1> QED BY <1>3, <1>6, <1>7

\* The cells that take the value w through the face before them, and after them.
BeforeX(m, w) == {c \in Places("cell") : m[FaceXAt(c[1], c[2], nx)] = w}
AfterX(m, w)  == {c \in Places("cell") : m[FaceXAt(c[1] + 1, c[2], nx)] = w}
BeforeY(m, w) == {c \in Places("cell") : m[FaceYAt(c[1], c[2], nx)] = w}
AfterY(m, w)  == {c \in Places("cell") : m[FaceYAt(c[1], c[2] + 1, nx)] = w}

\* A flux through a face leaves one cell and enters one cell.
LEMMA TakenOnceX ==
  ASSUME WideGrid, NEW closed, NEW m, DOMAIN m = 0 .. Size("facex") - 1, CompleteAs(closed, m, "facex"),
         NEW i \in DOMAIN m, m[i] # Zero
  PROVE  m[i] # Garbage /\ (\E p : BeforeX(m, m[i]) = {p}) /\ (\E p : AfterX(m, m[i]) = {p})
<1> DEFINE k == "facex"
           before == BeforeX(m, m[i])
           after  == AfterX(m, m[i])
<1>1. k \in FaceKinds /\ k \in Kinds /\ Grid
  BY WideGridIsGrid DEF FaceKinds, Kinds
<1>2. PICK f \in Places(k) : At(k, f) = i
  BY <1>1, ElementsCovered
<1>3. /\ \A p : At(k, p) = FaceXAt(p[1], p[2], nx)
      /\ \A x, y : At(k, <<x, y>>) = FaceXAt(x, y, nx)
  BY DEF At, StaggeredX, FaceXAt, NodeAt
<1>4. m[i] # Garbage /\ \A p \in Places(k) : m[At(k, p)] = m[i] <=> Base(closed, k, p) = Base(closed, k, f)
  BY <1>1, <1>2, SameFluxAs
<1>5. PICK x \in 0 .. nx - 1, y \in 0 .. ny - 1 : Base(closed, k, f) = <<x, y>> /\ (closed => x # 0)
  <2>1. f = <<f[1], f[2]>> /\ f[1] \in 0 .. nx /\ f[2] \in 0 .. ny - 1
    BY <1>1, FaceCoordinates
  <2>2. CASE closed
    <3>1. ~AtEnd(k, f)
      BY <1>2, <2>2 DEF CompleteAs, FluxAs
    <3>2. Base(closed, k, f) = f
      BY <1>1, <3>1, BaseInside
    <3>3. f[1] \in 1 .. nx - 1
      BY <2>1, <3>1 DEF AtEnd, WideGrid
    <3> QED BY <2>1, <3>2, <3>3
  <2>3. CASE ~closed
    <3>1. Base(closed, k, f) = IF f[1] = nx THEN <<0, f[2]>> ELSE f
      BY <2>3 DEF Base
    <3>2. CASE f[1] = nx
      BY <2>1, <2>3, <3>1, <3>2 DEF WideGrid
    <3>3. CASE f[1] # nx
      <4>1. f[1] \in 0 .. nx - 1
        BY <2>1, <3>3 DEF WideGrid
      <4> QED BY <2>1, <2>3, <3>1, <3>3, <4>1
    <3> QED BY <3>2, <3>3
  <2> QED BY <2>2, <2>3
<1>6. \A a \in 0 .. nx - 1, b \in 0 .. ny - 1 : <<a, b>> \in Places("cell")
  BY DEF Places, LastX, LastY, StaggeredX, StaggeredY
<1>7. \A c \in Places("cell") : \E a \in 0 .. nx - 1, b \in 0 .. ny - 1 : c = <<a, b>>
  BY DEF Places, LastX, LastY, StaggeredX, StaggeredY
<1>8. ASSUME NEW a \in 0 .. nx, NEW b \in 0 .. ny - 1
      PROVE  /\ m[FaceXAt(a, b, nx)] = m[i] <=> Base(closed, k, <<a, b>>) = <<x, y>>
             /\ Base(closed, k, <<a, b>>) = IF a = nx /\ ~closed THEN <<0, b>> ELSE <<a, b>>
  <2>1. <<a, b>> \in Places(k)
    BY DEF Places, LastX, LastY, StaggeredX, StaggeredY
  <2>2. Base(closed, k, <<a, b>>) = IF a = nx /\ ~closed THEN <<0, b>> ELSE <<a, b>>
    BY <1>1, <2>1, BaseInside DEF Base
  <2> QED BY <1>3, <1>4, <1>5, <2>1, <2>2
<1>9. before = {<<x, y>>}
  <2>1. ASSUME NEW a \in 0 .. nx - 1, NEW b \in 0 .. ny - 1
        PROVE  m[FaceXAt(a, b, nx)] = m[i] <=> <<a, b>> = <<x, y>>
    <3>1. a \in 0 .. nx /\ a # nx
      BY DEF WideGrid
    <3>2. /\ m[FaceXAt(a, b, nx)] = m[i] <=> Base(closed, k, <<a, b>>) = <<x, y>>
          /\ Base(closed, k, <<a, b>>) = IF a = nx /\ ~closed THEN <<0, b>> ELSE <<a, b>>
      BY <1>8, <3>1
    <3> HIDE DEF k
    <3>3. Base(closed, k, <<a, b>>) = <<a, b>>
      BY <3>1, <3>2
    <3> QED BY <3>2, <3>3
  <2>2. \A c \in Places("cell") : c \in before <=> c = <<x, y>>
    BY <1>7, <2>1 DEF BeforeX
  <2> QED BY <1>6, <2>2 DEF BeforeX
<1>10. \E p : after = {p}
  <2> DEFINE z == IF x = 0 THEN nx - 1 ELSE x - 1
  <2>1. z \in 0 .. nx - 1
    BY DEF WideGrid
  <2>2. ASSUME NEW a \in 0 .. nx - 1, NEW b \in 0 .. ny - 1
        PROVE  m[FaceXAt(a + 1, b, nx)] = m[i] <=> <<a, b>> = <<z, y>>
    <3>1. a + 1 \in 0 .. nx /\ (a + 1 = nx <=> a = nx - 1)
      BY DEF WideGrid
    <3>2. m[FaceXAt(a + 1, b, nx)] = m[i] <=>
            (IF a + 1 = nx /\ ~closed THEN <<0, b>> ELSE <<a + 1, b>>) = <<x, y>>
      BY <1>8, <3>1
    <3>3. CASE a + 1 = nx /\ ~closed
      BY <3>2, <3>3 DEF WideGrid
    <3>4. CASE ~(a + 1 = nx /\ ~closed)
      BY <1>5, <3>1, <3>2, <3>4 DEF WideGrid
    <3> QED BY <3>3, <3>4
  <2>3. \A c \in Places("cell") : c \in after <=> c = <<z, y>>
    BY <1>7, <2>2 DEF AfterX
  <2>4. after = {<<z, y>>}
    BY <1>6, <2>1, <2>3 DEF AfterX
  <2> QED BY <2>4
<1> QED BY <1>4, <1>9, <1>10
LEMMA TakenOnceY ==
  ASSUME WideGrid, NEW closed, NEW m, DOMAIN m = 0 .. Size("facey") - 1, CompleteAs(closed, m, "facey"),
         NEW i \in DOMAIN m, m[i] # Zero
  PROVE  m[i] # Garbage /\ (\E p : BeforeY(m, m[i]) = {p}) /\ (\E p : AfterY(m, m[i]) = {p})
<1> DEFINE k == "facey"
           before == BeforeY(m, m[i])
           after  == AfterY(m, m[i])
<1>1. k \in FaceKinds /\ k \in Kinds /\ Grid
  BY WideGridIsGrid DEF FaceKinds, Kinds
<1>2. PICK f \in Places(k) : At(k, f) = i
  BY <1>1, ElementsCovered
<1>3. /\ \A p : At(k, p) = FaceYAt(p[1], p[2], nx)
      /\ \A x, y : At(k, <<x, y>>) = FaceYAt(x, y, nx)
  BY DEF At, StaggeredX, FaceYAt, CellAt
<1>4. m[i] # Garbage /\ \A p \in Places(k) : m[At(k, p)] = m[i] <=> Base(closed, k, p) = Base(closed, k, f)
  BY <1>1, <1>2, SameFluxAs
<1>5. PICK x \in 0 .. nx - 1, y \in 0 .. ny - 1 : Base(closed, k, f) = <<x, y>> /\ (closed => y # 0)
  <2>1. f = <<f[1], f[2]>> /\ f[1] \in 0 .. nx - 1 /\ f[2] \in 0 .. ny
    BY <1>1, FaceCoordinates
  <2>2. CASE closed
    <3>1. ~AtEnd(k, f)
      BY <1>2, <2>2 DEF CompleteAs, FluxAs
    <3>2. Base(closed, k, f) = f
      BY <1>1, <3>1, BaseInside
    <3>3. f[2] \in 1 .. ny - 1
      BY <2>1, <3>1 DEF AtEnd, WideGrid
    <3> QED BY <2>1, <3>2, <3>3
  <2>3. CASE ~closed
    <3>1. Base(closed, k, f) = IF f[2] = ny THEN <<f[1], 0>> ELSE f
      BY <2>3 DEF Base
    <3>2. CASE f[2] = ny
      BY <2>1, <2>3, <3>1, <3>2 DEF WideGrid
    <3>3. CASE f[2] # ny
      <4>1. f[2] \in 0 .. ny - 1
        BY <2>1, <3>3 DEF WideGrid
      <4> QED BY <2>1, <2>3, <3>1, <3>3, <4>1
    <3> QED BY <3>2, <3>3
  <2> QED BY <2>2, <2>3
<1>6. \A a \in 0 .. nx - 1, b \in 0 .. ny - 1 : <<a, b>> \in Places("cell")
  BY DEF Places, LastX, LastY, StaggeredX, StaggeredY
<1>7. \A c \in Places("cell") : \E a \in 0 .. nx - 1, b \in 0 .. ny - 1 : c = <<a, b>>
  BY DEF Places, LastX, LastY, StaggeredX, StaggeredY
<1>8. ASSUME NEW a \in 0 .. nx - 1, NEW b \in 0 .. ny
      PROVE  /\ m[FaceYAt(a, b, nx)] = m[i] <=> Base(closed, k, <<a, b>>) = <<x, y>>
             /\ Base(closed, k, <<a, b>>) = IF b = ny /\ ~closed THEN <<a, 0>> ELSE <<a, b>>
  <2>1. <<a, b>> \in Places(k)
    BY DEF Places, LastX, LastY, StaggeredX, StaggeredY
  <2>2. Base(closed, k, <<a, b>>) = IF b = ny /\ ~closed THEN <<a, 0>> ELSE <<a, b>>
    BY <1>1, <2>1, BaseInside DEF Base
  <2> QED BY <1>3, <1>4, <1>5, <2>1, <2>2
<1>9. before = {<<x, y>>}
  <2>1. ASSUME NEW a \in 0 .. nx - 1, NEW b \in 0 .. ny - 1
        PROVE  m[FaceYAt(a, b, nx)] = m[i] <=> <<a, b>> = <<x, y>>
    <3>1. b \in 0 .. ny /\ b # ny
      BY DEF WideGrid
    <3>2. /\ m[FaceYAt(a, b, nx)] = m[i] <=> Base(closed, k, <<a, b>>) = <<x, y>>
          /\ Base(closed, k, <<a, b>>) = IF b = ny /\ ~closed THEN <<a, 0>> ELSE <<a, b>>
      BY <1>8, <3>1
    <3> HIDE DEF k
    <3>3. Base(closed, k, <<a, b>>) = <<a, b>>
      BY <3>1, <3>2
    <3> QED BY <3>2, <3>3
  <2>2. \A c \in Places("cell") : c \in before <=> c = <<x, y>>
    BY <1>7, <2>1 DEF BeforeY
  <2> QED BY <1>6, <2>2 DEF BeforeY
<1>10. \E p : after = {p}
  <2> DEFINE z == IF y = 0 THEN ny - 1 ELSE y - 1
  <2>1. z \in 0 .. ny - 1
    BY DEF WideGrid
  <2>2. ASSUME NEW a \in 0 .. nx - 1, NEW b \in 0 .. ny - 1
        PROVE  m[FaceYAt(a, b + 1, nx)] = m[i] <=> <<a, b>> = <<x, z>>
    <3>1. b + 1 \in 0 .. ny /\ (b + 1 = ny <=> b = ny - 1)
      BY DEF WideGrid
    <3>2. m[FaceYAt(a, b + 1, nx)] = m[i] <=>
            (IF b + 1 = ny /\ ~closed THEN <<a, 0>> ELSE <<a, b + 1>>) = <<x, y>>
      BY <1>8, <3>1
    <3>3. CASE b + 1 = ny /\ ~closed
      BY <3>2, <3>3 DEF WideGrid
    <3>4. CASE ~(b + 1 = ny /\ ~closed)
      BY <1>5, <3>1, <3>2, <3>4 DEF WideGrid
    <3> QED BY <3>3, <3>4
  <2>3. \A c \in Places("cell") : c \in after <=> c = <<x, z>>
    BY <1>7, <2>2 DEF AfterY
  <2>4. after = {<<x, z>>}
    BY <1>6, <2>1, <2>3 DEF AfterY
  <2> QED BY <2>4
<1> QED BY <1>4, <1>9, <1>10


\* Stores that give each place of S its value in g, and nothing else.
Gives(m, stores, k, S, g) ==
  /\ DOMAIN m = 0 .. Size(k) - 1 /\ S \subseteq Places(k)
  /\ \A s \in stores : \E p \in S : s = <<At(k, p), g[p]>>
  /\ \A p \in S : <<At(k, p), g[p]>> \in stores

LEMMA GivenPlaces ==
  ASSUME Grid, NEW k \in Kinds, NEW S, NEW m, NEW g, NEW stores, Gives(m, stores, k, S, g)
  PROVE  /\ \A p \in S : Stored(m, stores)[At(k, p)] = g[p]
         /\ \A p \in Places(k) \ S : Stored(m, stores)[At(k, p)] = m[At(k, p)]
<1>0. DOMAIN m = 0 .. Size(k) - 1 /\ S \subseteq Places(k)
  BY DEF Gives
<1>1. \A s \in stores : \E p \in S : s[1] = At(k, p) /\ s[2] = g[p]
  <2> SUFFICES ASSUME NEW s \in stores PROVE \E p \in S : s[1] = At(k, p) /\ s[2] = g[p]
    OBVIOUS
  <2>1. PICK p \in S : s = <<At(k, p), g[p]>>
    BY DEF Gives
  <2> QED BY <2>1
<1>2. \A s \in stores : \E p \in S : s[1] = At(k, p)
  BY <1>1
<1>3. \A p \in S : \E s \in stores : s[1] = At(k, p)
  <2> SUFFICES ASSUME NEW p \in S PROVE \E s \in stores : s[1] = At(k, p)
    OBVIOUS
  <2>1. <<At(k, p), g[p]>> \in stores
    BY DEF Gives
  <2> QED BY <2>1
<1>4. Stored(m, stores) = [i \in DOMAIN m |-> Element(m, stores, i)]
  <2>1. Indices(stores) \subseteq DOMAIN m
    BY <1>0, <1>2, ElementsInside DEF Indices
  <2> QED BY <2>1, StoredElements
<1>5. ASSUME NEW p \in Places(k) \ S PROVE Stored(m, stores)[At(k, p)] = m[At(k, p)]
  <2>1. At(k, p) \notin Indices(stores)
    BY <1>0, <1>2, ElementsApart DEF Indices
  <2>2. At(k, p) \in DOMAIN m
    BY <1>0, ElementsInside
  <2> QED BY <1>4, <2>1, <2>2, ElementKept
<1>6. ASSUME NEW p \in S PROVE Stored(m, stores)[At(k, p)] = g[p]
  <2>1. \A s \in stores : s[1] = At(k, p) => s[2] = g[p]
    BY <1>0, <1>1, ElementsApart
  <2>2. {s[2] : s \in {t \in stores : t[1] = At(k, p)}} = {g[p]}
    BY <1>3, <2>1
  <2>3. Element(m, stores, At(k, p)) = g[p]
    BY <2>2 DEF Element
  <2>4. At(k, p) \in DOMAIN m
    BY <1>0, ElementsInside
  <2> QED BY <1>4, <2>3, <2>4
<1> QED BY <1>5, <1>6

\* A loop stores the fluxes of one more row of faces.
LEMMA FluxRowStored ==
  ASSUME WideGrid, NEW k \in FaceKinds, NEW rows, NEW iy,
         NEW m, FluxesOn(m, k, FacesOf(k, rows)),
         NEW g, \A p \in FacesOf(k, {iy}) : g[p] \in Borne(Fold(k, p)),
         NEW stores, Gives(m, stores, k, FacesOf(k, {iy}), g)
  PROVE  FluxesOn(Stored(m, stores), k, FacesOf(k, rows \cup {iy}))
<1> DEFINE S == FacesOf(k, {iy})
<1>1. k \in Kinds /\ Grid /\ S \in SUBSET Places(k)
  BY WideGridIsGrid DEF FaceKinds, Kinds, FacesOf
<1>2. Gives(m, stores, k, S, g)
  OBVIOUS
<1> HIDE DEF S
<1>3. /\ \A p \in S : Stored(m, stores)[At(k, p)] = g[p]
      /\ \A p \in Places(k) \ S : Stored(m, stores)[At(k, p)] = m[At(k, p)]
  BY <1>1, <1>2, GivenPlaces
<1>5. ASSUME NEW p \in FacesOf(k, rows \cup {iy}) PROVE Stored(m, stores)[At(k, p)] \in Borne(Fold(k, p))
  <2>1. CASE p \in S
    BY <1>3, <2>1 DEF S
  <2>2. CASE p \notin S
    <3>1. p \in FacesOf(k, rows) /\ p \in Places(k) \ S
      BY <2>2 DEF S, FacesOf
    <3> QED BY <1>3, <3>1 DEF FluxesOn
  <2> QED BY <2>1, <2>2
<1> QED BY <1>5 DEF FluxesOn

\* The boundary kernel stores the others, and completes the array.
LEMMA FluxEdgeStored ==
  ASSUME WideGrid, NEW closed, NEW k \in FaceKinds,
         NEW m, FluxesOn(m, k, FacesOf(k, FaceRows(k))),
         NEW S, S = {p \in Places(k) : AtEnd(k, p)},
         NEW g, \A p \in S : IF closed THEN g[p] = Zero
                             ELSE g[p] \in Borne(Base(closed, k, p)) /\ g[p] = g[Base(closed, k, p)],
         NEW stores, Gives(m, stores, k, S, g)
  PROVE  CompleteAs(closed, Stored(m, stores), k)
<1>1. k \in Kinds /\ Grid /\ S \in SUBSET Places(k)
  BY WideGridIsGrid DEF FaceKinds, Kinds
<1>3. /\ \A p \in S : Stored(m, stores)[At(k, p)] = g[p]
      /\ \A p \in Places(k) \ S : Stored(m, stores)[At(k, p)] = m[At(k, p)]
  BY <1>1, GivenPlaces
<1>5. ASSUME NEW p \in Places(k) PROVE FluxAs(closed, Stored(m, stores), k, p)
  <2>1. CASE p \in S
    <3>1. AtEnd(k, p)
      BY <2>1
    <3>2. CASE closed
      BY <1>3, <2>1, <3>1, <3>2 DEF FluxAs
    <3>3. CASE ~closed
      <4>1. Base(closed, k, p) \in S
        <5>1. Base(closed, k, p) \in Places(k)
          BY BaseInside
        <5>2. AtEnd(k, Base(closed, k, p))
          BY <3>1 DEF Base, AtEnd, FaceKinds
        <5> QED BY <5>1, <5>2
      <4> QED BY <1>3, <2>1, <3>3, <4>1 DEF FluxAs
    <3> QED BY <3>2, <3>3
  <2>2. CASE p \notin S
    <3>1. ~AtEnd(k, p) /\ p \in Places(k) \ S
      BY <2>2
    <3>2. Fold(k, p) = p /\ Base(closed, k, p) = p
      BY <3>1, FaceFold, BaseInside
    <3>3. p \in FacesOf(k, FaceRows(k))
      <4>1. p[2] \in FaceRows(k)
        BY <3>1, FaceCoordinates DEF AtEnd, FaceRows, CellRows, Inner, WideGrid, FaceKinds
      <4> QED BY <3>1, <4>1 DEF FacesOf
    <3>4. m[At(k, p)] \in Borne(p)
      BY <3>2, <3>3 DEF FluxesOn
    <3> QED BY <1>3, <3>1, <3>2, <3>4 DEF FluxAs
  <2> QED BY <2>1, <2>2
<1> QED BY <1>5 DEF CompleteAs

-----------------------------------------------------------------------------
\* The nodes on the two sides of a seam, of which one is folded on the other.
Twin(p) == Fold("node", p)
TwinsEqual(m) == \A p \in Places("node") : m[At("node", p)] = m[At("node", Twin(p))]

\* Stores that give a node what they give its twin.
TwinStores(stores) ==
  /\ \A s \in stores : s = <<s[1], s[2]>>
  /\ \A p \in Places("node") : Twin(p) # p =>
       /\ \E v : <<At("node", p), v>> \in stores
       /\ \A v : <<At("node", p), v>> \in stores <=> <<At("node", Twin(p)), v>> \in stores

\* They make twins equal, whatever they were before.
LEMMA TwinsStored ==
  ASSUME WideGrid, NEW m, DOMAIN m = 0 .. Size("node") - 1, NEW stores, TwinStores(stores)
  PROVE  TwinsEqual(Stored(m, stores))
<1> SUFFICES ASSUME NEW p \in Places("node"), Twin(p) # p
             PROVE  Stored(m, stores)[At("node", p)] = Stored(m, stores)[At("node", Twin(p))]
  BY DEF TwinsEqual
<1> DEFINE i == At("node", p)
           j == At("node", Twin(p))
           values(e) == {s[2] : s \in {t \in stores : t[1] = e}}
<1>1. i \in DOMAIN m /\ j \in DOMAIN m
  BY FoldInside, ElementsInside, WideGridIsGrid DEF Twin, Kinds
<1>2. /\ \A s \in stores : s = <<s[1], s[2]>>
      /\ \E v : <<i, v>> \in stores
      /\ \A v : <<i, v>> \in stores <=> <<j, v>> \in stores
  BY DEF TwinStores
<1> HIDE DEF i, j
<1>3. \A e, v : v \in values(e) <=> <<e, v>> \in stores
  <2> TAKE e, v
  <2>1. ASSUME v \in values(e) PROVE <<e, v>> \in stores
    <3>1. PICK s \in stores : s[1] = e /\ s[2] = v
      BY <2>1
    <3> QED BY <1>2, <3>1
  <2>2. ASSUME <<e, v>> \in stores PROVE v \in values(e)
    <3>1. <<e, v>>[1] = e /\ <<e, v>>[2] = v
      OBVIOUS
    <3> QED BY <2>2, <3>1
  <2> QED BY <2>1, <2>2
<1>4. values(i) # {} /\ values(i) = values(j)
  <2> HIDE DEF values
  <2>1. \A v : v \in values(i) <=> v \in values(j)
    BY <1>2, <1>3
  <2>2. PICK v : <<i, v>> \in stores
    BY <1>2
  <2>3. v \in values(i)
    BY <1>3, <2>2
  <2> QED BY <2>1, <2>3
<1>5. CASE \E s \in stores : s[1] \notin DOMAIN m
  BY <1>1, <1>5 DEF Stored, i, j
<1>6. CASE ~\E s \in stores : s[1] \notin DOMAIN m
  <2>1. Stored(m, stores) = [e \in DOMAIN m |-> Element(m, stores, e)]
    <3>1. Indices(stores) \subseteq DOMAIN m
      BY <1>6 DEF Indices
    <3> QED BY <3>1, StoredElements
  <2>2. Element(m, stores, i) = Element(m, stores, j)
    BY <1>4 DEF Element
  <2> QED BY <1>1, <2>1, <2>2 DEF i, j
<1> QED BY <1>5, <1>6
-----------------------------------------------------------------------------
\* The places of the nodes on the boundary of the grid.
OnEdge(p) == p[1] \in {0, nx} \/ p[2] \in {0, ny}

\* What is right and where does not change as long as the grid does not.
LEMMA SameGridNext ==
  ASSUME UNCHANGED <<nx, ny, BoundaryConditions>>
  PROVE  /\ \A k : Places(k)' = Places(k) /\ Size(k)' = Size(k)
         /\ \A k, p : At(k, p)' = At(k, p)
         /\ \A a, p : Right(a, p)' = Right(a, p)
         /\ \A p : OnEdge(p)' = OnEdge(p)
         /\ CellRows' = CellRows /\ NodeRows' = NodeRows /\ Inner' = Inner
         /\ WideGrid' = WideGrid
<1>1. \A k : LastX(k)' = LastX(k) /\ LastY(k)' = LastY(k)
  BY DEF LastX, LastY
<1>2. \A k : Places(k)' = Places(k) /\ Size(k)' = Size(k)
  BY <1>1 DEF Places, Size
<1>3. \A k, p : At(k, p)' = At(k, p)
  BY DEF At
<1>4. WallsX' = WallsX /\ WallsY' = WallsY
  BY DEF WallsX, WallsY
<1>5. \A a, p : Held(a, p)' = Held(a, p)
  BY <1>4 DEF Held, OnWallX, OnWallY
<1>6. \A k, p : Fold(k, p)' = Fold(k, p)
  BY <1>4 DEF Fold, Folded
<1>7. \A a, p : Right(a, p)' = Right(a, p)
  BY <1>5, <1>6 DEF Right
<1>8. \A p : OnEdge(p)' = OnEdge(p)
  BY DEF OnEdge
<1>9. CellRows' = CellRows /\ NodeRows' = NodeRows /\ Inner' = Inner /\ WideGrid' = WideGrid
  BY DEF CellRows, NodeRows, Inner, WideGrid
<1> QED BY <1>2, <1>3, <1>7, <1>8, <1>9

-----------------------------------------------------------------------------
\* The fluxes that a row of the interior kernel stores, and those of the boundary kernel.
LEMMA RowOfFacesX ==
  ASSUME WideGrid, NEW m, DOMAIN m = 0 .. Size("facex") - 1,
         NEW iy \in CellRows, NEW rows, FluxesOn(m, "facex", FacesOf("facex", rows)),
         NEW v, \A ix \in 1 .. nx - 1 : v[ix] \in Borne(Fold("facex", <<ix, iy>>)),
         NEW stores, stores = {<<FaceXAt(ix, iy, nx), v[ix]>> : ix \in 1 .. nx - 1}
  PROVE  FluxesOn(Stored(m, stores), "facex", FacesOf("facex", rows \cup {iy}))
<1> DEFINE S == FacesOf("facex", {iy})
           C == 1 .. nx - 1
           g == [p \in S |-> v[p[1]]]
<1>1. \A p : p \in S <=> \E ix \in C : p = <<ix, iy>>
  <2>1. \A p \in S : \E ix \in C : p = <<ix, iy>>
    BY DEF FacesOf, AtEnd, Places, LastX, LastY, StaggeredX, StaggeredY, WideGrid
  <2>2. \A ix \in C : <<ix, iy>> \in S
    BY DEF FacesOf, AtEnd, Places, LastX, LastY, StaggeredX, StaggeredY, WideGrid, CellRows
  <2> QED BY <2>1, <2>2
<1>2. stores = {<<At("facex", <<ix, iy>>), v[ix]>> : ix \in C}
  BY DEF At, StaggeredX, NodeAt, FaceXAt
<1>3. \A ix \in C : <<ix, iy>> \in S /\ g[<<ix, iy>>] = v[ix]
  BY <1>1
<1>4. S \subseteq Places("facex")
  BY DEF FacesOf
<1> HIDE DEF S, C, g
<1>5. \A p \in S : g[p] \in Borne(Fold("facex", p))
  <2> TAKE p \in S
  <2>1. PICK ix \in C : p = <<ix, iy>>
    BY <1>1
  <2> QED BY <1>3, <2>1 DEF C
<1>6. Gives(m, stores, "facex", S, g)
  <2>1. \A s \in stores : \E p \in S : s = <<At("facex", p), g[p]>>
    <3> TAKE s \in stores
    <3>1. PICK ix \in C : s = <<At("facex", <<ix, iy>>), v[ix]>>
      BY <1>2
    <3> QED BY <1>3, <3>1
  <2>2. \A p \in S : <<At("facex", p), g[p]>> \in stores
    <3> TAKE p \in S
    <3>1. PICK ix \in C : p = <<ix, iy>>
      BY <1>1
    <3> QED BY <1>2, <1>3, <3>1
  <2> QED BY <1>4, <2>1, <2>2 DEF Gives
<1> QED BY <1>5, <1>6, FluxRowStored DEF FaceKinds, S

LEMMA EndsOfX ==
  ASSUME WideGrid, NEW p
  PROVE  p \in Places("facex") /\ AtEnd("facex", p) <=>
           \E iy \in CellRows : p = <<0, iy>> \/ p = <<nx, iy>>
<1>1. p \in Places("facex") /\ AtEnd("facex", p) => \E iy \in CellRows : p = <<0, iy>> \/ p = <<nx, iy>>
  BY DEF AtEnd, Places, LastX, LastY, StaggeredX, StaggeredY, WideGrid, CellRows
<1>2. \A iy \in CellRows : p = <<0, iy>> \/ p = <<nx, iy>> => p \in Places("facex") /\ AtEnd("facex", p)
  BY DEF AtEnd, Places, LastX, LastY, StaggeredX, StaggeredY, WideGrid, CellRows
<1> QED BY <1>1, <1>2

LEMMA EdgeOfFacesX ==
  ASSUME WideGrid, NEW closed, NEW m, DOMAIN m = 0 .. Size("facex") - 1,
         FluxesOn(m, "facex", FacesOf("facex", CellRows)),
         NEW v, \A iy \in CellRows : IF closed THEN v[iy] = Zero ELSE v[iy] \in Borne(<<0, iy>>),
         NEW stores,
         stores = UNION {{<<FaceXAt(0, iy, nx), v[iy]>>, <<FaceXAt(nx, iy, nx), v[iy]>>} : iy \in CellRows}
  PROVE  CompleteAs(closed, Stored(m, stores), "facex")
<1> DEFINE k == "facex"
           S == {p \in Places(k) : AtEnd(k, p)}
           C == CellRows
           pairs(iy) == {<<At(k, <<0, iy>>), v[iy]>>, <<At(k, <<nx, iy>>), v[iy]>>}
           g == [p \in S |-> v[p[2]]]
<1>1. \A p : p \in S <=> \E iy \in C : p = <<0, iy>> \/ p = <<nx, iy>>
  BY EndsOfX
<1>0. \A p \in S : g[p] = v[p[2]]
  OBVIOUS
<1> HIDE DEF g
<1>2. stores = UNION {pairs(iy) : iy \in C}
  <2>1. \A iy \in C : pairs(iy) = {<<FaceXAt(0, iy, nx), v[iy]>>, <<FaceXAt(nx, iy, nx), v[iy]>>}
    BY DEF At, StaggeredX, NodeAt, FaceXAt
  <2> QED BY <2>1
<1>4. \A p \in S : IF closed THEN g[p] = Zero
                    ELSE g[p] \in Borne(Base(closed, k, p)) /\ g[p] = g[Base(closed, k, p)]
  <2> TAKE p \in S
  <2>1. PICK iy \in C : p = <<0, iy>> \/ p = <<nx, iy>>
    BY <1>1
  <2>2. g[p] = v[iy] /\ g[<<0, iy>>] = v[iy]
    <3>1. <<0, iy>> \in S /\ p[2] = iy /\ <<0, iy>>[2] = iy
      BY <1>1, <2>1
    <3> QED BY <1>0, <3>1
  <2>3. ~closed => Base(closed, k, p) = <<0, iy>>
    BY <2>1 DEF Base, WideGrid
  <2> QED BY <2>1, <2>2, <2>3
<1>5. Gives(m, stores, k, S, g)
  <2>1. S \subseteq Places(k)
    OBVIOUS
  <2>2. \A p \in S : g[p] = v[p[2]]
    BY <1>0
  <2>3. \A iy \in C : /\ <<0, iy>> \in S /\ g[<<0, iy>>] = v[iy]
                       /\ <<nx, iy>> \in S /\ g[<<nx, iy>>] = v[iy]
    BY <1>1, <2>2
  <2> HIDE DEF S, C, g, k
  <2>4. \A s \in stores : \E p \in S : s = <<At(k, p), g[p]>>
    <3> TAKE s \in stores
    <3>1. PICK iy \in C : s \in pairs(iy)
      BY <1>2
    <3> QED BY <2>3, <3>1
  <2>5. \A p \in S : <<At(k, p), g[p]>> \in stores
    <3> TAKE p \in S
    <3>1. PICK iy \in C : p = <<0, iy>> \/ p = <<nx, iy>>
      BY <1>1
    <3>2. <<At(k, p), g[p]>> \in pairs(iy)
      BY <2>3, <3>1
    <3> QED BY <1>2, <3>2
  <2>6. DOMAIN m = 0 .. Size(k) - 1
    BY DEF k
  <2> QED BY <2>1, <2>4, <2>5, <2>6 DEF Gives
<1>6. CompleteAs(closed, Stored(m, stores), k)
  <2> HIDE DEF S
  <2>1. S = {p \in Places(k) : AtEnd(k, p)} /\ k \in FaceKinds
    BY DEF S, FaceKinds
  <2>2. FluxesOn(m, k, FacesOf(k, FaceRows(k)))
    BY DEF FaceRows
  <2> HIDE DEF k
  <2> QED BY <1>4, <1>5, <2>1, <2>2, FluxEdgeStored
<1> QED BY <1>6

LEMMA RowOfFacesY ==
  ASSUME WideGrid, NEW m, DOMAIN m = 0 .. Size("facey") - 1,
         NEW iy \in Inner, NEW rows, FluxesOn(m, "facey", FacesOf("facey", rows)),
         NEW v, \A ix \in 0 .. nx - 1 : v[ix] \in Borne(Fold("facey", <<ix, iy>>)),
         NEW stores, stores = {<<FaceYAt(ix, iy, nx), v[ix]>> : ix \in 0 .. nx - 1}
  PROVE  FluxesOn(Stored(m, stores), "facey", FacesOf("facey", rows \cup {iy}))
<1> DEFINE S == FacesOf("facey", {iy})
           C == 0 .. nx - 1
           g == [p \in S |-> v[p[1]]]
<1>1. \A p : p \in S <=> \E ix \in C : p = <<ix, iy>>
  <2>1. \A p \in S : \E ix \in C : p = <<ix, iy>>
    BY DEF FacesOf, AtEnd, Places, LastX, LastY, StaggeredX, StaggeredY, WideGrid
  <2>2. \A ix \in C : <<ix, iy>> \in S
    BY DEF FacesOf, AtEnd, Places, LastX, LastY, StaggeredX, StaggeredY, WideGrid, Inner
  <2> QED BY <2>1, <2>2
<1>2. stores = {<<At("facey", <<ix, iy>>), v[ix]>> : ix \in C}
  BY DEF At, StaggeredX, CellAt, FaceYAt
<1>3. \A ix \in C : <<ix, iy>> \in S /\ g[<<ix, iy>>] = v[ix]
  BY <1>1
<1>4. S \subseteq Places("facey")
  BY DEF FacesOf
<1> HIDE DEF S, C, g
<1>5. \A p \in S : g[p] \in Borne(Fold("facey", p))
  <2> TAKE p \in S
  <2>1. PICK ix \in C : p = <<ix, iy>>
    BY <1>1
  <2> QED BY <1>3, <2>1 DEF C
<1>6. Gives(m, stores, "facey", S, g)
  <2>1. \A s \in stores : \E p \in S : s = <<At("facey", p), g[p]>>
    <3> TAKE s \in stores
    <3>1. PICK ix \in C : s = <<At("facey", <<ix, iy>>), v[ix]>>
      BY <1>2
    <3> QED BY <1>3, <3>1
  <2>2. \A p \in S : <<At("facey", p), g[p]>> \in stores
    <3> TAKE p \in S
    <3>1. PICK ix \in C : p = <<ix, iy>>
      BY <1>1
    <3> QED BY <1>2, <1>3, <3>1
  <2> QED BY <1>4, <2>1, <2>2 DEF Gives
<1> QED BY <1>5, <1>6, FluxRowStored DEF FaceKinds, S

LEMMA EndsOfY ==
  ASSUME WideGrid, NEW p
  PROVE  p \in Places("facey") /\ AtEnd("facey", p) <=>
           \E ix \in 0 .. nx - 1 : p = <<ix, 0>> \/ p = <<ix, ny>>
<1>1. p \in Places("facey") /\ AtEnd("facey", p) => \E ix \in 0 .. nx - 1 : p = <<ix, 0>> \/ p = <<ix, ny>>
  BY DEF AtEnd, Places, LastX, LastY, StaggeredX, StaggeredY, WideGrid
<1>2. \A ix \in 0 .. nx - 1 : p = <<ix, 0>> \/ p = <<ix, ny>> => p \in Places("facey") /\ AtEnd("facey", p)
  BY DEF AtEnd, Places, LastX, LastY, StaggeredX, StaggeredY, WideGrid
<1> QED BY <1>1, <1>2

LEMMA EdgeOfFacesY ==
  ASSUME WideGrid, NEW closed, NEW m, DOMAIN m = 0 .. Size("facey") - 1,
         FluxesOn(m, "facey", FacesOf("facey", Inner)),
         NEW v, \A ix \in 0 .. nx - 1 : IF closed THEN v[ix] = Zero ELSE v[ix] \in Borne(<<ix, 0>>),
         NEW stores,
         stores = UNION {{<<FaceYAt(ix, 0, nx), v[ix]>>, <<FaceYAt(ix, ny, nx), v[ix]>>} : ix \in 0 .. nx - 1}
  PROVE  CompleteAs(closed, Stored(m, stores), "facey")
<1> DEFINE k == "facey"
           S == {p \in Places(k) : AtEnd(k, p)}
           C == 0 .. nx - 1
           pairs(ix) == {<<At(k, <<ix, 0>>), v[ix]>>, <<At(k, <<ix, ny>>), v[ix]>>}
           g == [p \in S |-> v[p[1]]]
<1>1. \A p : p \in S <=> \E ix \in C : p = <<ix, 0>> \/ p = <<ix, ny>>
  BY EndsOfY
<1>0. \A p \in S : g[p] = v[p[1]]
  OBVIOUS
<1> HIDE DEF g
<1>2. stores = UNION {pairs(ix) : ix \in C}
  <2>1. \A ix \in C : pairs(ix) = {<<FaceYAt(ix, 0, nx), v[ix]>>, <<FaceYAt(ix, ny, nx), v[ix]>>}
    BY DEF At, StaggeredX, CellAt, FaceYAt
  <2> QED BY <2>1
<1>4. \A p \in S : IF closed THEN g[p] = Zero
                    ELSE g[p] \in Borne(Base(closed, k, p)) /\ g[p] = g[Base(closed, k, p)]
  <2> TAKE p \in S
  <2>1. PICK ix \in C : p = <<ix, 0>> \/ p = <<ix, ny>>
    BY <1>1
  <2>2. g[p] = v[ix] /\ g[<<ix, 0>>] = v[ix]
    <3>1. <<ix, 0>> \in S /\ p[1] = ix /\ <<ix, 0>>[1] = ix
      BY <1>1, <2>1
    <3> QED BY <1>0, <3>1
  <2>3. ~closed => Base(closed, k, p) = <<ix, 0>>
    BY <2>1 DEF Base, WideGrid
  <2> QED BY <2>1, <2>2, <2>3
<1>5. Gives(m, stores, k, S, g)
  <2>1. S \subseteq Places(k)
    OBVIOUS
  <2>2. \A p \in S : g[p] = v[p[1]]
    BY <1>0
  <2>3. \A ix \in C : /\ <<ix, 0>> \in S /\ g[<<ix, 0>>] = v[ix]
                       /\ <<ix, ny>> \in S /\ g[<<ix, ny>>] = v[ix]
    BY <1>1, <2>2
  <2> HIDE DEF S, C, g, k
  <2>4. \A s \in stores : \E p \in S : s = <<At(k, p), g[p]>>
    <3> TAKE s \in stores
    <3>1. PICK ix \in C : s \in pairs(ix)
      BY <1>2
    <3> QED BY <2>3, <3>1
  <2>5. \A p \in S : <<At(k, p), g[p]>> \in stores
    <3> TAKE p \in S
    <3>1. PICK ix \in C : p = <<ix, 0>> \/ p = <<ix, ny>>
      BY <1>1
    <3>2. <<At(k, p), g[p]>> \in pairs(ix)
      BY <2>3, <3>1
    <3> QED BY <1>2, <3>2
  <2>6. DOMAIN m = 0 .. Size(k) - 1
    BY DEF k
  <2> QED BY <2>1, <2>4, <2>5, <2>6 DEF Gives
<1>6. CompleteAs(closed, Stored(m, stores), k)
  <2> HIDE DEF S
  <2>1. S = {p \in Places(k) : AtEnd(k, p)} /\ k \in FaceKinds
    BY DEF S, FaceKinds
  <2>2. FluxesOn(m, k, FacesOf(k, FaceRows(k)))
    BY DEF FaceRows
  <2> HIDE DEF k
  <2> QED BY <1>4, <1>5, <2>1, <2>2, FluxEdgeStored
<1> QED BY <1>6

\* What the inductive invariant says of an array of fluxes.  The rows of it that a loop
\* has stored, and the whole of it, when the boundary kernel has run too.
RowGiven(f, iy) == FluxesOn(mem[f], KindOf(f), FacesOf(KindOf(f), {iy}))
Given(f)        == Complete(mem[f], KindOf(f))

\* pc is at the loop, between the loop and the boundary kernel, or after it.
FluxStage(f, loop, edges, after) ==
  /\ pc = loop => /\ todo \subseteq FaceRows(KindOf(f))
                  /\ \A iy \in FaceRows(KindOf(f)) \ todo : RowGiven(f, iy)
  /\ pc \in edges => \A iy \in FaceRows(KindOf(f)) : RowGiven(f, iy)
  /\ pc \in after => Given(f)

LEMMA RowsTogether ==
  ASSUME NEW m, NEW k, NEW rows
  PROVE  FluxesOn(m, k, FacesOf(k, rows)) <=> \A iy \in rows : FluxesOn(m, k, FacesOf(k, {iy}))
  BY DEF FluxesOn, FacesOf

SameSize == UNCHANGED <<nx, ny, BoundaryConditions>>

\* The faces, and what they may be given, do not change as long as the grid does not.
LEMMA SameFacesNext ==
  ASSUME SameSize, NEW f
  PROVE  /\ FaceRows(KindOf(f))' = FaceRows(KindOf(f))
         /\ \A iy : RowGiven(f, iy)' <=> FluxesOn(mem'[f], KindOf(f), FacesOf(KindOf(f), {iy}))
         /\ Given(f)' <=> Complete(mem'[f], KindOf(f))
<1> DEFINE k == KindOf(f)
<1>1. /\ \A p : At(k, p)' = At(k, p)
      /\ Places(k)' = Places(k) /\ CellRows' = CellRows /\ Inner' = Inner
  BY SameGridNext DEF SameSize
<1>2. WallsX' = WallsX /\ WallsY' = WallsY
  BY DEF WallsX, WallsY, SameSize
<1>3. \A p : Fold(k, p)' = Fold(k, p)
  BY <1>2 DEF Fold, Folded, SameSize
<1>4. \A p : Borne(Fold(k, p))' = Borne(Fold(k, p))
  BY <1>3
<1>5. \A p : AtEnd(k, p)' = AtEnd(k, p)
  BY DEF AtEnd, SameSize
<1>6. FaceRows(k)' = FaceRows(k) /\ WallsOf(k)' = WallsOf(k)
  BY <1>1, <1>2 DEF FaceRows, WallsOf
<1>7. \A iy : FacesOf(k, {iy})' = FacesOf(k, {iy})
  BY <1>1, <1>5 DEF FacesOf
<1>8. \A iy : RowGiven(f, iy)' <=> FluxesOn(mem'[f], k, FacesOf(k, {iy}))
  BY <1>1, <1>4, <1>7 DEF RowGiven, FluxesOn
<1>9. Given(f)' <=> Complete(mem'[f], k)
  BY <1>1, <1>3, <1>4, <1>5, <1>6 DEF Given, Complete, FaceFlux
<1> QED BY <1>6, <1>8, <1>9

\* A kernel that does not store into the array.
LEMMA StageAside ==
  ASSUME SameSize, NEW f, mem'[f] = mem[f], NEW loop, NEW edges, NEW after,
         FluxStage(f, loop, edges, after),
         pc' = loop => pc # loop /\ todo' = FaceRows(KindOf(f)),
         pc' \in edges => pc \in edges, pc' \in after => pc \in after
  PROVE  FluxStage(f, loop, edges, after)'
<1>1. /\ FaceRows(KindOf(f))' = FaceRows(KindOf(f))
      /\ \A iy : RowGiven(f, iy)' <=> RowGiven(f, iy)
      /\ Given(f)' <=> Given(f)
  BY SameFacesNext DEF RowGiven, Given
<1> QED BY <1>1 DEF FluxStage

\* A row of the loop that stores into the array, or the end of the loop.
FluxLoop(f, loop, next) ==
  /\ pc = loop /\ (pc' = next \/ pc' = loop)
  /\ \/ todo = {} /\ pc' = next /\ mem'[f] = mem[f]
     \/ \E iy \in todo :
          /\ pc' = IF todo = {iy} THEN next ELSE loop
          /\ pc' = loop => todo' = todo \ {iy}
          /\ iy \in FaceRows(KindOf(f)) =>
               \A rows : FluxesOn(mem[f], KindOf(f), FacesOf(KindOf(f), rows)) =>
                         FluxesOn(mem'[f], KindOf(f), FacesOf(KindOf(f), rows \cup {iy}))

LEMMA StageLoop ==
  ASSUME SameSize, NEW f, NEW loop, NEW edges, NEW after, NEW next,
         FluxStage(f, loop, edges, after), FluxLoop(f, loop, next),
         next # loop, next \in edges, loop \notin edges, loop \notin after, next \notin after
  PROVE  FluxStage(f, loop, edges, after)'
<1> DEFINE k == KindOf(f)
           given(m, rows) == FluxesOn(m, k, FacesOf(k, rows))
<1>1. /\ FaceRows(k)' = FaceRows(k)
      /\ \A iy : RowGiven(f, iy)' <=> given(mem'[f], {iy})
      /\ \A iy : RowGiven(f, iy) <=> given(mem[f], {iy})
  BY SameFacesNext DEF RowGiven
<1>2. todo \subseteq FaceRows(k) /\ given(mem[f], FaceRows(k) \ todo) /\ pc = loop
  <2>1. todo \subseteq FaceRows(k) /\ \A iy \in FaceRows(k) \ todo : RowGiven(f, iy)
    BY DEF FluxStage, FluxLoop
  <2> QED BY <1>1, <2>1, RowsTogether DEF FluxLoop
<1>3. CASE todo = {} /\ pc' = next /\ mem'[f] = mem[f]
  <2>1. given(mem'[f], FaceRows(k))
    <3>1. FaceRows(k) \ todo = FaceRows(k)
      BY <1>3
    <3> QED BY <1>2, <1>3, <3>1
  <2>2. \A iy \in FaceRows(k) : given(mem'[f], {iy})
    BY <2>1, RowsTogether
  <2> QED BY <1>1, <1>3, <2>2 DEF FluxStage
<1>4. CASE ~(todo = {} /\ pc' = next /\ mem'[f] = mem[f])
  <2>1. PICK iy \in todo :
          /\ pc' = IF todo = {iy} THEN next ELSE loop
          /\ pc' = loop => todo' = todo \ {iy}
          /\ iy \in FaceRows(k) => \A rows : given(mem[f], rows) => given(mem'[f], rows \cup {iy})
    BY <1>4 DEF FluxLoop
  <2>2. given(mem'[f], (FaceRows(k) \ todo) \cup {iy})
    BY <1>2, <2>1
  <2>3. \A y \in (FaceRows(k) \ todo) \cup {iy} : given(mem'[f], {y})
    BY <2>2, RowsTogether
  <2> HIDE DEF given
  <2>4. CASE todo = {iy}
    BY <1>1, <1>2, <2>1, <2>3, <2>4 DEF FluxStage
  <2>5. CASE todo # {iy}
    BY <1>1, <1>2, <2>1, <2>3, <2>5 DEF FluxStage
  <2> QED BY <2>4, <2>5
<1> QED BY <1>3, <1>4

\* The boundary kernel that completes the array.
FluxEdge(f, next) ==
  /\ pc' = next
  /\ FluxesOn(mem[f], KindOf(f), FacesOf(KindOf(f), FaceRows(KindOf(f)))) =>
       Complete(mem'[f], KindOf(f))

LEMMA StageEdge ==
  ASSUME SameSize, NEW f, NEW loop, NEW edges, NEW after, NEW next,
         FluxStage(f, loop, edges, after), FluxEdge(f, next), pc \in edges,
         next # loop, next \notin edges
  PROVE  FluxStage(f, loop, edges, after)'
<1>1. Given(f)'
  <2>1. FluxesOn(mem[f], KindOf(f), FacesOf(KindOf(f), FaceRows(KindOf(f))))
    BY RowsTogether DEF FluxStage, RowGiven
  <2> QED BY <2>1, SameFacesNext DEF FluxEdge
<1> QED BY <1>1 DEF FluxStage, FluxEdge
-----------------------------------------------------------------------------
\* A kernel of a driver, or a row of it: which arrays it may store into, and what follows.
Keeps(outs) ==
  /\ SameSize
  /\ DOMAIN mem' = DOMAIN mem
  /\ \A a \in DOMAIN mem : DOMAIN mem'[a] = DOMAIN mem[a] /\ (a \notin outs => mem'[a] = mem[a])

Kernel(at, outs, next, rows) ==
  /\ pc = at /\ Keeps(outs)
  /\ \/ pc' = next /\ todo' = rows
     \/ pc' = at /\ todo' \subseteq todo

LEMMA StoredKeeps == \A f, stores : DOMAIN Stored(f, stores) = DOMAIN f
  BY DEF Stored
=============================================================================
