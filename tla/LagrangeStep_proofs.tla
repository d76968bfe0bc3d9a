------------------------ MODULE LagrangeStep_proofs ------------------------
(***************************************************************************)
(* The Lagrangian driver of a time step, for every size of grid, any order *)
(* of the rows and each boundary condition: it stores every element of the *)
(* arrays it fills once, and the right value into it.  Checked by TLAPS.   *)
(*                                                                         *)
(* HydroStep takes the driver as an instance, whose operators on arrays    *)
(* have names of their own (L!Fold, L!Stored); the first lemmas say that   *)
(* they are those of GridArrays.                                           *)
(***************************************************************************)
EXTENDS HydroStep, Sweeps_proofs

LEMMA SameGrid ==
  /\ \A a : L!KindOf(a) = KindOf(a)
  /\ \A k : L!StaggeredX(k) = StaggeredX(k) /\ L!StaggeredY(k) = StaggeredY(k)
  /\ \A k : L!LastX(k) = LastX(k) /\ L!LastY(k) = LastY(k)
  /\ \A k : L!Places(k) = Places(k) /\ L!Size(k) = Size(k)
  /\ \A ix, iy, n : L!CellAt(ix, iy, n) = CellAt(ix, iy, n) /\ L!NodeAt(ix, iy, n) = NodeAt(ix, iy, n)
  /\ \A k, p : L!At(k, p) = At(k, p)
  /\ \A k, p : L!Fold(k, p) = Fold(k, p)
  /\ \A a, p : L!Held(a, p) = Held(a, p)
  /\ L!Zero = Zero /\ L!Garbage = Garbage
<1>1. \A a : L!KindOf(a) = KindOf(a)
  BY DEF L!KindOf, KindOf
<1>2. \A k : L!StaggeredX(k) = StaggeredX(k) /\ L!StaggeredY(k) = StaggeredY(k)
  BY DEF L!StaggeredX, StaggeredX, L!StaggeredY, StaggeredY
<1>3. \A k : L!LastX(k) = LastX(k) /\ L!LastY(k) = LastY(k)
  BY <1>2 DEF L!LastX, LastX, L!LastY, LastY
<1>4. \A k : L!Places(k) = Places(k) /\ L!Size(k) = Size(k)
  BY <1>3 DEF L!Places, Places, L!Size, Size
<1>5. \A ix, iy, n : L!CellAt(ix, iy, n) = CellAt(ix, iy, n) /\ L!NodeAt(ix, iy, n) = NodeAt(ix, iy, n)
  BY DEF L!CellAt, CellAt, L!NodeAt, NodeAt
<1>6. \A k, p : L!At(k, p) = At(k, p)
  BY <1>2, <1>5 DEF L!At, At
<1>7. \A k, p : L!Fold(k, p) = Fold(k, p)
  BY DEF L!Fold, Fold, L!Folded, Folded, L!WallsX, WallsX, L!WallsY, WallsY,
         L!StaggeredX, StaggeredX, L!StaggeredY, StaggeredY
<1>8. \A a, p : L!Held(a, p) = Held(a, p)
  BY DEF L!Held, Held, L!OnWallX, OnWallX, L!OnWallY, OnWallY, L!WallsX, WallsX, L!WallsY, WallsY
<1>9. L!Zero = Zero /\ L!Garbage = Garbage
  BY DEF L!Zero, Zero, L!Garbage, Garbage
<1> QED BY <1>1, <1>2, <1>3, <1>4, <1>5, <1>6, <1>7, <1>8, <1>9

LEMMA SameValues ==
  /\ \A a, p : L!Right(a, p) = Right(a, p)
  /\ \A p, r : L!ReadsRight(p, r) = ReadsRight(p, r)
  /\ \A k, p, reads : L!Computed(k, p, reads) = Computed(k, p, reads)
  /\ \A f, stores : L!Stored(f, stores) = Stored(f, stores)
<1>1. \A a, p : L!Right(a, p) = Right(a, p)
  BY SameGrid DEF L!Right, Right
<1>2. \A p, r : L!ReadsRight(p, r) = ReadsRight(p, r)
  BY <1>1 DEF L!ReadsRight, ReadsRight, L!Expected, Expected, L!Lagged, Lagged, L!Neighbour, Neighbour
<1>3. \A p, r : L!ReadsDerived(p, r) = ReadsDerived(p, r)
  BY SameGrid DEF L!ReadsDerived, ReadsDerived, L!Neighbour, Neighbour, L!Off, Off, L!Derived, Derived
<1>4. \A k, p, reads : L!Computed(k, p, reads) = Computed(k, p, reads)
  BY <1>2, <1>3, SameGrid DEF L!Computed, Computed, L!Off, Off, L!Derived, Derived
<1>5. \A f, stores : L!Stored(f, stores) = Stored(f, stores)
  BY SameGrid DEF L!Stored, Stored
<1> QED BY <1>1, <1>2, <1>4, <1>5

LEMMA SameReads ==
  /\ \A A, i : L!Here(A, i) = Here(A, i)
  /\ \A A, sw, se, nw, ne : /\ L!Corners(A, sw, se, nw, ne) = Corners(A, sw, se, nw, ne)
                            /\ L!Quarters(A, sw, se, nw, ne) = Quarters(A, sw, se, nw, ne)
  /\ \A nodes : L!Zeros(nodes) = Zeros(nodes)
  /\ L!CornerNodes = CornerNodes
<1>1. \A A, i : L!Here(A, i) = Here(A, i)
  BY DEF L!Here, Here
<1>2. \A A, sw, se, nw, ne : L!Corners(A, sw, se, nw, ne) = Corners(A, sw, se, nw, ne)
  BY DEF L!Corners, Corners
<1>3. \A A, sw, se, nw, ne : L!Quarters(A, sw, se, nw, ne) = Quarters(A, sw, se, nw, ne)
  BY DEF L!Quarters, Quarters
<1>4. \A nodes : L!Zeros(nodes) = Zeros(nodes)
  BY SameGrid DEF L!Zeros, Zeros
<1>5. L!CornerNodes = CornerNodes
  BY DEF L!CornerNodes, CornerNodes
<1> QED BY <1>1, <1>2, <1>3, <1>4, <1>5

LEMMA SameMaps ==
  \A i, iy, n :
    /\ L!CellNodeM1M1(i, iy, n) = CellNodeM1M1(i, iy, n) /\ L!CellNodeP1M1(i, iy, n) = CellNodeP1M1(i, iy, n)
    /\ L!CellNodeM1P1(i, iy, n) = CellNodeM1P1(i, iy, n) /\ L!CellNodeP1P1(i, iy, n) = CellNodeP1P1(i, iy, n)
    /\ L!NodeCellM1M1(i, iy, n) = NodeCellM1M1(i, iy, n) /\ L!NodeCellP1M1(i, iy, n) = NodeCellP1M1(i, iy, n)
    /\ L!NodeCellM1P1(i, iy, n) = NodeCellM1P1(i, iy, n) /\ L!NodeCellP1P1(i, iy, n) = NodeCellP1P1(i, iy, n)
BY DEF L!CellNodeM1M1, CellNodeM1M1, L!CellNodeP1M1, CellNodeP1M1, L!CellNodeM1P1, CellNodeM1P1,
       L!CellNodeP1P1, CellNodeP1P1, L!NodeCellM1M1, NodeCellM1M1, L!NodeCellP1M1, NodeCellP1M1,
       L!NodeCellM1P1, NodeCellM1P1, L!NodeCellP1P1, NodeCellP1P1

-----------------------------------------------------------------------------
\* An array of the size of its kind that is right all over.
Holds(a) == DOMAIN mem[a] = 0 .. Size(KindOf(a)) - 1 /\ IsRight(mem, a)

\* A cell or a node that is right is found from its own place.
LEMMA FoundCell ==
  ASSUME WideGrid, NEW b, KindOf(b) = "cell", Holds(b),
         NEW x \in 0 .. nx - 1, NEW y \in 0 .. ny - 1
  PROVE  Found(b, CellAt(x, y, nx), <<x, y>>)
<1>1. <<x, y>> \in Places("cell") /\ At("cell", <<x, y>>) = CellAt(x, y, nx) /\ "cell" \in Kinds
  BY DEF Places, LastX, LastY, StaggeredX, StaggeredY, At, Kinds
<1>2. DOMAIN mem[b] = 0 .. Size("cell") - 1 /\ mem[b][At("cell", <<x, y>>)] = Right(b, <<x, y>>)
  BY <1>1 DEF Holds, IsRight
<1> QED BY <1>1, <1>2, FoundFrom, WideGridIsGrid

LEMMA FoundNode ==
  ASSUME WideGrid, NEW b, KindOf(b) \in {"node", "position"}, Holds(b),
         NEW x \in 0 .. nx, NEW y \in 0 .. ny
  PROVE  Found(b, NodeAt(x, y, nx), <<x, y>>)
<1>1. /\ <<x, y>> \in Places(KindOf(b)) /\ At(KindOf(b), <<x, y>>) = NodeAt(x, y, nx)
      /\ KindOf(b) \in Kinds
  BY DEF Places, LastX, LastY, StaggeredX, StaggeredY, At, Kinds
<1>2. /\ DOMAIN mem[b] = 0 .. Size(KindOf(b)) - 1
      /\ mem[b][At(KindOf(b), <<x, y>>)] = Right(b, <<x, y>>)
  BY <1>1 DEF Holds, IsRight
<1> QED BY <1>1, <1>2, FoundFrom, WideGridIsGrid

\* The arrays around a node are prescribed nowhere: beyond an edge they are what the cell
\* on which the place is folded holds.
Around == {"mass", "predicted_pressure", "pseudo_pressure"}

LEMMA FoundAround ==
  ASSUME WideGrid, \A b \in Around : Holds(b),
         NEW x \in 0 .. nx - 1, NEW y \in 0 .. ny - 1,
         NEW p, Fold("cell", p) = <<x, y>>
  PROVE  \A b \in Around : Found(b, CellAt(x, y, nx), p)
<1> SUFFICES ASSUME NEW b \in Around PROVE Found(b, CellAt(x, y, nx), p)
  OBVIOUS
<1>1. /\ <<x, y>> \in Places("cell") /\ At("cell", <<x, y>>) = CellAt(x, y, nx)
      /\ "cell" \in Kinds /\ KindOf(b) = "cell"
  BY KindsOfArrays DEF Places, LastX, LastY, StaggeredX, StaggeredY, At, Kinds, Around
<1>2. /\ DOMAIN mem[b] = 0 .. Size("cell") - 1
      /\ mem[b][At("cell", <<x, y>>)] = Right(b, <<x, y>>)
  BY <1>1 DEF Holds, IsRight
<1>3. Fold("cell", <<x, y>>) = <<x, y>>
  <2>1. /\ Folded(x, nx, WallsX, StaggeredX("cell")) = x
        /\ Folded(y, ny, WallsY, StaggeredY("cell")) = y
    BY FoldedXNear, FoldedYNear DEF WideGrid
  <2> QED BY <2>1 DEF Fold
<1>4. \A q : ~Held(b, q)
  BY DEF Held, Around
<1>5. Right(b, p) = Right(b, <<x, y>>)
  BY <1>1, <1>3, <1>4 DEF Right
<1> QED BY <1>1, <1>2, <1>5, FoundFrom, WideGridIsGrid

-----------------------------------------------------------------------------
\* The stores are into the elements of the places S, each of which has one, and they are
\* right if the velocities of the step agree.
Fills(a, S, stores) ==
  /\ S \subseteq Places(KindOf(a))
  /\ \A s \in stores : \E p \in S : s[1] = At(KindOf(a), p) /\ (agree => s[2] = Right(a, p))
  /\ \A p \in S : \E s \in stores : s[1] = At(KindOf(a), p)

LEMMA FilledPlaces ==
  ASSUME Grid, NEW a, KindOf(a) \in Kinds, DOMAIN mem[a] = 0 .. Size(KindOf(a)) - 1,
         NEW S, NEW stores, Fills(a, S, stores)
  PROVE  /\ DOMAIN Stored(mem[a], stores) = DOMAIN mem[a]
         /\ \A p \in Places(KindOf(a)) \ S :
              Stored(mem[a], stores)[At(KindOf(a), p)] = mem[a][At(KindOf(a), p)]
         /\ agree => \A p \in S : Stored(mem[a], stores)[At(KindOf(a), p)] = Right(a, p)
<1> DEFINE k == KindOf(a)
           f == mem[a]
<1>1. /\ k \in Kinds /\ S \in SUBSET Places(k) /\ DOMAIN f = 0 .. Size(k) - 1
      /\ \A s \in stores : \E p \in S : s[1] = At(k, p)
      /\ \A p \in S : \E s \in stores : s[1] = At(k, p)
  BY DEF Fills
<1>2. /\ DOMAIN Stored(f, stores) = DOMAIN f
      /\ \A p \in Places(k) \ S : Stored(f, stores)[At(k, p)] = f[At(k, p)]
  <2>1. Indices(stores) \subseteq DOMAIN f
    BY <1>1, ElementsInside DEF Indices
  <2>2. Stored(f, stores) = [i \in DOMAIN f |-> Element(f, stores, i)]
    BY <2>1, StoredElements
  <2>3. ASSUME NEW p \in Places(k) \ S PROVE Stored(f, stores)[At(k, p)] = f[At(k, p)]
    <3>1. At(k, p) \notin Indices(stores)
      BY <1>1, <2>3, ElementsApart DEF Indices
    <3>2. At(k, p) \in DOMAIN f
      BY <1>1, ElementsInside
    <3> QED BY <2>2, <3>1, <3>2, ElementKept
  <2> QED BY <2>2, <2>3
<1>3. ASSUME agree PROVE \A p \in S : Stored(f, stores)[At(k, p)] = Right(a, p)
  <2> DEFINE g == [p \in S |-> Right(a, p)]
  <2>1. \A s \in stores : \E p \in S : s[1] = At(k, p) /\ s[2] = g[p]
    BY <1>3 DEF Fills
  <2>2. \A p \in S : g[p] = Right(a, p)
    OBVIOUS
  <2> HIDE DEF k, f, g
  <2>3. \A p \in S : Stored(f, stores)[At(k, p)] = g[p]
    BY <1>1, <2>1, StoredThere
  <2> QED BY <2>2, <2>3
<1> QED BY <1>2, <1>3

\* A row is filled by the stores of its columns.
LEMMA RowFills ==
  ASSUME NEW a, NEW iy, NEW C, NEW S, S \subseteq Places(KindOf(a)),
         \A p \in S : \E ix \in C : p = <<ix, iy>>, \A ix \in C : <<ix, iy>> \in S,
         NEW v, agree => \A ix \in C : v[ix] = Right(a, <<ix, iy>>),
         NEW stores, \A s \in stores : \E ix \in C : s = <<At(KindOf(a), <<ix, iy>>), v[ix]>>,
         \A ix \in C : <<At(KindOf(a), <<ix, iy>>), v[ix]>> \in stores
  PROVE  Fills(a, S, stores)
<1>1. ASSUME NEW s \in stores
      PROVE  \E p \in S : s[1] = At(KindOf(a), p) /\ (agree => s[2] = Right(a, p))
  <2>1. PICK ix \in C : s = <<At(KindOf(a), <<ix, iy>>), v[ix]>>
    OBVIOUS
  <2> WITNESS <<ix, iy>> \in S
  <2> QED BY <2>1
<1>2. ASSUME NEW p \in S PROVE \E s \in stores : s[1] = At(KindOf(a), p)
  <2>1. PICK ix \in C : p = <<ix, iy>>
    OBVIOUS
  <2>2. <<At(KindOf(a), <<ix, iy>>), v[ix]>> \in stores
    OBVIOUS
  <2> QED BY <2>1, <2>2
<1> QED BY <1>1, <1>2 DEF Fills

\* The places of the row iy.
RowPlaces(k, iy) == {p \in Places(k) : p[2] = iy}

PressureArrays == {"pressure", "predicted_pressure", "pseudo_pressure"}
VelocityArrays == {"predicted_u", "predicted_v"}

\* Nothing but the velocity on the boundary is prescribed.
LEMMA PrescribedNowhere ==
  \A a \in L!Scratch \cup L!Inputs : \A p : a \notin VelocityArrays => ~Held(a, p)
  BY DEF Held, L!Scratch, L!Inputs, VelocityArrays

\* A formula that reads arrays of cells at the cell, and arrays of nodes at its corners.
LEMMA CellFound ==
  ASSUME WideGrid, NEW ix \in 0 .. nx - 1, NEW iy \in 0 .. ny - 1,
         NEW A, \A b \in A : KindOf(b) = "cell" /\ Holds(b),
         NEW B, \A b \in B : KindOf(b) \in {"node", "position"} /\ Holds(b)
  PROVE  LET c == CellAt(ix, iy, nx)
         IN Computed("cell", <<ix, iy>>,
              L!Here(A, c) \cup
              L!Corners(B, L!CellNodeM1M1(c, iy, nx), L!CellNodeP1M1(c, iy, nx),
                           L!CellNodeM1P1(c, iy, nx), L!CellNodeP1P1(c, iy, nx)))
              = Fold("cell", <<ix, iy>>)
<1> DEFINE c == CellAt(ix, iy, nx)
           corners == Corners(B, NodeAt(ix, iy, nx), NodeAt(ix + 1, iy, nx),
                                 NodeAt(ix, iy + 1, nx), NodeAt(ix + 1, iy + 1, nx))
<1>1. /\ ix \in 0 .. nx /\ ix + 1 \in 0 .. nx /\ iy \in 0 .. ny /\ iy + 1 \in 0 .. ny
      /\ ix \in Int /\ iy \in Int /\ nx \in Int
  BY DEF WideGrid
<1>2. /\ L!Here(A, c) = Here(A, c)
      /\ L!Corners(B, L!CellNodeM1M1(c, iy, nx), L!CellNodeP1M1(c, iy, nx),
                      L!CellNodeM1P1(c, iy, nx), L!CellNodeP1P1(c, iy, nx)) = corners
  BY <1>1, CellMaps, SameReads, SameMaps
<1>3. \A b \in A : Found(b, c, <<ix, iy>>)
  BY FoundCell
<1>4. \A b \in B : /\ Found(b, NodeAt(ix, iy, nx), <<ix, iy>>)
                   /\ Found(b, NodeAt(ix + 1, iy, nx), <<ix + 1, iy>>)
                   /\ Found(b, NodeAt(ix, iy + 1, nx), <<ix, iy + 1>>)
                   /\ Found(b, NodeAt(ix + 1, iy + 1, nx), <<ix + 1, iy + 1>>)
  BY <1>1, FoundNode
<1> HIDE DEF c
<1>5. \A r \in Here(A, c) : ReadsRight(<<ix, iy>>, r)
  BY <1>1, <1>3, HereFound
<1>6. \A r \in corners : ReadsRight(<<ix, iy>>, r)
  BY <1>1, <1>4, CornersFound
<1>7. Computed("cell", <<ix, iy>>, Here(A, c) \cup corners) = Fold("cell", <<ix, iy>>)
  BY <1>5, <1>6, ComputedFound
<1> QED BY <1>2, <1>7 DEF c

\* The pressures of a row are those of its cells, from the nodes at their corners.
LEMMA PressureRow ==
  ASSUME WideGrid, NEW a \in PressureArrays, NEW iy \in CellRows,
         agree => \A b \in L!Inputs : Holds(b)
  PROVE  Fills(a, RowPlaces("cell", iy), L!PressureStores(a, iy))
<1>1. KindOf(a) = "cell"
  BY KindsOfArrays DEF PressureArrays
<1>2. Places("cell") = (0 .. nx - 1) \X (0 .. ny - 1)
  BY DEF Places, LastX, LastY, StaggeredX, StaggeredY
<1>3. \A ix : At("cell", <<ix, iy>>) = CellAt(ix, iy, nx)
  BY DEF At, StaggeredX
<1>4. ASSUME NEW ix \in 0 .. nx - 1, agree
      PROVE  Computed("cell", <<ix, iy>>, L!PressureReads(a, CellAt(ix, iy, nx), iy)) = Right(a, <<ix, iy>>)
  <2> DEFINE c == CellAt(ix, iy, nx)
             A == {"mass", "e"}
             B == IF a = "pressure" THEN {"X"} ELSE {"u", "v", "X"}
  <2>1. iy \in 0 .. ny - 1
    BY DEF CellRows
  <2>2. (\A b \in A : KindOf(b) = "cell" /\ Holds(b)) /\ \A b \in B : KindOf(b) \in {"node", "position"} /\ Holds(b)
    BY <1>4, KindsOfArrays DEF L!Inputs
  <2> HIDE DEF A, B
  <2>3. Computed("cell", <<ix, iy>>,
          L!Here(A, c) \cup
          L!Corners(B, L!CellNodeM1M1(c, iy, nx), L!CellNodeP1M1(c, iy, nx),
                       L!CellNodeM1P1(c, iy, nx), L!CellNodeP1P1(c, iy, nx)))
          = Fold("cell", <<ix, iy>>)
    BY <2>1, <2>2, CellFound
  <2>4. Computed("cell", <<ix, iy>>, L!PressureReads(a, c, iy)) = Fold("cell", <<ix, iy>>)
    BY <2>3 DEF L!PressureReads, A, B
  <2>5. Right(a, <<ix, iy>>) = Fold("cell", <<ix, iy>>)
    BY <1>1, PrescribedNowhere DEF Right, PressureArrays, VelocityArrays, L!Scratch
  <2> QED BY <2>4, <2>5
<1>5. L!PressureStores(a, iy)
        = {<<CellAt(ix, iy, nx), Computed("cell", <<ix, iy>>, L!PressureReads(a, CellAt(ix, iy, nx), iy))>>
           : ix \in 0 .. nx - 1}
  BY SameGrid, SameValues DEF L!PressureStores
<1> DEFINE S == RowPlaces("cell", iy)
           C == 0 .. nx - 1
<1>6. (\A p \in S : \E ix \in C : p = <<ix, iy>>) /\ \A ix \in C : <<ix, iy>> \in S
  BY <1>2 DEF RowPlaces, CellRows
<1>7. S \subseteq Places(KindOf(a))
  BY <1>1 DEF RowPlaces
<1> DEFINE v == [ix \in C |->
                  Computed("cell", <<ix, iy>>, L!PressureReads(a, CellAt(ix, iy, nx), iy))]
<1> DEFINE stores == L!PressureStores(a, iy)
<1>8. /\ \A s \in stores : \E ix \in C : s = <<At(KindOf(a), <<ix, iy>>), v[ix]>>
      /\ \A ix \in C : <<At(KindOf(a), <<ix, iy>>), v[ix]>> \in stores
  BY <1>1, <1>3, <1>5
<1>9. agree => \A ix \in C : v[ix] = Right(a, <<ix, iy>>)
  BY <1>4
<1> HIDE DEF v, S, stores, C
<1>10. Fills(a, S, stores)
  BY <1>6, <1>7, <1>8, <1>9, RowFills
<1> QED BY <1>10 DEF S, stores

\* The energy of a row needs what the three kernels before it left.
LEMMA EnergyRow ==
  ASSUME WideGrid, NEW iy \in CellRows,
         agree => \A b \in L!Inputs \cup PressureArrays \cup VelocityArrays : Holds(b)
  PROVE  Fills("e_lag", RowPlaces("cell", iy), L!EnergyStores("e_lag", iy))
<1>1. KindOf("e_lag") = "cell"
  BY KindsOfArrays
<1>2. Places("cell") = (0 .. nx - 1) \X (0 .. ny - 1)
  BY DEF Places, LastX, LastY, StaggeredX, StaggeredY
<1>3. \A ix : At("cell", <<ix, iy>>) = CellAt(ix, iy, nx)
  BY DEF At, StaggeredX
<1>4. ASSUME NEW ix \in 0 .. nx - 1, agree
      PROVE  L!EnergyAt(<<ix, iy>>, CellAt(ix, iy, nx)) = Right("e_lag", <<ix, iy>>)
  <2> DEFINE c == CellAt(ix, iy, nx)
             A == {"mass", "e", "predicted_pressure", "pseudo_pressure"}
             B == {"predicted_u", "predicted_v", "X"}
  <2>1. iy \in 0 .. ny - 1
    BY DEF CellRows
  <2>2. (\A b \in A : KindOf(b) = "cell" /\ Holds(b)) /\ \A b \in B : KindOf(b) \in {"node", "position"} /\ Holds(b)
    BY <1>4, KindsOfArrays DEF L!Inputs, PressureArrays, VelocityArrays
  <2> HIDE DEF A, B
  <2>3. Computed("cell", <<ix, iy>>,
          L!Here(A, c) \cup
          L!Corners(B, L!CellNodeM1M1(c, iy, nx), L!CellNodeP1M1(c, iy, nx),
                       L!CellNodeM1P1(c, iy, nx), L!CellNodeP1P1(c, iy, nx)))
          = Fold("cell", <<ix, iy>>)
    BY <2>1, <2>2, CellFound
  <2>4. L!EnergyAt(<<ix, iy>>, c) = Fold("cell", <<ix, iy>>)
    BY <2>3, SameValues DEF L!EnergyAt, A, B
  <2>5. Right("e_lag", <<ix, iy>>) = Fold("cell", <<ix, iy>>)
    BY <1>1, PrescribedNowhere DEF Right, VelocityArrays, L!Scratch
  <2> QED BY <2>4, <2>5
<1> DEFINE S == RowPlaces("cell", iy)
           C == 0 .. nx - 1
           v == [ix \in C |-> L!EnergyAt(<<ix, iy>>, CellAt(ix, iy, nx))]
           stores == L!EnergyStores("e_lag", iy)
<1>5. (\A p \in S : \E ix \in C : p = <<ix, iy>>) /\ \A ix \in C : <<ix, iy>> \in S
  BY <1>2 DEF RowPlaces, CellRows
<1>6. S \subseteq Places(KindOf("e_lag"))
  BY <1>1 DEF RowPlaces
<1>7. stores = {<<CellAt(ix, iy, nx), L!EnergyAt(<<ix, iy>>, CellAt(ix, iy, nx))>> : ix \in C}
  BY SameGrid DEF L!EnergyStores
<1>8. /\ \A s \in stores : \E ix \in C : s = <<At(KindOf("e_lag"), <<ix, iy>>), v[ix]>>
      /\ \A ix \in C : <<At(KindOf("e_lag"), <<ix, iy>>), v[ix]>> \in stores
  BY <1>1, <1>3, <1>7
<1>9. agree => \A ix \in C : v[ix] = Right("e_lag", <<ix, iy>>)
  BY <1>4
<1> HIDE DEF v, S, stores, C
<1>10. Fills("e_lag", S, stores)
  BY <1>5, <1>6, <1>8, <1>9, RowFills
<1> QED BY <1>10 DEF S, stores

\* The corrected velocity of a row of nodes, the first and the last ones with the others.
LEMMA CorrectionRow ==
  ASSUME WideGrid, NEW a \in {"u_lag", "v_lag"}, NEW iy \in NodeRows,
         agree => \A b \in L!Inputs \cup VelocityArrays : Holds(b)
  PROVE  Fills(a, RowPlaces("node", iy), L!CorrectionStores(a, iy))
<1>1. KindOf(a) = "node"
  BY KindsOfArrays
<1>2. Places("node") = (0 .. nx) \X (0 .. ny)
  BY DEF Places, LastX, LastY, StaggeredX, StaggeredY
<1>3. \A ix : At("node", <<ix, iy>>) = NodeAt(ix, iy, nx)
  BY DEF At, StaggeredX
<1> DEFINE A == IF a = "u_lag" THEN {"u", "predicted_u"} ELSE {"v", "predicted_v"}
<1>4. ASSUME NEW ix \in 0 .. nx, agree
      PROVE  Computed("node", <<ix, iy>>, Here(A, NodeAt(ix, iy, nx))) = Right(a, <<ix, iy>>)
  <2>1. iy \in 0 .. ny /\ ix \in Int /\ iy \in Int
    BY DEF NodeRows, WideGrid
  <2>2. \A b \in A : KindOf(b) \in {"node", "position"} /\ Holds(b)
    BY <1>4, KindsOfArrays DEF L!Inputs, VelocityArrays
  <2> HIDE DEF A
  <2>3. \A b \in A : Found(b, NodeAt(ix, iy, nx), <<ix, iy>>)
    BY <2>1, <2>2, FoundNode
  <2>4. \A r \in Here(A, NodeAt(ix, iy, nx)) : ReadsRight(<<ix, iy>>, r)
    BY <2>1, <2>3, HereFound
  <2>5. Right(a, <<ix, iy>>) = Fold("node", <<ix, iy>>)
    BY <1>1, PrescribedNowhere DEF Right, VelocityArrays, L!Scratch
  <2> QED BY <2>4, <2>5, ComputedFound
<1> DEFINE S == RowPlaces("node", iy)
           C == 0 .. nx
           v == [ix \in C |-> Computed("node", <<ix, iy>>, Here(A, NodeAt(ix, iy, nx)))]
           stores == L!CorrectionStores(a, iy)
<1>5. (\A p \in S : \E ix \in C : p = <<ix, iy>>) /\ \A ix \in C : <<ix, iy>> \in S
  BY <1>2 DEF RowPlaces, NodeRows
<1>6. S \subseteq Places(KindOf(a))
  BY <1>1 DEF RowPlaces
<1>7. stores = {<<NodeAt(ix, iy, nx), Computed("node", <<ix, iy>>, Here(A, NodeAt(ix, iy, nx)))>> : ix \in C}
  BY SameGrid, SameValues, SameReads DEF L!CorrectionStores
<1>8. /\ \A s \in stores : \E ix \in C : s = <<At(KindOf(a), <<ix, iy>>), v[ix]>>
      /\ \A ix \in C : <<At(KindOf(a), <<ix, iy>>), v[ix]>> \in stores
  BY <1>1, <1>3, <1>7
<1>9. agree => \A ix \in C : v[ix] = Right(a, <<ix, iy>>)
  BY <1>4
<1> HIDE DEF v, S, stores, C
<1>10. Fills(a, S, stores)
  BY <1>5, <1>6, <1>8, <1>9, RowFills
<1> QED BY <1>10 DEF S, stores

-----------------------------------------------------------------------------
\* Where a coordinate of the cells around a node is, on a grid without an edge.
AcrossX(z) == Folded(z, nx, WallsX, StaggeredX("cell"))
AcrossY(z) == Folded(z, ny, WallsY, StaggeredY("cell"))

\* The velocity of a node from its own velocity and the cells around it, wherever the
\* kernel finds them: w and e are their columns, s and n their rows.
LEMMA VelocityFound ==
  ASSUME WideGrid, NEW a \in VelocityArrays,
         \A b \in L!Inputs \cup PressureArrays : Holds(b),
         NEW x \in 0 .. nx, NEW y \in 0 .. ny,
         NEW w \in 0 .. nx - 1, NEW e \in 0 .. nx - 1, NEW s \in 0 .. ny - 1, NEW n \in 0 .. ny - 1,
         AcrossX(x - 1) = w, AcrossX(x) = e, AcrossY(y - 1) = s, AcrossY(y) = n
  PROVE  L!VelocityAt(a, <<x, y>>, CellAt(w, s, nx), CellAt(e, s, nx),
                      CellAt(w, n, nx), CellAt(e, n, nx), NodeAt(x, y, nx)) = Fold("node", <<x, y>>)
<1> DEFINE own == IF a = "predicted_u" THEN {"u"} ELSE {"v"}
           sw == CellAt(w, s, nx)
           se == CellAt(e, s, nx)
           nw == CellAt(w, n, nx)
           ne == CellAt(e, n, nx)
           node == NodeAt(x, y, nx)
<1>1. x \in Int /\ y \in Int
  BY DEF WideGrid
<1>2. /\ Fold("cell", <<x - 1, y - 1>>) = <<w, s>> /\ Fold("cell", <<x, y - 1>>) = <<e, s>>
      /\ Fold("cell", <<x - 1, y>>) = <<w, n>> /\ Fold("cell", <<x, y>>) = <<e, n>>
  BY DEF Fold, AcrossX, AcrossY
<1>3. \A b \in Around : Holds(b)
  BY DEF Around, L!Inputs, PressureArrays
<1>4. \A b \in Around : Found(b, sw, <<x - 1, y - 1>>)
  BY <1>2, <1>3, FoundAround
<1>5. \A b \in Around : Found(b, se, <<x, y - 1>>)
  BY <1>2, <1>3, FoundAround
<1>6. \A b \in Around : Found(b, nw, <<x - 1, y>>)
  BY <1>2, <1>3, FoundAround
<1>7. \A b \in Around : Found(b, ne, <<x, y>>)
  BY <1>2, <1>3, FoundAround
<1>8. \A b \in own : Found(b, node, <<x, y>>)
  <2>1. \A b \in own : KindOf(b) \in {"node", "position"} /\ Holds(b)
    BY KindsOfArrays DEF L!Inputs
  <2> QED BY <2>1, FoundNode
<1>9. L!VelocityAt(a, <<x, y>>, sw, se, nw, ne, node)
        = Computed("node", <<x, y>>, Quarters(Around, sw, se, nw, ne) \cup Here(own, node))
  BY SameValues, SameReads DEF L!VelocityAt, Around
<1> HIDE DEF own, sw, se, nw, ne, node
<1>10. \A r \in Quarters(Around, sw, se, nw, ne) : ReadsRight(<<x, y>>, r)
  BY <1>1, <1>4, <1>5, <1>6, <1>7, QuartersFound
<1>11. \A r \in Here(own, node) : ReadsRight(<<x, y>>, r)
  BY <1>1, <1>8, HereFound
<1>12. L!VelocityAt(a, <<x, y>>, sw, se, nw, ne, node) = Fold("node", <<x, y>>)
  BY <1>9, <1>10, <1>11, ComputedFound
<1> QED BY <1>12 DEF sw, se, nw, ne, node

LEMMA AcrossNear ==
  ASSUME WideGrid
  PROVE  /\ \A z \in 0 .. nx - 1 : AcrossX(z) = z
         /\ AcrossX(0 - 1) = IF WallsX THEN 0 ELSE nx - 1
         /\ AcrossX(nx) = IF WallsX THEN nx - 1 ELSE 0
         /\ \A z \in 0 .. ny - 1 : AcrossY(z) = z
         /\ AcrossY(0 - 1) = IF WallsY THEN 0 ELSE ny - 1
         /\ AcrossY(ny) = IF WallsY THEN ny - 1 ELSE 0
<1>1. ~StaggeredX("cell") /\ ~StaggeredY("cell")
  BY DEF StaggeredX, StaggeredY
<1>2. \A z \in 0 .. nx - 1 : AcrossX(z) = z
  BY <1>1, FoldedXNear DEF AcrossX, WideGrid
<1>3. \A z \in 0 .. ny - 1 : AcrossY(z) = z
  BY <1>1, FoldedYNear DEF AcrossY, WideGrid
<1>4. (0 - 1) \in Int /\ (0 - 1) + 1 = 0 /\ nx \in Int /\ ny \in Int
  BY DEF WideGrid
<1> DEFINE before == 0 - 1
<1>5. before \in Int /\ before + 1 = 0
  BY <1>4
<1> HIDE DEF before
<1>6. AcrossX(before) = IF WallsX THEN 0 ELSE nx - 1
  BY <1>1, <1>5, FoldedXNear DEF AcrossX
<1>7. AcrossY(before) = IF WallsY THEN 0 ELSE ny - 1
  BY <1>1, <1>5, FoldedYNear DEF AcrossY
<1>8. AcrossX(nx) = IF WallsX THEN nx - 1 ELSE 0
  BY <1>1, <1>4, FoldedXNear DEF AcrossX
<1>9. AcrossY(ny) = IF WallsY THEN ny - 1 ELSE 0
  BY <1>1, <1>4, FoldedYNear DEF AcrossY
<1> QED BY <1>2, <1>3, <1>6, <1>7, <1>8, <1>9 DEF before

\* The nodes of a row that the interior kernel stores.
InnerRow(iy) == {p \in RowPlaces("node", iy) : ~OnEdge(p)}

\* The velocities inside the grid, a row of nodes at a time.
LEMMA VelocityRow ==
  ASSUME WideGrid, NEW a \in VelocityArrays, NEW iy \in Inner,
         agree => \A b \in L!Inputs \cup PressureArrays : Holds(b)
  PROVE  Fills(a, InnerRow(iy), L!VelocityStores(a, iy))
<1>1. KindOf(a) = "node"
  BY KindsOfArrays DEF VelocityArrays
<1>2. Places("node") = (0 .. nx) \X (0 .. ny)
  BY DEF Places, LastX, LastY, StaggeredX, StaggeredY
<1>3. \A ix : At("node", <<ix, iy>>) = NodeAt(ix, iy, nx)
  BY DEF At, StaggeredX
<1> DEFINE value(ix) == L!VelocityAt(a, <<ix, iy>>, CellAt(ix - 1, iy - 1, nx), CellAt(ix, iy - 1, nx),
                                     CellAt(ix - 1, iy, nx), CellAt(ix, iy, nx), NodeAt(ix, iy, nx))
<1>4. ASSUME NEW ix \in 1 .. nx - 1, agree
      PROVE  value(ix) = Right(a, <<ix, iy>>)
  <2>1. /\ ix \in 0 .. nx /\ iy \in 0 .. ny /\ ix - 1 \in 0 .. nx - 1 /\ ix \in 0 .. nx - 1
        /\ iy - 1 \in 0 .. ny - 1 /\ iy \in 0 .. ny - 1
    BY DEF Inner, WideGrid
  <2>2. AcrossX(ix - 1) = ix - 1 /\ AcrossX(ix) = ix /\ AcrossY(iy - 1) = iy - 1 /\ AcrossY(iy) = iy
    BY <2>1, AcrossNear
  <2>3. value(ix) = Fold("node", <<ix, iy>>)
    BY <1>4, <2>1, <2>2, VelocityFound
  <2>4. ~Held(a, <<ix, iy>>)
    BY DEF Held, OnWallX, OnWallY, VelocityArrays, Inner
  <2> QED BY <1>1, <2>3, <2>4 DEF Right
<1>5. ASSUME NEW ix \in 1 .. nx - 1
      PROVE  LET n == NodeAt(ix, iy, nx)
             IN /\ L!NodeCellM1M1(n, iy, nx) = CellAt(ix - 1, iy - 1, nx)
                /\ L!NodeCellP1M1(n, iy, nx) = CellAt(ix, iy - 1, nx)
                /\ L!NodeCellM1P1(n, iy, nx) = CellAt(ix - 1, iy, nx)
                /\ L!NodeCellP1P1(n, iy, nx) = CellAt(ix, iy, nx)
  <2>1. ix \in Int /\ iy \in Int /\ nx \in Int
    BY DEF Inner, WideGrid
  <2> QED BY <2>1, NodeMaps, SameMaps
<1> DEFINE S == InnerRow(iy)
           C == 1 .. nx - 1
           v == [ix \in C |-> value(ix)]
           stores == L!VelocityStores(a, iy)
<1>6. (\A p \in S : \E ix \in C : p = <<ix, iy>>) /\ \A ix \in C : <<ix, iy>> \in S
  BY <1>2 DEF InnerRow, RowPlaces, OnEdge, Inner, WideGrid
<1>7. S \subseteq Places(KindOf(a))
  BY <1>1 DEF InnerRow, RowPlaces
<1>8. stores = {<<NodeAt(ix, iy, nx), value(ix)>> : ix \in C}
  BY <1>5, SameGrid DEF L!VelocityStores
<1>9. /\ \A s \in stores : \E ix \in C : s = <<At(KindOf(a), <<ix, iy>>), v[ix]>>
      /\ \A ix \in C : <<At(KindOf(a), <<ix, iy>>), v[ix]>> \in stores
  <2> HIDE DEF value
  <2> QED BY <1>1, <1>3, <1>8
<1>10. agree => \A ix \in C : v[ix] = Right(a, <<ix, iy>>)
  BY <1>4
<1> HIDE DEF v, S, stores, C
<1>11. Fills(a, S, stores)
  BY <1>6, <1>7, <1>9, <1>10, RowFills
<1> QED BY <1>11 DEF S, stores

-----------------------------------------------------------------------------
\* The boundary kernel fills the corners, the two sides and the two ends.
LEMMA FillsTogether ==
  ASSUME NEW a, NEW R, NEW S, NEW T, NEW r, NEW s, NEW t, Fills(a, R, r), Fills(a, S, s), Fills(a, T, t),
         NEW all, all = R \cup S \cup T, NEW stores, stores = r \cup s \cup t
  PROVE  Fills(a, all, stores)
BY DEF Fills

CornerPlaces == {<<0, 0>>, <<nx, 0>>, <<0, ny>>, <<nx, ny>>}
SidePlaces   == {<<ix, iy>> : ix \in {0, nx}, iy \in Inner}
EndPlaces    == {<<ix, iy>> : ix \in 1 .. nx - 1, iy \in {0, ny}}

LEMMA EdgePlaces ==
  ASSUME WideGrid
  PROVE  /\ CornerPlaces \cup SidePlaces \cup EndPlaces = {p \in Places("node") : OnEdge(p)}
         /\ CornerPlaces \subseteq Places("node") /\ SidePlaces \subseteq Places("node")
         /\ EndPlaces \subseteq Places("node")
<1>1. Places("node") = (0 .. nx) \X (0 .. ny)
  BY DEF Places, LastX, LastY, StaggeredX, StaggeredY
<1>2. /\ CornerPlaces \subseteq Places("node") /\ SidePlaces \subseteq Places("node")
      /\ EndPlaces \subseteq Places("node")
  BY <1>1 DEF CornerPlaces, SidePlaces, EndPlaces, Inner, WideGrid
<1>3. \A p \in CornerPlaces \cup SidePlaces \cup EndPlaces : OnEdge(p)
  BY DEF CornerPlaces, SidePlaces, EndPlaces, OnEdge
<1>4. ASSUME NEW p \in Places("node"), OnEdge(p)
      PROVE  p \in CornerPlaces \cup SidePlaces \cup EndPlaces
  <2>1. PICK x \in 0 .. nx, y \in 0 .. ny : p = <<x, y>>
    BY <1>1
  <2>2. CASE x \in {0, nx} /\ y \in {0, ny}
    BY <2>1, <2>2 DEF CornerPlaces
  <2>3. CASE x \in {0, nx} /\ y \notin {0, ny}
    BY <2>1, <2>3 DEF SidePlaces, Inner, WideGrid
  <2>4. CASE x \notin {0, nx}
    BY <1>4, <2>1, <2>4 DEF EndPlaces, OnEdge, WideGrid
  <2> QED BY <2>2, <2>3, <2>4
<1> QED BY <1>2, <1>3, <1>4

\* The nodes that the code numbers by the side they are on.
LEMMA EdgeElements ==
  ASSUME WideGrid
  PROVE  /\ \A ix \in 0 .. nx : L!Bottom(ix) = NodeAt(ix, 0, nx) /\ L!Top(ix) = NodeAt(ix, ny, nx)
         /\ \A iy \in 0 .. ny : L!Leftmost(iy) = NodeAt(0, iy, nx) /\ L!Rightmost(iy) = NodeAt(nx, iy, nx)
         /\ CornerNodes = {NodeAt(0, 0, nx), NodeAt(nx, 0, nx), NodeAt(0, ny, nx), NodeAt(nx, ny, nx)}
<1>1. \A ix \in 0 .. nx : L!Bottom(ix) = NodeAt(ix, 0, nx) /\ L!Top(ix) = NodeAt(ix, ny, nx)
  BY DEF WideGrid, L!Bottom, L!Top, NodeAt
<1>2. \A iy \in 0 .. ny : L!Leftmost(iy) = NodeAt(0, iy, nx) /\ L!Rightmost(iy) = NodeAt(nx, iy, nx)
  BY DEF WideGrid, L!Leftmost, L!Rightmost, NodeAt
<1>3. CornerNodes = {NodeAt(0, 0, nx), NodeAt(nx, 0, nx), NodeAt(0, ny, nx), NodeAt(nx, ny, nx)}
  <2>1. /\ NodeAt(0, 0, nx) = 0 /\ NodeAt(nx, 0, nx) = nx /\ NodeAt(0, ny, nx) = ny * (nx + 1)
        /\ NodeAt(nx, ny, nx) = (nx + 1) * (ny + 1) - 1
    BY DEF NodeAt, WideGrid
  <2> QED BY <2>1 DEF CornerNodes
<1> QED BY <1>1, <1>2, <1>3

\* Where the velocity is prescribed, the kernel assigns 0.
LEMMA ZerosFill ==
  ASSUME NEW a \in VelocityArrays, NEW S \in SUBSET Places("node"), \A p \in S : Held(a, p),
         NEW nodes, nodes = {At("node", p) : p \in S}
  PROVE  Fills(a, S, Zeros(nodes))
<1>1. KindOf(a) = "node"
  BY KindsOfArrays DEF VelocityArrays
<1>2. \A p \in S : Right(a, p) = Zero
  BY DEF Right
<1>3. ASSUME NEW s \in Zeros(nodes) PROVE \E p \in S : s[1] = At("node", p) /\ s[2] = Right(a, p)
  <2>1. PICK n \in nodes : s = <<n, Zero>>
    BY DEF Zeros
  <2>2. PICK p \in S : n = At("node", p)
    OBVIOUS
  <2> QED BY <1>2, <2>1, <2>2
<1>4. ASSUME NEW p \in S PROVE \E s \in Zeros(nodes) : s[1] = At("node", p)
  <2>1. <<At("node", p), Zero>> \in Zeros(nodes)
    BY DEF Zeros
  <2> QED BY <2>1
<1> QED BY <1>1, <1>3, <1>4 DEF Fills

\* The nodes of a seam are the same point of the grid without an edge.
LEMMA SeamFolds ==
  ASSUME WideGrid
  PROVE  /\ ~WallsX => \A y : Fold("node", <<nx, y>>) = Fold("node", <<0, y>>)
         /\ ~WallsY => \A x : Fold("node", <<x, ny>>) = Fold("node", <<x, 0>>)
<1>1. nx \in Int /\ ny \in Int /\ 0 \in 0 .. nx - 1 /\ 0 \in 0 .. ny - 1
      /\ StaggeredX("node") /\ StaggeredY("node")
  BY DEF WideGrid, StaggeredX, StaggeredY
<1>2. ASSUME ~WallsX PROVE Folded(nx, nx, WallsX, StaggeredX("node")) = Folded(0, nx, WallsX, StaggeredX("node"))
  BY <1>1, <1>2, FoldedXNear
<1>3. ASSUME ~WallsY PROVE Folded(ny, ny, WallsY, StaggeredY("node")) = Folded(0, ny, WallsY, StaggeredY("node"))
  BY <1>1, <1>3, FoldedYNear
<1> QED BY <1>2, <1>3 DEF Fold

\* The two nodes of a left and right pair get the velocity of the point they are.
LEMMA SeamSides ==
  ASSUME WideGrid, NEW a \in VelocityArrays, ~WallsX,
         agree => \A b \in L!Inputs \cup PressureArrays : Holds(b)
  PROVE  Fills(a, SidePlaces, L!PeriodicLeftRight(a))
<1> DEFINE value(iy) == L!VelocityAt(a, <<0, iy>>, CellAt(nx - 1, iy - 1, nx), CellAt(0, iy - 1, nx),
                                     CellAt(nx - 1, iy, nx), CellAt(0, iy, nx), NodeAt(0, iy, nx))
           stores == L!PeriodicLeftRight(a)
<1>1. /\ KindOf(a) = "node" /\ SidePlaces \subseteq Places("node")
      /\ \A x, y : At("node", <<x, y>>) = NodeAt(x, y, nx)
  BY KindsOfArrays, EdgePlaces DEF VelocityArrays, At, StaggeredX
<1>2. ASSUME NEW iy \in Inner, agree
      PROVE  value(iy) = Right(a, <<0, iy>>) /\ value(iy) = Right(a, <<nx, iy>>)
  <2>1. /\ 0 \in 0 .. nx /\ iy \in 0 .. ny /\ nx - 1 \in 0 .. nx - 1 /\ 0 \in 0 .. nx - 1
        /\ iy - 1 \in 0 .. ny - 1 /\ iy \in 0 .. ny - 1
    BY DEF Inner, WideGrid
  <2>2. AcrossX(0 - 1) = nx - 1 /\ AcrossX(0) = 0 /\ AcrossY(iy - 1) = iy - 1 /\ AcrossY(iy) = iy
    BY <2>1, AcrossNear
  <2>3. value(iy) = Fold("node", <<0, iy>>)
    BY <1>2, <2>1, <2>2, VelocityFound
  <2>4. ~Held(a, <<0, iy>>) /\ ~Held(a, <<nx, iy>>)
    BY DEF Held, OnWallX, OnWallY, VelocityArrays, Inner
  <2> QED BY <1>1, <2>3, <2>4, SeamFolds DEF Right
<1>3. ASSUME NEW iy \in Inner
      PROVE  /\ L!Leftmost(iy) = NodeAt(0, iy, nx) /\ L!Rightmost(iy) = NodeAt(nx, iy, nx)
             /\ L!NodeCellM1M1(NodeAt(nx, iy, nx), iy, nx) = CellAt(nx - 1, iy - 1, nx)
             /\ L!NodeCellP1M1(NodeAt(0, iy, nx), iy, nx) = CellAt(0, iy - 1, nx)
             /\ L!NodeCellM1P1(NodeAt(nx, iy, nx), iy, nx) = CellAt(nx - 1, iy, nx)
             /\ L!NodeCellP1P1(NodeAt(0, iy, nx), iy, nx) = CellAt(0, iy, nx)
  <2>1. iy \in Int /\ nx \in Int /\ 0 \in Int /\ iy \in 0 .. ny
    BY DEF Inner, WideGrid
  <2> QED BY <2>1, NodeMaps, SameMaps, EdgeElements
<1> HIDE DEF value
<1>4. \A s \in stores : \E iy \in Inner : s \in {<<NodeAt(0, iy, nx), value(iy)>>, <<NodeAt(nx, iy, nx), value(iy)>>}
  BY <1>3 DEF L!PeriodicLeftRight, value, Inner
<1>5. \A iy \in Inner : <<NodeAt(0, iy, nx), value(iy)>> \in stores /\ <<NodeAt(nx, iy, nx), value(iy)>> \in stores
  BY <1>3 DEF L!PeriodicLeftRight, value, Inner
<1> HIDE DEF stores
<1>6. ASSUME NEW s \in stores
      PROVE  \E p \in SidePlaces : s[1] = At("node", p) /\ (agree => s[2] = Right(a, p))
  <2>1. PICK iy \in Inner : s \in {<<NodeAt(0, iy, nx), value(iy)>>, <<NodeAt(nx, iy, nx), value(iy)>>}
    BY <1>4
  <2>2. <<0, iy>> \in SidePlaces /\ <<nx, iy>> \in SidePlaces
    BY DEF SidePlaces
  <2> QED BY <1>1, <1>2, <2>1, <2>2
<1>7. ASSUME NEW p \in SidePlaces PROVE \E s \in stores : s[1] = At("node", p)
  <2>1. PICK iy \in Inner : p = <<0, iy>> \/ p = <<nx, iy>>
    BY DEF SidePlaces
  <2>2. <<NodeAt(0, iy, nx), value(iy)>> \in stores /\ <<NodeAt(nx, iy, nx), value(iy)>> \in stores
    BY <1>5
  <2> QED BY <1>1, <2>1, <2>2
<1> QED BY <1>1, <1>6, <1>7 DEF Fills, stores

\* So do the two nodes of a bottom and top pair, and the four corners of a torus.
LEMMA SeamEnds ==
  ASSUME WideGrid, NEW a \in VelocityArrays, ~WallsX, ~WallsY,
         agree => \A b \in L!Inputs \cup PressureArrays : Holds(b)
  PROVE  Fills(a, EndPlaces, L!PeriodicBottomTop(a))
<1> DEFINE value(ix) == L!VelocityAt(a, <<ix, 0>>, CellAt(ix - 1, ny - 1, nx), CellAt(ix, ny - 1, nx),
                                     CellAt(ix - 1, 0, nx), CellAt(ix, 0, nx), NodeAt(ix, 0, nx))
           stores == L!PeriodicBottomTop(a)
           C == 1 .. nx - 1
<1>1. /\ KindOf(a) = "node" /\ EndPlaces \subseteq Places("node")
      /\ \A x, y : At("node", <<x, y>>) = NodeAt(x, y, nx)
  BY KindsOfArrays, EdgePlaces DEF VelocityArrays, At, StaggeredX
<1>2. ASSUME NEW ix \in C, agree
      PROVE  value(ix) = Right(a, <<ix, 0>>) /\ value(ix) = Right(a, <<ix, ny>>)
  <2>1. /\ ix \in 0 .. nx /\ 0 \in 0 .. ny /\ ix - 1 \in 0 .. nx - 1 /\ ix \in 0 .. nx - 1
        /\ ny - 1 \in 0 .. ny - 1 /\ 0 \in 0 .. ny - 1
    BY DEF WideGrid
  <2>2. AcrossX(ix - 1) = ix - 1 /\ AcrossX(ix) = ix /\ AcrossY(0 - 1) = ny - 1 /\ AcrossY(0) = 0
    BY <2>1, AcrossNear
  <2>3. value(ix) = Fold("node", <<ix, 0>>)
    BY <1>2, <2>1, <2>2, VelocityFound
  <2>4. ~Held(a, <<ix, 0>>) /\ ~Held(a, <<ix, ny>>)
    BY DEF Held, OnWallX, OnWallY, VelocityArrays
  <2> QED BY <1>1, <2>3, <2>4, SeamFolds DEF Right
<1>3. ASSUME NEW ix \in C
      PROVE  /\ L!Bottom(ix) = NodeAt(ix, 0, nx) /\ L!Top(ix) = NodeAt(ix, ny, nx)
             /\ L!NodeCellM1M1(NodeAt(ix, ny, nx), ny, nx) = CellAt(ix - 1, ny - 1, nx)
             /\ L!NodeCellP1M1(NodeAt(ix, ny, nx), ny, nx) = CellAt(ix, ny - 1, nx)
             /\ L!NodeCellM1P1(NodeAt(ix, 0, nx), 0, nx) = CellAt(ix - 1, 0, nx)
             /\ L!NodeCellP1P1(NodeAt(ix, 0, nx), 0, nx) = CellAt(ix, 0, nx)
  <2>1. ix \in Int /\ ny \in Int /\ nx \in Int /\ 0 \in Int /\ ix \in 0 .. nx
    BY DEF WideGrid
  <2> QED BY <2>1, NodeMaps, SameMaps, EdgeElements
<1> HIDE DEF value
<1>4. \A s \in stores : \E ix \in C : s \in {<<NodeAt(ix, 0, nx), value(ix)>>, <<NodeAt(ix, ny, nx), value(ix)>>}
  BY <1>3 DEF L!PeriodicBottomTop, value
<1>5. \A ix \in C : <<NodeAt(ix, 0, nx), value(ix)>> \in stores /\ <<NodeAt(ix, ny, nx), value(ix)>> \in stores
  BY <1>3 DEF L!PeriodicBottomTop, value
<1>6. \A ix \in C : <<ix, 0>> \in EndPlaces /\ <<ix, ny>> \in EndPlaces
  BY DEF EndPlaces
<1>7. \A p \in EndPlaces : \E ix \in C : p = <<ix, 0>> \/ p = <<ix, ny>>
  BY DEF EndPlaces
<1> HIDE DEF stores, C
<1>8. ASSUME NEW s \in stores
      PROVE  \E p \in EndPlaces : s[1] = At("node", p) /\ (agree => s[2] = Right(a, p))
  <2>1. PICK ix \in C : s \in {<<NodeAt(ix, 0, nx), value(ix)>>, <<NodeAt(ix, ny, nx), value(ix)>>}
    BY <1>4
  <2>2. agree => value(ix) = Right(a, <<ix, 0>>) /\ value(ix) = Right(a, <<ix, ny>>)
    BY <1>2
  <2>3. <<ix, 0>> \in EndPlaces /\ <<ix, ny>> \in EndPlaces
    BY <1>6
  <2>4. CASE s = <<NodeAt(ix, 0, nx), value(ix)>>
    <3>1. s[1] = At("node", <<ix, 0>>) /\ (agree => s[2] = Right(a, <<ix, 0>>))
      BY <1>1, <2>2, <2>4
    <3> QED BY <2>3, <3>1
  <2>5. CASE s = <<NodeAt(ix, ny, nx), value(ix)>>
    <3>1. s[1] = At("node", <<ix, ny>>) /\ (agree => s[2] = Right(a, <<ix, ny>>))
      BY <1>1, <2>2, <2>5
    <3> QED BY <2>3, <3>1
  <2> QED BY <2>1, <2>4, <2>5
<1>9. ASSUME NEW p \in EndPlaces PROVE \E s \in stores : s[1] = At("node", p)
  <2>1. PICK ix \in C : p = <<ix, 0>> \/ p = <<ix, ny>>
    BY <1>7
  <2>2. <<NodeAt(ix, 0, nx), value(ix)>> \in stores /\ <<NodeAt(ix, ny, nx), value(ix)>> \in stores
    BY <1>5
  <2> QED BY <1>1, <2>1, <2>2
<1> QED BY <1>1, <1>8, <1>9 DEF Fills, stores

LEMMA SeamCorners ==
  ASSUME WideGrid, NEW a \in VelocityArrays, ~WallsX, ~WallsY,
         agree => \A b \in L!Inputs \cup PressureArrays : Holds(b)
  PROVE  Fills(a, CornerPlaces, L!PeriodicCorners(a))
<1> DEFINE value == L!VelocityAt(a, <<0, 0>>, CellAt(nx - 1, ny - 1, nx), CellAt(0, ny - 1, nx),
                                 CellAt(nx - 1, 0, nx), CellAt(0, 0, nx), NodeAt(0, 0, nx))
<1>1. /\ KindOf(a) = "node" /\ CornerPlaces \subseteq Places("node")
      /\ \A x, y : At("node", <<x, y>>) = NodeAt(x, y, nx)
  BY KindsOfArrays, EdgePlaces DEF VelocityArrays, At, StaggeredX
<1>2. ASSUME agree PROVE \A p \in CornerPlaces : value = Right(a, p)
  <2>1. /\ 0 \in 0 .. nx /\ 0 \in 0 .. ny /\ nx - 1 \in 0 .. nx - 1 /\ 0 \in 0 .. nx - 1
        /\ ny - 1 \in 0 .. ny - 1 /\ 0 \in 0 .. ny - 1
    BY DEF WideGrid
  <2>2. AcrossX(0 - 1) = nx - 1 /\ AcrossX(0) = 0 /\ AcrossY(0 - 1) = ny - 1 /\ AcrossY(0) = 0
    BY <2>1, AcrossNear
  <2>3. value = Fold("node", <<0, 0>>)
    BY <1>2, <2>1, <2>2, VelocityFound
  <2>4. \A p : ~Held(a, p)
    BY DEF Held, OnWallX, OnWallY, VelocityArrays
  <2>5. \A p \in CornerPlaces : Fold("node", p) = Fold("node", <<0, 0>>)
    BY SeamFolds DEF CornerPlaces
  <2> QED BY <1>1, <2>3, <2>4, <2>5 DEF Right
<1>3. /\ ny * nx - 1 = CellAt(nx - 1, ny - 1, nx) /\ (ny - 1) * nx = CellAt(0, ny - 1, nx)
      /\ nx - 1 = CellAt(nx - 1, 0, nx) /\ CellAt(0, 0, nx) = 0 /\ NodeAt(0, 0, nx) = 0
  BY DEF WideGrid, CellAt, NodeAt
<1>4. L!PeriodicCorners(a) = {<<n, value>> : n \in CornerNodes}
  BY <1>3, SameReads DEF L!PeriodicCorners
<1> HIDE DEF value
<1>5. /\ \A n \in CornerNodes : \E p \in CornerPlaces : n = At("node", p)
      /\ \A p \in CornerPlaces : At("node", p) \in CornerNodes
  BY <1>1, EdgeElements DEF CornerPlaces
<1> DEFINE stores == L!PeriodicCorners(a)
<1>6. ASSUME NEW s \in stores
      PROVE  \E p \in CornerPlaces : s[1] = At("node", p) /\ (agree => s[2] = Right(a, p))
  <2>1. s[1] \in CornerNodes /\ s[2] = value
    BY <1>4
  <2>2. PICK p \in CornerPlaces : s[1] = At("node", p)
    BY <1>5, <2>1
  <2> QED BY <1>2, <2>1, <2>2
<1>7. ASSUME NEW p \in CornerPlaces PROVE \E s \in stores : s[1] = At("node", p)
  <2>1. <<At("node", p), value>> \in stores
    BY <1>4, <1>5
  <2> QED BY <2>1
<1> QED BY <1>1, <1>6, <1>7 DEF Fills

\* At a wall, the cells outside mirror those inside: the velocity along the bottom and the
\* top, and along the left and the right side.
LEMMA WallEnds ==
  ASSUME WideGrid, WallsX, WallsY, agree => \A b \in L!Inputs \cup PressureArrays : Holds(b)
  PROVE  Fills("predicted_u", EndPlaces, L!WallUx)
<1> DEFINE a == "predicted_u"
           row(iy) == IF iy = 0 THEN 0 ELSE ny - 1
           value(ix, iy) == L!VelocityAt(a, <<ix, iy>>,
                              CellAt(ix - 1, row(iy), nx), CellAt(ix, row(iy), nx),
                              CellAt(ix - 1, row(iy), nx), CellAt(ix, row(iy), nx), NodeAt(ix, iy, nx))
           stores == L!WallUx
           C == 1 .. nx - 1
<1>1. /\ KindOf(a) = "node" /\ EndPlaces \subseteq Places("node")
      /\ \A x, y : At("node", <<x, y>>) = NodeAt(x, y, nx)
  BY KindsOfArrays, EdgePlaces DEF At, StaggeredX
<1>2. ASSUME NEW ix \in C, NEW iy \in {0, ny}, agree
      PROVE  value(ix, iy) = Right(a, <<ix, iy>>)
  <2>1. /\ ix \in 0 .. nx /\ iy \in 0 .. ny /\ ix - 1 \in 0 .. nx - 1 /\ ix \in 0 .. nx - 1
        /\ row(iy) \in 0 .. ny - 1 /\ a \in VelocityArrays
    BY DEF WideGrid, VelocityArrays
  <2>2. AcrossX(ix - 1) = ix - 1 /\ AcrossX(ix) = ix
    BY <2>1, AcrossNear
  <2>3. AcrossY(iy - 1) = row(iy) /\ AcrossY(iy) = row(iy)
    <3>1. CASE iy = 0
      <4>1. 0 \in 0 .. ny - 1
        BY DEF WideGrid
      <4> QED BY <3>1, <4>1, AcrossNear
    <3>2. CASE iy = ny
      <4>1. ny - 1 \in 0 .. ny - 1 /\ ny # 0
        BY DEF WideGrid
      <4> QED BY <3>2, <4>1, AcrossNear
    <3> QED BY <3>1, <3>2
  <2> HIDE DEF a
  <2>4. value(ix, iy) = Fold("node", <<ix, iy>>)
    <3> HIDE DEF row
    <3> QED BY <1>2, <2>1, <2>2, <2>3, VelocityFound
  <2>5. ~Held(a, <<ix, iy>>)
    BY DEF Held, OnWallX, OnWallY, a
  <2> QED BY <1>1, <2>4, <2>5 DEF Right
<1>3. ASSUME NEW ix \in C
      PROVE  /\ L!Bottom(ix) = NodeAt(ix, 0, nx) /\ L!Top(ix) = NodeAt(ix, ny, nx)
             /\ L!NodeCellM1M1(NodeAt(ix, ny, nx), ny, nx) = CellAt(ix - 1, row(ny), nx)
             /\ L!NodeCellP1M1(NodeAt(ix, ny, nx), ny, nx) = CellAt(ix, row(ny), nx)
             /\ L!NodeCellM1P1(NodeAt(ix, 0, nx), 0, nx) = CellAt(ix - 1, row(0), nx)
             /\ L!NodeCellP1P1(NodeAt(ix, 0, nx), 0, nx) = CellAt(ix, row(0), nx)
  <2>1. ix \in Int /\ ny \in Int /\ nx \in Int /\ 0 \in Int /\ ix \in 0 .. nx /\ ny # 0
    BY DEF WideGrid
  <2> QED BY <2>1, NodeMaps, SameMaps, EdgeElements
<1> HIDE DEF row, C
<1>4. stores = {<<NodeAt(ix, 0, nx), value(ix, 0)>> : ix \in C} \cup {<<NodeAt(ix, ny, nx), value(ix, ny)>> : ix \in C}
  BY <1>3 DEF L!WallUx, C
<1>5. \A ix \in C : <<ix, 0>> \in EndPlaces /\ <<ix, ny>> \in EndPlaces
  BY DEF EndPlaces, C
<1>6. \A p \in EndPlaces : \E ix \in C, iy \in {0, ny} : p = <<ix, iy>>
  BY DEF EndPlaces, C
<1> HIDE DEF stores, value, a
<1>7. ASSUME NEW s \in stores
      PROVE  \E p \in EndPlaces : s[1] = At("node", p) /\ (agree => s[2] = Right(a, p))
  <2>1. PICK ix \in C, iy \in {0, ny} : s = <<NodeAt(ix, iy, nx), value(ix, iy)>>
    BY <1>4
  <2>2. s[1] = At("node", <<ix, iy>>) /\ (agree => s[2] = Right(a, <<ix, iy>>)) /\ <<ix, iy>> \in EndPlaces
    BY <1>1, <1>2, <1>5, <2>1
  <2> QED BY <2>2
<1>8. ASSUME NEW p \in EndPlaces PROVE \E s \in stores : s[1] = At("node", p)
  <2>1. PICK ix \in C, iy \in {0, ny} : p = <<ix, iy>>
    BY <1>6
  <2>2. <<NodeAt(ix, iy, nx), value(ix, iy)>> \in stores
    BY <1>4
  <2> QED BY <1>1, <2>1, <2>2
<1> QED BY <1>1, <1>7, <1>8 DEF Fills, stores, a

LEMMA WallSides ==
  ASSUME WideGrid, WallsX, WallsY, agree => \A b \in L!Inputs \cup PressureArrays : Holds(b)
  PROVE  Fills("predicted_v", SidePlaces, L!WallUy)
<1> DEFINE a == "predicted_v"
           column(ix) == IF ix = 0 THEN 0 ELSE nx - 1
           value(ix, iy) == L!VelocityAt(a, <<ix, iy>>,
                              CellAt(column(ix), iy - 1, nx), CellAt(column(ix), iy - 1, nx),
                              CellAt(column(ix), iy, nx), CellAt(column(ix), iy, nx), NodeAt(ix, iy, nx))
           stores == L!WallUy
           C == Inner
<1>1. /\ KindOf(a) = "node" /\ SidePlaces \subseteq Places("node")
      /\ \A x, y : At("node", <<x, y>>) = NodeAt(x, y, nx)
  BY KindsOfArrays, EdgePlaces DEF At, StaggeredX
<1>2. ASSUME NEW ix \in {0, nx}, NEW iy \in C, agree
      PROVE  value(ix, iy) = Right(a, <<ix, iy>>)
  <2>1. /\ ix \in 0 .. nx /\ iy \in 0 .. ny /\ iy - 1 \in 0 .. ny - 1 /\ iy \in 0 .. ny - 1
        /\ column(ix) \in 0 .. nx - 1 /\ a \in VelocityArrays
    BY DEF WideGrid, VelocityArrays, Inner
  <2>2. AcrossY(iy - 1) = iy - 1 /\ AcrossY(iy) = iy
    BY <2>1, AcrossNear
  <2>3. AcrossX(ix - 1) = column(ix) /\ AcrossX(ix) = column(ix)
    <3>1. CASE ix = 0
      <4>1. 0 \in 0 .. nx - 1
        BY DEF WideGrid
      <4> QED BY <3>1, <4>1, AcrossNear
    <3>2. CASE ix = nx
      <4>1. nx - 1 \in 0 .. nx - 1 /\ nx # 0
        BY DEF WideGrid
      <4> QED BY <3>2, <4>1, AcrossNear
    <3> QED BY <3>1, <3>2
  <2> HIDE DEF a
  <2>4. value(ix, iy) = Fold("node", <<ix, iy>>)
    <3> HIDE DEF column
    <3> QED BY <1>2, <2>1, <2>2, <2>3, VelocityFound
  <2>5. ~Held(a, <<ix, iy>>)
    BY DEF Held, OnWallX, OnWallY, a, Inner
  <2> QED BY <1>1, <2>4, <2>5 DEF Right
<1>3. ASSUME NEW iy \in C
      PROVE  /\ L!Leftmost(iy) = NodeAt(0, iy, nx) /\ L!Rightmost(iy) = NodeAt(nx, iy, nx)
             /\ L!NodeCellM1M1(NodeAt(nx, iy, nx), iy, nx) = CellAt(column(nx), iy - 1, nx)
             /\ L!NodeCellM1P1(NodeAt(nx, iy, nx), iy, nx) = CellAt(column(nx), iy, nx)
             /\ L!NodeCellP1M1(NodeAt(0, iy, nx), iy, nx) = CellAt(column(0), iy - 1, nx)
             /\ L!NodeCellP1P1(NodeAt(0, iy, nx), iy, nx) = CellAt(column(0), iy, nx)
  <2>1. iy \in Int /\ ny \in Int /\ nx \in Int /\ 0 \in Int /\ iy \in 0 .. ny /\ nx # 0
    BY DEF WideGrid, Inner
  <2> QED BY <2>1, NodeMaps, SameMaps, EdgeElements
<1>4. C = 1 .. ny - 1
  BY DEF Inner
<1> HIDE DEF column, C
<1>5. stores = {<<NodeAt(0, iy, nx), value(0, iy)>> : iy \in C} \cup {<<NodeAt(nx, iy, nx), value(nx, iy)>> : iy \in C}
  BY <1>3, <1>4 DEF L!WallUy
<1>6. \A iy \in C : <<0, iy>> \in SidePlaces /\ <<nx, iy>> \in SidePlaces
  BY DEF SidePlaces, C
<1>7. \A p \in SidePlaces : \E ix \in {0, nx}, iy \in C : p = <<ix, iy>>
  BY DEF SidePlaces, C
<1> HIDE DEF stores, value, a
<1>8. ASSUME NEW s \in stores
      PROVE  \E p \in SidePlaces : s[1] = At("node", p) /\ (agree => s[2] = Right(a, p))
  <2>1. PICK ix \in {0, nx}, iy \in C : s = <<NodeAt(ix, iy, nx), value(ix, iy)>>
    BY <1>5
  <2>2. s[1] = At("node", <<ix, iy>>) /\ (agree => s[2] = Right(a, <<ix, iy>>)) /\ <<ix, iy>> \in SidePlaces
    BY <1>1, <1>2, <1>6, <2>1
  <2> QED BY <2>2
<1>9. ASSUME NEW p \in SidePlaces PROVE \E s \in stores : s[1] = At("node", p)
  <2>1. PICK ix \in {0, nx}, iy \in C : p = <<ix, iy>>
    BY <1>7
  <2>2. <<NodeAt(ix, iy, nx), value(ix, iy)>> \in stores
    BY <1>5
  <2> QED BY <1>1, <2>1, <2>2
<1> QED BY <1>1, <1>8, <1>9 DEF Fills, stores, a

\* The boundary kernel fills the nodes on the boundary, whatever the boundary condition.
LEMMA BoundaryFills ==
  ASSUME WideGrid, NEW a \in VelocityArrays,
         agree => \A b \in L!Inputs \cup PressureArrays : Holds(b)
  PROVE  Fills(a, EdgeNodes, L!BoundaryStores(a))
<1>1. /\ EdgeNodes = CornerPlaces \cup SidePlaces \cup EndPlaces
      /\ CornerPlaces \in SUBSET Places("node") /\ SidePlaces \in SUBSET Places("node")
      /\ EndPlaces \in SUBSET Places("node") /\ \A x, y : At("node", <<x, y>>) = NodeAt(x, y, nx)
  BY EdgePlaces DEF EdgeNodes, At, StaggeredX
<1>2. /\ CornerNodes = {At("node", p) : p \in CornerPlaces}
      /\ L!LeftAndRight = {At("node", p) : p \in SidePlaces}
      /\ L!BottomAndTop = {At("node", p) : p \in EndPlaces}
  <2>1. CornerNodes = {At("node", p) : p \in CornerPlaces}
    BY <1>1, EdgeElements DEF CornerPlaces
  <2>2. L!LeftAndRight = {NodeAt(0, iy, nx) : iy \in Inner} \cup {NodeAt(nx, iy, nx) : iy \in Inner}
    <3>1. \A iy \in Inner : iy \in 0 .. ny
      BY DEF Inner, WideGrid
    <3> QED BY <3>1, EdgeElements DEF L!LeftAndRight, Inner
  <2>3. L!BottomAndTop = {NodeAt(ix, 0, nx) : ix \in 1 .. nx - 1} \cup {NodeAt(ix, ny, nx) : ix \in 1 .. nx - 1}
    <3>1. \A ix \in 1 .. nx - 1 : ix \in 0 .. nx
      BY DEF WideGrid
    <3> QED BY <3>1, EdgeElements DEF L!BottomAndTop
  <2>4. L!LeftAndRight = {At("node", p) : p \in SidePlaces}
    <3> DEFINE C == Inner
    <3>1. /\ \A p \in SidePlaces : \E iy \in C : p = <<0, iy>> \/ p = <<nx, iy>>
          /\ \A iy \in C : <<0, iy>> \in SidePlaces /\ <<nx, iy>> \in SidePlaces
      BY DEF SidePlaces
    <3> HIDE DEF C
    <3>2. L!LeftAndRight = {NodeAt(0, iy, nx) : iy \in C} \cup {NodeAt(nx, iy, nx) : iy \in C}
      BY <2>2 DEF C
    <3>3. \A p \in SidePlaces : At("node", p) \in L!LeftAndRight
      BY <1>1, <3>1, <3>2
    <3>4. ASSUME NEW n \in L!LeftAndRight PROVE \E p \in SidePlaces : n = At("node", p)
      <4>1. PICK iy \in C : n = NodeAt(0, iy, nx) \/ n = NodeAt(nx, iy, nx)
        BY <3>2
      <4> QED BY <1>1, <3>1, <4>1
    <3> QED BY <3>3, <3>4
  <2>5. L!BottomAndTop = {At("node", p) : p \in EndPlaces}
    <3> DEFINE C == 1 .. nx - 1
    <3>1. /\ \A p \in EndPlaces : \E ix \in C : p = <<ix, 0>> \/ p = <<ix, ny>>
          /\ \A ix \in C : <<ix, 0>> \in EndPlaces /\ <<ix, ny>> \in EndPlaces
      BY DEF EndPlaces
    <3>2. L!BottomAndTop = {NodeAt(ix, 0, nx) : ix \in C} \cup {NodeAt(ix, ny, nx) : ix \in C}
      BY <2>3
    <3> HIDE DEF C
    <3>3. \A p \in EndPlaces : At("node", p) \in L!BottomAndTop
      BY <1>1, <3>1, <3>2
    <3>4. ASSUME NEW n \in L!BottomAndTop PROVE \E p \in EndPlaces : n = At("node", p)
      <4>1. PICK ix \in C : n = NodeAt(ix, 0, nx) \/ n = NodeAt(ix, ny, nx)
        BY <3>2
      <4> QED BY <1>1, <3>1, <4>1
    <3> QED BY <3>3, <3>4
  <2> QED BY <2>1, <2>4, <2>5
<1>3. CASE BoundaryConditions = "RayleighTaylor"
  <2>1. ~WallsX /\ WallsY
    BY <1>3 DEF WallsX, WallsY
  <2>2. \A p \in CornerPlaces \cup EndPlaces : Held(a, p)
    BY <2>1 DEF CornerPlaces, EndPlaces, Held, OnWallX, OnWallY, VelocityArrays
  <2>3. Fills(a, CornerPlaces, Zeros(CornerNodes)) /\ Fills(a, EndPlaces, Zeros(L!BottomAndTop))
    BY <1>1, <1>2, <2>2, ZerosFill
  <2>4. Fills(a, SidePlaces, L!PeriodicLeftRight(a))
    BY <2>1, SeamSides
  <2>5. L!BoundaryStores(a) = Zeros(CornerNodes) \cup L!PeriodicLeftRight(a) \cup Zeros(L!BottomAndTop)
    BY <1>3, SameReads DEF L!BoundaryStores, L!RtBoundaryVelocityPrediction
  <2> QED BY <1>1, <2>3, <2>4, <2>5, FillsTogether
<1>4. CASE BoundaryConditions = "Wall"
  <2>1. WallsX /\ WallsY
    BY <1>4 DEF WallsX, WallsY
  <2>2. CASE a = "predicted_u"
    <3>1. \A p \in CornerPlaces \cup SidePlaces : Held(a, p)
      BY <2>1, <2>2 DEF CornerPlaces, SidePlaces, Held, OnWallX, OnWallY
    <3>2. Fills(a, CornerPlaces, Zeros(CornerNodes)) /\ Fills(a, SidePlaces, Zeros(L!LeftAndRight))
      BY <1>1, <1>2, <3>1, ZerosFill
    <3>3. Fills(a, EndPlaces, L!WallUx)
      BY <2>1, <2>2, WallEnds
    <3>4. L!BoundaryStores(a) = Zeros(CornerNodes) \cup Zeros(L!LeftAndRight) \cup L!WallUx
      BY <1>4, <2>2, SameReads DEF L!BoundaryStores, L!WallBoundaryVelocityPrediction
    <3> QED BY <1>1, <3>2, <3>3, <3>4, FillsTogether
  <2>3. CASE a = "predicted_v"
    <3>1. \A p \in CornerPlaces \cup EndPlaces : Held(a, p)
      BY <2>1, <2>3 DEF CornerPlaces, EndPlaces, Held, OnWallX, OnWallY
    <3>2. Fills(a, CornerPlaces, Zeros(CornerNodes)) /\ Fills(a, EndPlaces, Zeros(L!BottomAndTop))
      BY <1>1, <1>2, <3>1, ZerosFill
    <3>3. Fills(a, SidePlaces, L!WallUy)
      BY <2>1, <2>3, WallSides
    <3>4. L!BoundaryStores(a) = Zeros(CornerNodes) \cup L!WallUy \cup Zeros(L!BottomAndTop)
      BY <1>4, <2>3, SameReads DEF L!BoundaryStores, L!WallBoundaryVelocityPrediction
    <3> QED BY <1>1, <3>2, <3>3, <3>4, FillsTogether
  <2> QED BY <2>2, <2>3 DEF VelocityArrays
<1>5. CASE BoundaryConditions \notin {"RayleighTaylor", "Wall"}
  <2>1. ~WallsX /\ ~WallsY
    BY <1>5 DEF WallsX, WallsY
  <2>2. /\ Fills(a, CornerPlaces, L!PeriodicCorners(a)) /\ Fills(a, SidePlaces, L!PeriodicLeftRight(a))
        /\ Fills(a, EndPlaces, L!PeriodicBottomTop(a))
    BY <2>1, SeamCorners, SeamSides, SeamEnds
  <2>3. L!BoundaryStores(a) = L!PeriodicCorners(a) \cup L!PeriodicLeftRight(a) \cup L!PeriodicBottomTop(a)
    BY <1>5 DEF L!BoundaryStores, L!PeriodicBoundaryVelocityPrediction
  <2> QED BY <1>1, <2>2, <2>3, FillsTogether
<1> QED BY <1>3, <1>4, <1>5

-----------------------------------------------------------------------------
\* The inductive invariant.  The places of an array that the driver has yet to store: the
\* rows left of the kernel that fills it, the nodes on the boundary until the boundary
\* kernel has run, everything while the kernels before it run.
Awaited(a) ==
  {p \in Places(KindOf(a)) :
     \/ a \in PressureArrays /\ pc = "pressure" /\ p[2] \in todo
     \/ a \in VelocityArrays /\ pc = "pressure"
     \/ a \in VelocityArrays /\ pc = "velocity" /\ (OnEdge(p) \/ p[2] \in todo)
     \/ a \in VelocityArrays /\ pc = "boundary" /\ OnEdge(p)
     \/ a = "e_lag" /\ pc \in {"pressure", "velocity", "boundary"}
     \/ a = "e_lag" /\ pc = "energy" /\ p[2] \in todo
     \/ a \in {"u_lag", "v_lag"} /\ pc \in {"pressure", "velocity", "boundary", "energy"}
     \/ a \in {"u_lag", "v_lag"} /\ pc = "correction" /\ p[2] \in todo}

\* The rows of the kernel that runs.
RowsInv ==
  \/ pc \in {"pressure", "energy"} /\ todo \subseteq CellRows
  \/ pc = "velocity" /\ todo \subseteq Inner
  \/ pc = "correction" /\ todo \subseteq NodeRows
  \/ pc \in {"boundary", "done"} /\ todo = {}

\* What is awaited is what memalign returned; what is not is right.
ContentsInv ==
  /\ L!Inputs \cup L!Scratch \subseteq DOMAIN mem
  /\ \A a \in L!Inputs \cup L!Scratch : DOMAIN mem[a] = 0 .. Size(KindOf(a)) - 1
  /\ \A a \in L!Scratch : \A p \in Awaited(a) : mem[a][At(KindOf(a), p)] = Garbage
  /\ agree => \A a \in L!Inputs : IsRight(mem, a)
  /\ agree => \A a \in L!Scratch : \A p \in Places(KindOf(a)) \ Awaited(a) :
                mem[a][At(KindOf(a), p)] = Right(a, p)

\* The drivers that are left; the Lagrangian one is always the first.
DriversInv ==
  drivers \in {<<"Lagrange", "X", "Y">>, <<"Lagrange", "Y", "X">>, <<"Lagrange", "Direct">>, <<"Lagrange">>,
               <<"X", "Y">>, <<"Y", "X">>, <<"Direct">>, <<"X">>, <<"Y">>, <<>>}

LagrangeInv ==
  /\ DriversInv
  /\ Running("Lagrange") => WideGrid /\ RowsInv /\ ContentsInv

LEMMA ScratchKinds ==
  /\ \A a \in L!Scratch \cup L!Inputs : KindOf(a) \in Kinds
  /\ \A a \in PressureArrays \cup {"e_lag"} : KindOf(a) = "cell"
  /\ \A a \in VelocityArrays \cup {"u_lag", "v_lag"} : KindOf(a) = "node"
  /\ L!Scratch = PressureArrays \cup VelocityArrays \cup {"e_lag", "u_lag", "v_lag"}
  /\ L!Scratch \cap L!Inputs = {}
  BY KindsOfArrays DEF L!Scratch, L!Inputs, PressureArrays, VelocityArrays, Kinds

\* The value of a place is never what memory held before.
LEMMA RightIsNotGarbage ==
  \A a, p : KindOf(a) \in Kinds /\ p \in Places(KindOf(a)) => Right(a, p) # Garbage
<1> SUFFICES ASSUME NEW a, NEW p, KindOf(a) \in Kinds, p \in Places(KindOf(a))
             PROVE  Right(a, p) # Garbage
  OBVIOUS
<1>1. \E x, y : p = <<x, y>>
  BY DEF Places
<1> QED BY <1>1 DEF Right, Fold, Garbage, Zero

\* What is right stays right.
RightKept ==
  \A a \in L!Scratch : \A p \in Places(KindOf(a)) :
    mem[a][At(KindOf(a), p)] = Right(a, p) => mem'[a][At(KindOf(a), p)] = Right(a, p)

\* A step of a kernel: it fills places S[a] of the arrays outs, that were awaited, and
\* leaves the others.
Filling(outs, S, T) ==
  /\ outs \subseteq L!Scratch
  /\ DOMAIN mem' = DOMAIN mem
  /\ \A a \in outs : /\ Fills(a, S[a], T[a]) /\ S[a] \subseteq Awaited(a)
                     /\ mem'[a] = Stored(mem[a], T[a])
                     /\ Awaited(a)' = Awaited(a) \ S[a]
  /\ \A a \in DOMAIN mem \ outs : mem'[a] = mem[a]
  /\ \A a \in L!Scratch \ outs : Awaited(a)' = Awaited(a)
  /\ UNCHANGED <<nx, ny, BoundaryConditions, agree>>

LEMMA KernelStep ==
  ASSUME WideGrid, ContentsInv, NEW outs, NEW S, NEW T, Filling(outs, S, T)
  PROVE  ContentsInv' /\ RightKept
<1>. USE DEF Filling
<1>1. ASSUME NEW a \in outs
      PROVE  /\ DOMAIN mem'[a] = DOMAIN mem[a]
             /\ \A p \in Places(KindOf(a)) \ S[a] : mem'[a][At(KindOf(a), p)] = mem[a][At(KindOf(a), p)]
             /\ agree => \A p \in S[a] : mem'[a][At(KindOf(a), p)] = Right(a, p)
  <2>1. KindOf(a) \in Kinds /\ DOMAIN mem[a] = 0 .. Size(KindOf(a)) - 1
    BY <1>1, ScratchKinds DEF ContentsInv
  <2>2. Fills(a, S[a], T[a]) /\ mem'[a] = Stored(mem[a], T[a])
    BY <1>1
  <2>3. /\ DOMAIN Stored(mem[a], T[a]) = DOMAIN mem[a]
        /\ \A p \in Places(KindOf(a)) \ S[a] :
             Stored(mem[a], T[a])[At(KindOf(a), p)] = mem[a][At(KindOf(a), p)]
        /\ agree => \A p \in S[a] : Stored(mem[a], T[a])[At(KindOf(a), p)] = Right(a, p)
    BY <2>1, <2>2, FilledPlaces, WideGridIsGrid
  <2> QED BY <2>2, <2>3
<1>2. \A a \in L!Inputs \cup (L!Scratch \ outs) : mem'[a] = mem[a]
  BY ScratchKinds DEF ContentsInv
<1>3. L!Inputs \cup L!Scratch \subseteq DOMAIN mem'
  BY DEF ContentsInv
<1>4. \A a \in L!Inputs \cup L!Scratch : DOMAIN mem'[a] = DOMAIN mem[a]
  BY <1>1, <1>2
<1>5. ASSUME NEW a \in L!Scratch, NEW p \in Awaited(a)'
      PROVE  mem'[a][At(KindOf(a), p)] = Garbage
  <2>1. p \in Awaited(a) /\ p \in Places(KindOf(a)) /\ (a \in outs => p \notin S[a])
    BY <1>5 DEF Awaited
  <2> QED BY <1>1, <1>2, <2>1 DEF ContentsInv
<1>6. ASSUME agree, NEW a \in L!Scratch, NEW p \in Places(KindOf(a)), p \notin Awaited(a)'
      PROVE  mem'[a][At(KindOf(a), p)] = Right(a, p)
  <2>1. p \notin Awaited(a) \/ (a \in outs /\ p \in S[a])
    BY <1>6
  <2>2. CASE a \in outs /\ p \in S[a]
    BY <1>1, <1>6, <2>2
  <2>3. CASE ~(a \in outs /\ p \in S[a])
    <3>1. mem[a][At(KindOf(a), p)] = Right(a, p)
      BY <1>6, <2>1, <2>3 DEF ContentsInv
    <3> QED BY <1>1, <1>2, <2>3, <3>1
  <2> QED BY <2>2, <2>3
<1>7. ContentsInv'
  <2>1. \A a \in L!Inputs \cup L!Scratch : (DOMAIN mem[a])' = 0 .. (Size(KindOf(a)) - 1)'
    BY <1>4, SameGridNext DEF ContentsInv
  <2>2. \A a \in L!Scratch : \A p \in Awaited(a)' : (mem[a][At(KindOf(a), p)])' = Garbage
    BY <1>5, SameGridNext
  <2>3. agree' => \A a \in L!Inputs : IsRight(mem, a)'
    BY <1>2, SameGridNext DEF ContentsInv, IsRight
  <2>4. agree' => \A a \in L!Scratch : \A p \in Places(KindOf(a))' \ Awaited(a)' :
                    (mem[a][At(KindOf(a), p)])' = Right(a, p)'
    BY <1>6, SameGridNext
  <2> QED BY <1>3, <2>1, <2>2, <2>3, <2>4 DEF ContentsInv
<1>8. ASSUME NEW a \in L!Scratch, NEW p \in Places(KindOf(a)), mem[a][At(KindOf(a), p)] = Right(a, p)
      PROVE  mem'[a][At(KindOf(a), p)] = Right(a, p)
  <2>1. CASE a \in outs /\ p \in S[a]
    <3>1. mem[a][At(KindOf(a), p)] = Garbage
      BY <2>1 DEF ContentsInv
    <3> QED BY <1>8, <3>1, ScratchKinds, RightIsNotGarbage
  <2>2. CASE ~(a \in outs /\ p \in S[a])
    BY <1>1, <1>2, <1>8, <2>2
  <2> QED BY <2>1, <2>2
<1> QED BY <1>7, <1>8 DEF RightKept

\* A kernel that has no row left hands over to the next.
LEMMA EmptyStep ==
  ASSUME WideGrid, ContentsInv, UNCHANGED <<nx, ny, BoundaryConditions, agree, mem>>,
         \A a \in L!Scratch : Awaited(a)' = Awaited(a)
  PROVE  ContentsInv' /\ RightKept
<1> DEFINE outs == {}
           none == <<>>
<1>1. Filling(outs, none, none)
  BY DEF Filling
<1> HIDE DEF outs, none
<1> QED BY <1>1, KernelStep

\* The kernel of the pressures.
LEMMA PressureStep ==
  ASSUME WideGrid, RowsInv, ContentsInv, UNCHANGED agree, L!LagrangePressurePredictedOptimised
  PROVE  RowsInv' /\ ContentsInv' /\ RightKept
<1>1. pc = "pressure" /\ todo \subseteq CellRows
  BY DEF L!LagrangePressurePredictedOptimised, RowsInv
<1>2. CASE todo = {}
  <2>1. /\ pc' = "velocity" /\ todo' = Inner
        /\ UNCHANGED <<nx, ny, BoundaryConditions, mem>>
    BY <1>2 DEF L!LagrangePressurePredictedOptimised, L!RowOf, Inner
  <2>2. ASSUME NEW a \in L!Scratch PROVE Awaited(a)' = Awaited(a)
    <3>1. \A p \in Places("node") : OnEdge(p) \/ p[2] \in Inner
      BY DEF Places, LastX, LastY, StaggeredX, StaggeredY, OnEdge, Inner, WideGrid
    <3> QED BY <1>1, <1>2, <2>1, <3>1, ScratchKinds, SameGridNext DEF Awaited, PressureArrays, VelocityArrays
  <2>3. RowsInv'
    BY <2>1, SameGridNext DEF RowsInv
  <2> QED BY <2>1, <2>2, <2>3, EmptyStep
<1>3. CASE todo # {}
  <2>1. PICK iy \in todo :
          /\ mem' = [a \in DOMAIN mem |-> IF a \in PressureArrays
                                         THEN L!Stored(mem[a], L!PressureStores(a, iy)) ELSE mem[a]]
          /\ pc' = IF todo = {iy} THEN "velocity" ELSE pc
          /\ todo' = IF todo = {iy} THEN Inner ELSE todo \ {iy}
          /\ UNCHANGED <<nx, ny, BoundaryConditions>>
    BY <1>3 DEF L!LagrangePressurePredictedOptimised, L!RowOf, L!RowDone, PressureArrays, Inner
  <2> DEFINE outs == PressureArrays
             S == [a \in outs |-> RowPlaces("cell", iy)]
             T == [a \in outs |-> L!PressureStores(a, iy)]
  <2>2. outs \subseteq L!Scratch /\ L!Scratch \subseteq DOMAIN mem
    BY DEF PressureArrays, L!Scratch, ContentsInv
  <2>3. ASSUME NEW a \in outs
        PROVE  Fills(a, S[a], T[a]) /\ S[a] \subseteq Awaited(a) /\ mem'[a] = Stored(mem[a], T[a])
               /\ Awaited(a)' = Awaited(a) \ S[a]
    <3>1. agree => \A b \in L!Inputs : Holds(b)
      BY DEF ContentsInv, Holds
    <3>2. Fills(a, S[a], T[a])
      BY <1>1, <3>1, PressureRow
    <3>3. mem'[a] = Stored(mem[a], T[a])
      BY <2>1, <2>2, SameValues
    <3>4. S[a] \subseteq Awaited(a) /\ Awaited(a)' = Awaited(a) \ S[a]
      BY <1>1, <2>1, ScratchKinds, SameGridNext DEF Awaited, RowPlaces, PressureArrays, VelocityArrays
    <3> QED BY <3>2, <3>3, <3>4
  <2>4. \A a \in DOMAIN mem \ outs : mem'[a] = mem[a]
    BY <2>1
  <2>5. ASSUME NEW a \in L!Scratch \ outs PROVE Awaited(a)' = Awaited(a)
    <3>1. \A p \in Places("node") : OnEdge(p) \/ p[2] \in Inner
      BY DEF Places, LastX, LastY, StaggeredX, StaggeredY, OnEdge, Inner, WideGrid
    <3> QED BY <1>1, <2>1, <3>1, ScratchKinds, SameGridNext DEF Awaited, PressureArrays, VelocityArrays
  <2>6. RowsInv'
    BY <1>1, <2>1, SameGridNext DEF RowsInv
  <2>7. DOMAIN mem' = DOMAIN mem
    BY <2>1
  <2> HIDE DEF outs, S, T
  <2>8. Filling(outs, S, T)
    BY <2>1, <2>2, <2>3, <2>4, <2>5, <2>7 DEF Filling
  <2> QED BY <2>6, <2>8, KernelStep
<1> QED BY <1>2, <1>3

\* The rows that an array of nodes, or of cells, has.
LEMMA PlacesRows ==
  ASSUME WideGrid
  PROVE  /\ \A p \in Places("node") : (OnEdge(p) \/ p[2] \in Inner) /\ p[2] \in NodeRows
         /\ \A p \in Places("cell") : p[2] \in CellRows
         /\ \A p : p[2] \in {0, ny} => OnEdge(p)
  BY DEF Places, LastX, LastY, StaggeredX, StaggeredY, OnEdge, Inner, NodeRows, CellRows, WideGrid

\* The arrays that the kernels before have filled are right all over.
LEMMA FilledBefore ==
  ASSUME ContentsInv, agree
  PROVE  /\ \A b \in L!Inputs : Holds(b)
         /\ pc # "pressure" => \A b \in PressureArrays : Holds(b)
         /\ pc \in {"energy", "correction"} => \A b \in VelocityArrays : Holds(b)
<1>1. \A b \in L!Inputs : Holds(b)
  BY DEF ContentsInv, Holds
<1>2. ASSUME NEW b \in L!Scratch, Awaited(b) = {} PROVE Holds(b)
  BY <1>2 DEF ContentsInv, Holds, IsRight
<1>3. ASSUME pc # "pressure", NEW b \in PressureArrays PROVE b \in L!Scratch /\ Awaited(b) = {}
  BY <1>3 DEF Awaited, PressureArrays, VelocityArrays, L!Scratch
<1>4. ASSUME pc \in {"energy", "correction"}, NEW b \in VelocityArrays PROVE b \in L!Scratch /\ Awaited(b) = {}
  BY <1>4 DEF Awaited, PressureArrays, VelocityArrays, L!Scratch
<1> QED BY <1>1, <1>2, <1>3, <1>4

\* The kernel of the velocities inside the grid.
LEMMA VelocityStep ==
  ASSUME WideGrid, RowsInv, ContentsInv, UNCHANGED agree, L!LagrangeVelocityPredicted
  PROVE  RowsInv' /\ ContentsInv' /\ RightKept
<1>1. pc = "velocity" /\ todo \subseteq Inner
  BY DEF L!LagrangeVelocityPredicted, RowsInv
<1>2. CASE todo = {}
  <2>1. /\ pc' = "boundary" /\ todo' = {}
        /\ UNCHANGED <<nx, ny, BoundaryConditions, mem>>
    BY <1>2 DEF L!LagrangeVelocityPredicted, L!RowOf, CellRows, NodeRows
  <2>2. ASSUME NEW a \in L!Scratch PROVE Awaited(a)' = Awaited(a)
    BY <1>1, <1>2, <2>1, PlacesRows, ScratchKinds, SameGridNext DEF Awaited, PressureArrays, VelocityArrays
  <2>3. RowsInv'
    BY <2>1, SameGridNext DEF RowsInv
  <2> QED BY <2>1, <2>2, <2>3, EmptyStep
<1>3. CASE todo # {}
  <2> DEFINE outs == VelocityArrays
  <2>1. PICK iy \in todo :
          /\ mem' = [a \in DOMAIN mem |-> IF a \in outs THEN L!Stored(mem[a], L!VelocityStores(a, iy)) ELSE mem[a]]
          /\ pc' = IF todo = {iy} THEN "boundary" ELSE pc
          /\ todo' = IF todo = {iy} THEN {} ELSE todo \ {iy}
          /\ UNCHANGED <<nx, ny, BoundaryConditions>>
    BY <1>3 DEF L!LagrangeVelocityPredicted, L!RowOf, L!RowDone, CellRows, NodeRows, PressureArrays, VelocityArrays
  <2> DEFINE S == [a \in outs |-> InnerRow(iy)]
             T == [a \in outs |-> L!VelocityStores(a, iy)]
  <2>2. outs \subseteq L!Scratch /\ L!Scratch \subseteq DOMAIN mem
    BY DEF PressureArrays, VelocityArrays, L!Scratch, ContentsInv
  <2>3. ASSUME NEW a \in outs
        PROVE  /\ Fills(a, S[a], T[a]) /\ S[a] \subseteq Awaited(a) /\ mem'[a] = Stored(mem[a], T[a])
               /\ Awaited(a)' = Awaited(a) \ S[a]
    <3>1. agree => \A b \in L!Inputs \cup PressureArrays : Holds(b)
      BY <1>1, FilledBefore
    <3>2. Fills(a, S[a], T[a])
      BY <1>1, <3>1, VelocityRow
    <3>3. mem'[a] = Stored(mem[a], T[a])
      BY <2>1, <2>2, SameValues
    <3>4. S[a] \subseteq Awaited(a) /\ Awaited(a)' = Awaited(a) \ S[a]
      BY <1>1, <2>1, PlacesRows, ScratchKinds, SameGridNext DEF Awaited, RowPlaces, InnerRow, PressureArrays, VelocityArrays
    <3> QED BY <3>2, <3>3, <3>4
  <2>4. \A a \in DOMAIN mem \ outs : mem'[a] = mem[a]
    BY <2>1
  <2>5. ASSUME NEW a \in L!Scratch \ outs PROVE Awaited(a)' = Awaited(a)
    BY <1>1, <2>1, PlacesRows, ScratchKinds, SameGridNext DEF Awaited, PressureArrays, VelocityArrays
  <2>6. RowsInv'
    BY <1>1, <2>1, SameGridNext DEF RowsInv
  <2>7. DOMAIN mem' = DOMAIN mem
    BY <2>1
  <2> HIDE DEF outs, S, T
  <2>8. Filling(outs, S, T)
    BY <2>1, <2>2, <2>3, <2>4, <2>5, <2>7 DEF Filling
  <2> QED BY <2>6, <2>8, KernelStep
<1> QED BY <1>2, <1>3

\* The kernel of the energy.
LEMMA EnergyStep ==
  ASSUME WideGrid, RowsInv, ContentsInv, UNCHANGED agree, L!LagrangeCorrectionOptimised
  PROVE  RowsInv' /\ ContentsInv' /\ RightKept
<1>1. pc = "energy" /\ todo \subseteq CellRows
  BY DEF L!LagrangeCorrectionOptimised, RowsInv
<1>2. CASE todo = {}
  <2>1. /\ pc' = "correction" /\ todo' = NodeRows
        /\ UNCHANGED <<nx, ny, BoundaryConditions, mem>>
    BY <1>2 DEF L!LagrangeCorrectionOptimised, L!RowOf, CellRows, NodeRows
  <2>2. ASSUME NEW a \in L!Scratch PROVE Awaited(a)' = Awaited(a)
    BY <1>1, <1>2, <2>1, PlacesRows, ScratchKinds, SameGridNext DEF Awaited, PressureArrays, VelocityArrays
  <2>3. RowsInv'
    BY <2>1, SameGridNext DEF RowsInv
  <2> QED BY <2>1, <2>2, <2>3, EmptyStep
<1>3. CASE todo # {}
  <2> DEFINE outs == {"e_lag"}
  <2>1. PICK iy \in todo :
          /\ mem' = [a \in DOMAIN mem |-> IF a \in outs THEN L!Stored(mem[a], L!EnergyStores(a, iy)) ELSE mem[a]]
          /\ pc' = IF todo = {iy} THEN "correction" ELSE pc
          /\ todo' = IF todo = {iy} THEN NodeRows ELSE todo \ {iy}
          /\ UNCHANGED <<nx, ny, BoundaryConditions>>
    BY <1>3 DEF L!LagrangeCorrectionOptimised, L!RowOf, L!RowDone, CellRows, NodeRows, PressureArrays, VelocityArrays
  <2> DEFINE S == [a \in outs |-> RowPlaces("cell", iy)]
             T == [a \in outs |-> L!EnergyStores(a, iy)]
  <2>2. outs \subseteq L!Scratch /\ L!Scratch \subseteq DOMAIN mem
    BY DEF PressureArrays, VelocityArrays, L!Scratch, ContentsInv
  <2>3. ASSUME NEW a \in outs
        PROVE  /\ Fills(a, S[a], T[a]) /\ S[a] \subseteq Awaited(a) /\ mem'[a] = Stored(mem[a], T[a])
               /\ Awaited(a)' = Awaited(a) \ S[a]
    <3>1. agree => \A b \in L!Inputs \cup PressureArrays \cup VelocityArrays : Holds(b)
      BY <1>1, FilledBefore
    <3>2. Fills(a, S[a], T[a])
      BY <1>1, <3>1, EnergyRow
    <3>3. mem'[a] = Stored(mem[a], T[a])
      BY <2>1, <2>2, SameValues
    <3>4. S[a] \subseteq Awaited(a) /\ Awaited(a)' = Awaited(a) \ S[a]
      BY <1>1, <2>1, PlacesRows, ScratchKinds, SameGridNext DEF Awaited, RowPlaces, InnerRow, PressureArrays, VelocityArrays
    <3> QED BY <3>2, <3>3, <3>4
  <2>4. \A a \in DOMAIN mem \ outs : mem'[a] = mem[a]
    BY <2>1
  <2>5. ASSUME NEW a \in L!Scratch \ outs PROVE Awaited(a)' = Awaited(a)
    BY <1>1, <2>1, PlacesRows, ScratchKinds, SameGridNext DEF Awaited, PressureArrays, VelocityArrays
  <2>6. RowsInv'
    BY <1>1, <2>1, SameGridNext DEF RowsInv
  <2>7. DOMAIN mem' = DOMAIN mem
    BY <2>1
  <2> HIDE DEF outs, S, T
  <2>8. Filling(outs, S, T)
    BY <2>1, <2>2, <2>3, <2>4, <2>5, <2>7 DEF Filling
  <2> QED BY <2>6, <2>8, KernelStep
<1> QED BY <1>2, <1>3

\* The kernel of the corrected velocity.
LEMMA CorrectionStep ==
  ASSUME WideGrid, RowsInv, ContentsInv, UNCHANGED agree, L!LagrangeVelocityCorrection
  PROVE  RowsInv' /\ ContentsInv' /\ RightKept
<1>1. pc = "correction" /\ todo \subseteq NodeRows
  BY DEF L!LagrangeVelocityCorrection, RowsInv
<1>2. CASE todo = {}
  <2>1. /\ pc' = "done" /\ todo' = {}
        /\ UNCHANGED <<nx, ny, BoundaryConditions, mem>>
    BY <1>2 DEF L!LagrangeVelocityCorrection, L!RowOf, CellRows, NodeRows
  <2>2. ASSUME NEW a \in L!Scratch PROVE Awaited(a)' = Awaited(a)
    BY <1>1, <1>2, <2>1, PlacesRows, ScratchKinds, SameGridNext DEF Awaited, PressureArrays, VelocityArrays
  <2>3. RowsInv'
    BY <2>1, SameGridNext DEF RowsInv
  <2> QED BY <2>1, <2>2, <2>3, EmptyStep
<1>3. CASE todo # {}
  <2> DEFINE outs == {"u_lag", "v_lag"}
  <2>1. PICK iy \in todo :
          /\ mem' = [a \in DOMAIN mem |-> IF a \in outs THEN L!Stored(mem[a], L!CorrectionStores(a, iy)) ELSE mem[a]]
          /\ pc' = IF todo = {iy} THEN "done" ELSE pc
          /\ todo' = IF todo = {iy} THEN {} ELSE todo \ {iy}
          /\ UNCHANGED <<nx, ny, BoundaryConditions>>
    BY <1>3 DEF L!LagrangeVelocityCorrection, L!RowOf, L!RowDone, CellRows, NodeRows, PressureArrays, VelocityArrays
  <2> DEFINE S == [a \in outs |-> RowPlaces("node", iy)]
             T == [a \in outs |-> L!CorrectionStores(a, iy)]
  <2>2. outs \subseteq L!Scratch /\ L!Scratch \subseteq DOMAIN mem
    BY DEF PressureArrays, VelocityArrays, L!Scratch, ContentsInv
  <2>3. ASSUME NEW a \in outs
        PROVE  /\ Fills(a, S[a], T[a]) /\ S[a] \subseteq Awaited(a) /\ mem'[a] = Stored(mem[a], T[a])
               /\ Awaited(a)' = Awaited(a) \ S[a]
    <3>1. agree => \A b \in L!Inputs \cup VelocityArrays : Holds(b)
      BY <1>1, FilledBefore
    <3>2. Fills(a, S[a], T[a])
      BY <1>1, <3>1, CorrectionRow
    <3>3. mem'[a] = Stored(mem[a], T[a])
      BY <2>1, <2>2, SameValues
    <3>4. S[a] \subseteq Awaited(a) /\ Awaited(a)' = Awaited(a) \ S[a]
      BY <1>1, <2>1, PlacesRows, ScratchKinds, SameGridNext DEF Awaited, RowPlaces, InnerRow, PressureArrays, VelocityArrays
    <3> QED BY <3>2, <3>3, <3>4
  <2>4. \A a \in DOMAIN mem \ outs : mem'[a] = mem[a]
    BY <2>1
  <2>5. ASSUME NEW a \in L!Scratch \ outs PROVE Awaited(a)' = Awaited(a)
    BY <1>1, <2>1, PlacesRows, ScratchKinds, SameGridNext DEF Awaited, PressureArrays, VelocityArrays
  <2>6. RowsInv'
    BY <1>1, <2>1, SameGridNext DEF RowsInv
  <2>7. DOMAIN mem' = DOMAIN mem
    BY <2>1
  <2> HIDE DEF outs, S, T
  <2>8. Filling(outs, S, T)
    BY <2>1, <2>2, <2>3, <2>4, <2>5, <2>7 DEF Filling
  <2> QED BY <2>6, <2>8, KernelStep
<1> QED BY <1>2, <1>3

\* The boundary kernel, in one step.
LEMMA BoundaryStep ==
  ASSUME WideGrid, RowsInv, ContentsInv, UNCHANGED agree, L!BoundaryVelocityPrediction
  PROVE  RowsInv' /\ ContentsInv' /\ RightKept
<1> DEFINE outs == VelocityArrays
           S == [a \in outs |-> EdgeNodes]
           T == [a \in outs |-> L!BoundaryStores(a)]
<1>1. /\ pc = "boundary" /\ pc' = "energy" /\ todo' = CellRows
      /\ mem' = [a \in DOMAIN mem |-> IF a \in outs THEN L!Stored(mem[a], L!BoundaryStores(a)) ELSE mem[a]]
      /\ UNCHANGED <<nx, ny, BoundaryConditions>>
  BY DEF L!BoundaryVelocityPrediction, L!BoundaryOf, VelocityArrays, CellRows
<1>2. outs \subseteq L!Scratch /\ L!Scratch \subseteq DOMAIN mem
  BY DEF VelocityArrays, L!Scratch, ContentsInv
<1>3. ASSUME NEW a \in outs
      PROVE  /\ Fills(a, S[a], T[a]) /\ S[a] \subseteq Awaited(a) /\ mem'[a] = Stored(mem[a], T[a])
             /\ Awaited(a)' = Awaited(a) \ S[a]
  <2>1. agree => \A b \in L!Inputs \cup PressureArrays : Holds(b)
    BY <1>1, FilledBefore
  <2>2. Fills(a, S[a], T[a])
    BY <2>1, BoundaryFills
  <2>3. mem'[a] = Stored(mem[a], T[a])
    BY <1>1, <1>2, SameValues
  <2>4. S[a] \subseteq Awaited(a) /\ Awaited(a)' = Awaited(a) \ S[a]
    BY <1>1, ScratchKinds, SameGridNext DEF Awaited, EdgeNodes, PressureArrays, VelocityArrays
  <2> QED BY <2>2, <2>3, <2>4
<1>4. DOMAIN mem' = DOMAIN mem /\ \A a \in DOMAIN mem \ outs : mem'[a] = mem[a]
  BY <1>1
<1>5. ASSUME NEW a \in L!Scratch \ outs PROVE Awaited(a)' = Awaited(a)
  BY <1>1, PlacesRows, ScratchKinds, SameGridNext DEF Awaited, PressureArrays, VelocityArrays
<1>6. RowsInv'
  BY <1>1, SameGridNext DEF RowsInv
<1> HIDE DEF outs, S, T
<1>7. Filling(outs, S, T)
  BY <1>1, <1>2, <1>3, <1>4, <1>5 DEF Filling
<1> QED BY <1>6, <1>7, KernelStep

\* Every step of the driver fills places that were awaited.
LEMMA LagrangeStep ==
  ASSUME WideGrid, RowsInv, ContentsInv, UNCHANGED agree, L!Next
  PROVE  RowsInv' /\ ContentsInv' /\ RightKept /\ WideGrid'
<1>1. WideGrid'
  <2>1. UNCHANGED <<nx, ny, BoundaryConditions>>
    BY DEF L!Next, L!LagrangePressurePredictedOptimised, L!LagrangeVelocityPredicted,
           L!BoundaryVelocityPrediction, L!LagrangeCorrectionOptimised, L!LagrangeVelocityCorrection,
           L!RowOf, L!RowDone, L!BoundaryOf
  <2> QED BY <2>1, SameGridNext
<1>2. CASE L!LagrangePressurePredictedOptimised
  BY <1>1, <1>2, PressureStep
<1>3. CASE L!LagrangeVelocityPredicted
  BY <1>1, <1>3, VelocityStep
<1>4. CASE L!BoundaryVelocityPrediction
  BY <1>1, <1>4, BoundaryStep
<1>5. CASE L!LagrangeCorrectionOptimised
  BY <1>1, <1>5, EnergyStep
<1>6. CASE L!LagrangeVelocityCorrection
  BY <1>1, <1>6, CorrectionStep
<1> QED BY <1>2, <1>3, <1>4, <1>5, <1>6 DEF L!Next

\* The driver that runs first is the Lagrangian one, and it never runs again.
LEMMA DriversStep ==
  ASSUME DriversInv, Next
  PROVE  DriversInv' /\ (Running("Lagrange")' => Lagrange2dDriver)
<1>1. CASE UNCHANGED drivers
  <2>1. Running("Lagrange")' = Running("Lagrange")
    BY <1>1 DEF Running
  <2>2. CASE Lagrange2dDriver
    BY <1>1, <2>2 DEF DriversInv
  <2>3. CASE ~Lagrange2dDriver
    <3>1. ~Running("Lagrange") \/ Project
      BY <2>3 DEF Next, Running, AdProjection2dXDriver, AdProjection2dYDriver, DirectProjection2dDriver,
                  SecondSweep, EndStep
    <3>2. ~Project
      BY <1>1 DEF Project, Enter, DriversInv
    <3> QED BY <1>1, <2>1, <3>1, <3>2 DEF DriversInv
  <2> QED BY <2>2, <2>3
<1>2. CASE Project \/ SecondSweep
  <2>1. drivers' = Tail(drivers) /\ drivers # <<>> /\ Len(drivers) > 1
    <3>1. CASE Project
      BY <3>1 DEF Project, Enter, Running
    <3>2. CASE SecondSweep
      <4>1. drivers' = Tail(drivers) /\ Len(drivers) = 2 /\ drivers # <<>>
        BY <3>2 DEF SecondSweep, Enter, Running
      <4> QED BY <4>1
    <3> QED BY <1>2, <3>1, <3>2
  <2>2. drivers \in {<<"Lagrange", "X", "Y">>, <<"Lagrange", "Y", "X">>, <<"Lagrange", "Direct">>,
                     <<"X", "Y">>, <<"Y", "X">>}
    BY <2>1 DEF DriversInv
  <2>3. drivers' \in {<<"X", "Y">>, <<"Y", "X">>, <<"Direct">>, <<"X">>, <<"Y">>}
    <3>1. /\ Tail(<<"Lagrange", "X", "Y">>) = <<"X", "Y">> /\ Tail(<<"Lagrange", "Y", "X">>) = <<"Y", "X">>
          /\ Tail(<<"Lagrange", "Direct">>) = <<"Direct">>
          /\ Tail(<<"X", "Y">>) = <<"Y">> /\ Tail(<<"Y", "X">>) = <<"X">>
      OBVIOUS
    <3> QED BY <2>1, <2>2, <3>1
  <2> QED BY <2>3 DEF DriversInv, Running
<1>3. CASE EndStep
  <2>1. drivers' = <<>>
    BY <1>3 DEF EndStep, Enter
  <2> QED BY <2>1 DEF DriversInv, Running
<1> QED BY <1>1, <1>2, <1>3 DEF Next, Lagrange2dDriver, AdProjection2dXDriver, AdProjection2dYDriver,
                              DirectProjection2dDriver

LEMMA LagrangeInitially == Init => LagrangeInv
<1> SUFFICES ASSUME Init PROVE LagrangeInv
  OBVIOUS
<1>1. DriversInv
  BY DEF Init, DriversOf, DriversInv
<1>2. WideGrid
  <2>1. PICK s \in Shapes : nx = s[1] /\ ny = s[2]
    BY DEF Init
  <2> QED BY <2>1, ShapesAssumption DEF WideGrid
<1>3. pc = "pressure" /\ todo = CellRows /\ RowsInv
  BY DEF Init, RowsInv
<1>4. L!Inputs \cup L!Scratch \subseteq DOMAIN mem
  BY DEF Init, Arrays, Inputs
<1>5. ASSUME NEW a \in L!Inputs
      PROVE  DOMAIN mem[a] = 0 .. Size(KindOf(a)) - 1 /\ (agree => IsRight(mem, a))
  <2>1. a \in Arrays /\ a \in Inputs /\ KindOf(a) \in Kinds
    BY ScratchKinds DEF Arrays, Inputs
  <2>2. CASE agree
    <3>1. mem[a] = Filled(a)
      BY <2>1, <2>2 DEF Init
    <3>2. \A p \in Places(KindOf(a)) : Filled(a)[At(KindOf(a), p)] = Right(a, p)
      BY <2>1, <1>2, WideGridIsGrid, FilledRight
    <3>3. DOMAIN Filled(a) = 0 .. Size(KindOf(a)) - 1
      BY DEF Filled
    <3> QED BY <3>1, <3>2, <3>3 DEF IsRight
  <2>3. CASE ~agree
    <3>1. mem[a] = IF a \in {"u", "v"} THEN Apart(a) ELSE Filled(a)
      BY <2>1, <2>3 DEF Init
    <3>2. a \in {"u", "v"} => KindOf(a) = "node"
      BY KindsOfArrays
    <3> QED BY <2>3, <3>1, <3>2 DEF Apart, Filled
  <2> QED BY <2>2, <2>3
<1>6. ASSUME NEW a \in L!Scratch
      PROVE  mem[a] = [i \in 0 .. Size(KindOf(a)) - 1 |-> Garbage] /\ KindOf(a) \in Kinds
  <2>1. a \in Arrays /\ a \notin Inputs /\ a \notin X!Zeroed /\ a \notin {"u", "v"} /\ KindOf(a) \in Kinds
    BY ScratchKinds DEF Arrays, Inputs, L!Inputs, L!Scratch, X!Zeroed
  <2> QED BY <2>1 DEF Init
<1>7. ASSUME NEW a \in L!Scratch, NEW p \in Places(KindOf(a))
      PROVE  mem[a][At(KindOf(a), p)] = Garbage /\ p \in Awaited(a)
  <2>1. At(KindOf(a), p) \in 0 .. Size(KindOf(a)) - 1
    BY <1>2, <1>6, WideGridIsGrid, ElementsInside
  <2>2. p \in Awaited(a)
    BY <1>2, <1>3, PlacesRows, ScratchKinds DEF Awaited, PressureArrays, VelocityArrays
  <2> QED BY <1>6, <2>1, <2>2
<1>8. ContentsInv
  <2>1. \A a \in L!Scratch : \A p \in Awaited(a) : p \in Places(KindOf(a))
    BY DEF Awaited
  <2>2. \A a \in L!Scratch : DOMAIN mem[a] = 0 .. Size(KindOf(a)) - 1
    BY <1>6
  <2> QED BY <1>4, <1>5, <1>7, <2>1, <2>2 DEF ContentsInv
<1> QED BY <1>1, <1>2, <1>3, <1>8 DEF LagrangeInv

LEMMA LagrangeNext == LagrangeInv /\ [Next]_allvars => LagrangeInv'
<1> SUFFICES ASSUME LagrangeInv, [Next]_allvars PROVE LagrangeInv'
  OBVIOUS
<1>1. CASE UNCHANGED allvars
  <2>1. UNCHANGED <<nx, ny, BoundaryConditions, mem, pc, todo, drivers, agree>>
    BY <1>1 DEF allvars, vars
  <2>2. \A a : Awaited(a)' = Awaited(a)
    BY <2>1, SameGridNext DEF Awaited
  <2>3. Running("Lagrange")' = Running("Lagrange") /\ DriversInv' = DriversInv
    BY <2>1 DEF Running, DriversInv
  <2>4. RowsInv' = RowsInv
    BY <2>1, SameGridNext DEF RowsInv
  <2>5. ASSUME WideGrid, ContentsInv PROVE ContentsInv'
    BY <2>1, <2>2, <2>5, EmptyStep
  <2> QED BY <2>1, <2>3, <2>4, <2>5, SameGridNext DEF LagrangeInv
<1>2. CASE Next
  <2>1. DriversInv' /\ (Running("Lagrange")' => Lagrange2dDriver)
    BY <1>2, DriversStep DEF LagrangeInv
  <2>2. ASSUME Lagrange2dDriver PROVE WideGrid' /\ RowsInv' /\ ContentsInv'
    <3>1. L!Next /\ UNCHANGED agree /\ WideGrid /\ RowsInv /\ ContentsInv
      BY <2>2 DEF Lagrange2dDriver, LagrangeInv
    <3> QED BY <3>1, LagrangeStep
  <2> QED BY <2>1, <2>2 DEF LagrangeInv
<1> QED BY <1>1, <1>2

\* When Lagrange2dDefaultDriver returns on a grid of any size, each element of each array
\* it fills is the result of the scheme, whatever the order of the rows: the interior and
\* the boundary kernel leave none out, and none of their index arithmetic goes astray.
THEOREM LagrangianDriverIsRight == Spec => []LagrangeRight
<1>1. Init => LagrangeInv
  BY LagrangeInitially
<1>2. LagrangeInv /\ [Next]_allvars => LagrangeInv'
  BY LagrangeNext
<1>3. LagrangeInv => LagrangeRight
  <2> SUFFICES ASSUME LagrangeInv, Running("Lagrange"), agree, pc = "done", NEW a \in L!Scratch
               PROVE  L!IsRight(mem, a)
    BY DEF LagrangeRight, L!EveryElementRight
  <2>1. Awaited(a) = {}
    BY DEF Awaited
  <2>2. \A p \in Places(KindOf(a)) : mem[a][At(KindOf(a), p)] = Right(a, p)
    BY <2>1 DEF LagrangeInv, ContentsInv
  <2> QED BY <2>2, SameGrid, SameValues DEF L!IsRight
<1> QED BY <1>1, <1>2, <1>3, PTL DEF Spec

\* While the Lagrangian driver runs, whichever row a thread takes next, and whether or not
\* the velocities of the step agreed: no kernel stores over an element that is right.
THEOREM RightIsStoredOnce == Spec => RightStaysRight
<1>1. Init => LagrangeInv
  BY LagrangeInitially
<1>2. LagrangeInv /\ [Next]_allvars => LagrangeInv'
  BY LagrangeNext
<1> DEFINE Kept == Running("Lagrange") => RightKept
<1>3. LagrangeInv /\ [Next]_allvars => [Kept]_allvars
  <2> SUFFICES ASSUME LagrangeInv, Next, Running("Lagrange") PROVE RightKept
    OBVIOUS
  <2>1. Lagrange2dDriver \/ Project
    <3>1. ~Running("X") /\ ~Running("Y") /\ ~Running("Direct")
      BY DEF Running
    <3> QED BY <3>1 DEF Next, AdProjection2dXDriver, AdProjection2dYDriver, DirectProjection2dDriver,
                        SecondSweep, EndStep
  <2>2. CASE Lagrange2dDriver
    <3>1. L!Next /\ UNCHANGED agree /\ WideGrid /\ RowsInv /\ ContentsInv
      BY <2>2 DEF Lagrange2dDriver, LagrangeInv
    <3> QED BY <3>1, LagrangeStep
  <2>3. CASE Project
    BY <2>3 DEF Project, RightKept
  <2> QED BY <2>1, <2>2, <2>3
<1>4. Spec => [][Kept]_allvars
  BY <1>1, <1>2, <1>3, PTL DEF Spec
<1> QED BY <1>4 DEF RightStaysRight, RightKept

=============================================================================
