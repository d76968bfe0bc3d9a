---------------------- MODULE MultimaterialSweep_proofs ----------------------
(***************************************************************************)
(* What the sweeps of two materials conserve, of a mix and with an         *)
(* interface, for every size of grid, any order of the rows, each boundary *)
(* condition and whichever cells give all they have.  Checked by TLAPS.    *)
(*                                                                         *)
(* The inductive invariant is SweepInv: how far each array of fluxes has   *)
(* come, by the number of the call that runs.  A loop stores the faces of  *)
(* its rows, a boundary kernel the ends of the grid, and from then on the  *)
(* array is complete: no flux goes through a wall, and the two faces of a  *)
(* seam have the same.  The checks, which correct the faces of the cells   *)
(* that give all they have, keep it so.                                    *)
(*                                                                         *)
(* With an interface the mass that goes through a face is the sum of those *)
(* of the materials.  DualInv adds how far that sum has come (TotalStage): *)
(* in the rows that are done it is the sum of the two fluxes as the loop   *)
(* reads them, and once all rows are done the two faces of a seam agree.   *)
(***************************************************************************)
EXTENDS MultimaterialSweep, Sweeps_proofs

-----------------------------------------------------------------------------
\* The arrays of material h, or, when h is 0, those of the whole.
Bank(h) == IF h \in Both THEN materials[h] ELSE mem

\* The operators of the instances are those of the modules they instantiate, on their bank.
LEMMA SameGridXOf ==
  ASSUME NEW m
  PROVE  /\ \A k : XOf(m)!Places(k) = Places(k)
         /\ \A k, p : XOf(m)!At(k, p) = At(k, p) /\ XOf(m)!Fold(k, p) = Fold(k, p)
         /\ XOf(m)!CellRows = CellRows /\ XOf(m)!Zero = Zero /\ XOf(m)!Garbage = Garbage
         /\ \A k, p, reads : XOf(m)!Computed(k, p, reads) \in Results(k, p)
<1>1. \A k : XOf(m)!StaggeredX(k) = StaggeredX(k) /\ XOf(m)!StaggeredY(k) = StaggeredY(k)
  BY DEF XOf!StaggeredX, StaggeredX, XOf!StaggeredY, StaggeredY
<1>2. \A k : XOf(m)!LastX(k) = LastX(k) /\ XOf(m)!LastY(k) = LastY(k)
  BY <1>1 DEF XOf!LastX, LastX, XOf!LastY, LastY
<1>3. \A k : XOf(m)!Places(k) = Places(k)
  BY <1>2 DEF XOf!Places, Places
<1>4. \A k, p : XOf(m)!At(k, p) = At(k, p)
  BY <1>1 DEF XOf!At, At, XOf!NodeAt, NodeAt, XOf!CellAt, CellAt
<1>5. XOf(m)!WallsX = WallsX /\ XOf(m)!WallsY = WallsY
  BY DEF XOf!WallsX, WallsX, XOf!WallsY, WallsY
<1>6. \A k, p : XOf(m)!Fold(k, p) = Fold(k, p)
  BY <1>1, <1>5 DEF XOf!Fold, Fold, XOf!Folded, Folded
<1>7. XOf(m)!CellRows = CellRows /\ XOf(m)!Zero = Zero /\ XOf(m)!Garbage = Garbage
  BY DEF XOf!CellRows, CellRows, XOf!Zero, Zero, XOf!Garbage, Garbage
<1>8. \A k, p, reads : XOf(m)!Computed(k, p, reads) \in Results(k, p)
  BY <1>6 DEF XOf!Computed, Results, Stamps, XOf!Off, Off, XOf!Derived, Derived
<1> QED BY <1>3, <1>4, <1>6, <1>7, <1>8

LEMMA SameGridYOf ==
  ASSUME NEW m
  PROVE  /\ \A k : YOf(m)!Places(k) = Places(k)
         /\ \A k, p : YOf(m)!At(k, p) = At(k, p) /\ YOf(m)!Fold(k, p) = Fold(k, p)
         /\ YOf(m)!CellRows = CellRows /\ YOf(m)!Zero = Zero /\ YOf(m)!Garbage = Garbage
         /\ \A k, p, reads : YOf(m)!Computed(k, p, reads) \in Results(k, p)
<1>1. \A k : YOf(m)!StaggeredX(k) = StaggeredX(k) /\ YOf(m)!StaggeredY(k) = StaggeredY(k)
  BY DEF YOf!StaggeredX, StaggeredX, YOf!StaggeredY, StaggeredY
<1>2. \A k : YOf(m)!LastX(k) = LastX(k) /\ YOf(m)!LastY(k) = LastY(k)
  BY <1>1 DEF YOf!LastX, LastX, YOf!LastY, LastY
<1>3. \A k : YOf(m)!Places(k) = Places(k)
  BY <1>2 DEF YOf!Places, Places
<1>4. \A k, p : YOf(m)!At(k, p) = At(k, p)
  BY <1>1 DEF YOf!At, At, YOf!NodeAt, NodeAt, YOf!CellAt, CellAt
<1>5. YOf(m)!WallsX = WallsX /\ YOf(m)!WallsY = WallsY
  BY DEF YOf!WallsX, WallsX, YOf!WallsY, WallsY
<1>6. \A k, p : YOf(m)!Fold(k, p) = Fold(k, p)
  BY <1>1, <1>5 DEF YOf!Fold, Fold, YOf!Folded, Folded
<1>7. YOf(m)!CellRows = CellRows /\ YOf(m)!Zero = Zero /\ YOf(m)!Garbage = Garbage
  BY DEF YOf!CellRows, CellRows, YOf!Zero, Zero, YOf!Garbage, Garbage
<1>8. \A k, p, reads : YOf(m)!Computed(k, p, reads) \in Results(k, p)
  BY <1>6 DEF YOf!Computed, Results, Stamps, YOf!Off, Off, YOf!Derived, Derived
<1> QED BY <1>3, <1>4, <1>6, <1>7, <1>8

\* The faces of a crossing are the same for every bank.
LEMMA SameCrossings ==
  /\ \A m : XOf(m)!SeamFaces = X!SeamFaces /\ YOf(m)!SeamFaces = Y!SeamFaces
  /\ \A m, iy : XOf(m)!InnerFaces(iy) = X!InnerFaces(iy) /\ YOf(m)!InnerFaces(iy) = Y!InnerFaces(iy)
<1>1. \A m : XOf(m)!SeamFaces = X!SeamFaces
  BY DEF XOf!SeamFaces, X!SeamFaces, XOf!FirstFace, X!FirstFace, XOf!LastFace, X!LastFace,
         XOf!Crossing, X!Crossing, XOf!FaceXCellM1, X!FaceXCellM1, XOf!FaceXCellP1, X!FaceXCellP1,
         XOf!CellRows, X!CellRows
<1>2. \A m : YOf(m)!SeamFaces = Y!SeamFaces
  BY DEF YOf!SeamFaces, Y!SeamFaces, YOf!FirstFace, Y!FirstFace, YOf!LastFace, Y!LastFace,
         YOf!Crossing, Y!Crossing, YOf!FaceYCellM1, Y!FaceYCellM1, YOf!FaceYCellP1, Y!FaceYCellP1
<1>3. \A m, iy : XOf(m)!InnerFaces(iy) = X!InnerFaces(iy)
  BY DEF XOf!InnerFaces, X!InnerFaces, XOf!Crossing, X!Crossing, XOf!FaceXAt, X!FaceXAt,
         XOf!FaceXCellM1, X!FaceXCellM1, XOf!FaceXCellP1, X!FaceXCellP1
<1>4. \A m, iy : YOf(m)!InnerFaces(iy) = Y!InnerFaces(iy)
  BY DEF YOf!InnerFaces, Y!InnerFaces, YOf!Crossing, Y!Crossing, YOf!FaceYAt, Y!FaceYAt,
         YOf!FaceYCellM1, Y!FaceYCellM1, YOf!FaceYCellP1, Y!FaceYCellP1
<1> QED BY <1>1, <1>2, <1>3, <1>4
-----------------------------------------------------------------------------
\* An array of fluxes f conserves what they carry.
ConservesX(f) ==
  \A w \in {f[i] : i \in DOMAIN f} \ {Zero} :
    w # Garbage /\ Cardinality(BeforeX(f, w)) = Cardinality(AfterX(f, w))
ConservesY(f) ==
  \A w \in {f[i] : i \in DOMAIN f} \ {Zero} :
    w # Garbage /\ Cardinality(BeforeY(f, w)) = Cardinality(AfterY(f, w))
Conserved(f) == IF InX THEN ConservesX(f) ELSE ConservesY(f)

\* The faces of a cell.
LEMMA FacesOfCells ==
  ASSUME WideGrid, NEW c \in Places("cell")
  PROVE  /\ CellFaceM1O(At("cell", c), c[2], nx) = FaceXAt(c[1], c[2], nx)
         /\ CellFaceP1O(At("cell", c), c[2], nx) = FaceXAt(c[1] + 1, c[2], nx)
         /\ CellFaceOM1(At("cell", c), c[2], nx) = FaceYAt(c[1], c[2], nx)
         /\ CellFaceOP1(At("cell", c), c[2], nx) = FaceYAt(c[1], c[2] + 1, nx)
<1>1. c[1] \in Int /\ c[2] \in Int /\ nx \in Int /\ At("cell", c) = CellAt(c[1], c[2], nx)
  BY DEF Places, LastX, LastY, StaggeredX, StaggeredY, At, WideGrid
<1> QED BY <1>1, CellMaps

LEMMA ConservesIn ==
  ASSUME WideGrid
  PROVE  /\ \A a : X!Conserves(a) <=> ConservesX(mem[a])
         /\ \A a : Y!Conserves(a) <=> ConservesY(mem[a])
         /\ \A m \in Both : \A a : XOf(m)!Conserves(a) <=> ConservesX(materials[m][a])
         /\ \A m \in Both : \A a : YOf(m)!Conserves(a) <=> ConservesY(materials[m][a])
<1>1. /\ \A S : X!Cardinality(S) = Cardinality(S) /\ Y!Cardinality(S) = Cardinality(S)
      /\ \A m, S : XOf(m)!Cardinality(S) = Cardinality(S) /\ YOf(m)!Cardinality(S) = Cardinality(S)
  BY DEF X!Cardinality, Y!Cardinality, XOf!Cardinality, YOf!Cardinality, Cardinality
<1>2. ASSUME NEW a, NEW w
      PROVE  X!TakenBefore(a, w) = BeforeX(mem[a], w) /\ X!TakenAfter(a, w) = AfterX(mem[a], w)
  BY FacesOfCells, SameGridX, SameStoresX
     DEF X!TakenBefore, X!TakenAfter, BeforeX, AfterX, X!CellFaceM1O, X!CellFaceP1O, CellFaceM1O, CellFaceP1O
<1>3. ASSUME NEW a, NEW w
      PROVE  Y!TakenBefore(a, w) = BeforeY(mem[a], w) /\ Y!TakenAfter(a, w) = AfterY(mem[a], w)
  BY FacesOfCells, SameGridY, SameStoresY
     DEF Y!TakenBefore, Y!TakenAfter, BeforeY, AfterY, Y!CellFaceOM1, Y!CellFaceOP1, CellFaceOM1, CellFaceOP1
<1>4. ASSUME NEW m, NEW a, NEW w
      PROVE  /\ XOf(m)!TakenBefore(a, w) = BeforeX(materials[m][a], w)
             /\ XOf(m)!TakenAfter(a, w) = AfterX(materials[m][a], w)
  BY FacesOfCells, SameGridXOf
     DEF XOf!TakenBefore, XOf!TakenAfter, BeforeX, AfterX, XOf!CellFaceM1O, XOf!CellFaceP1O, CellFaceM1O, CellFaceP1O
<1>5. ASSUME NEW m, NEW a, NEW w
      PROVE  /\ YOf(m)!TakenBefore(a, w) = BeforeY(materials[m][a], w)
             /\ YOf(m)!TakenAfter(a, w) = AfterY(materials[m][a], w)
  BY FacesOfCells, SameGridYOf
     DEF YOf!TakenBefore, YOf!TakenAfter, BeforeY, AfterY, YOf!CellFaceOM1, YOf!CellFaceOP1, CellFaceOM1, CellFaceOP1
<1>6. \A a : X!Conserves(a) <=> ConservesX(mem[a])
  BY <1>1, <1>2, SameGridX, SameStoresX DEF X!Conserves, ConservesX
<1>7. \A a : Y!Conserves(a) <=> ConservesY(mem[a])
  BY <1>1, <1>3, SameGridY, SameStoresY DEF Y!Conserves, ConservesY
<1>8. \A m, a : XOf(m)!Conserves(a) <=> ConservesX(materials[m][a])
  <2> TAKE m, a
  <2>1. \A w : Cardinality(XOf(m)!TakenBefore(a, w)) = Cardinality(BeforeX(materials[m][a], w))
    BY <1>4
  <2>2. \A w : Cardinality(XOf(m)!TakenAfter(a, w)) = Cardinality(AfterX(materials[m][a], w))
    BY <1>4
  <2> QED BY <1>1, <2>1, <2>2, SameGridXOf DEF XOf!Conserves, ConservesX
<1>9. \A m, a : YOf(m)!Conserves(a) <=> ConservesY(materials[m][a])
  <2> TAKE m, a
  <2>1. \A w : Cardinality(YOf(m)!TakenBefore(a, w)) = Cardinality(BeforeY(materials[m][a], w))
    BY <1>5
  <2>2. \A w : Cardinality(YOf(m)!TakenAfter(a, w)) = Cardinality(AfterY(materials[m][a], w))
    BY <1>5
  <2> QED BY <1>1, <2>1, <2>2, SameGridYOf DEF YOf!Conserves, ConservesY
<1> QED BY <1>6, <1>7, <1>8, <1>9

LEMMA CompleteConserved ==
  ASSUME WideGrid, NEW f, DOMAIN f = 0 .. Size(FaceKind) - 1, Complete(f, FaceKind)
  PROVE  Conserved(f)
<1>1. FaceKind \in FaceKinds
  BY DEF FaceKind, FaceKinds
<1>2. CompleteAs(WallsOf(FaceKind), f, FaceKind)
  BY <1>1, CompleteIs
<1> DEFINE closed == WallsOf(FaceKind)
<1>3. CompleteAs(closed, f, FaceKind)
  BY <1>2
<1> HIDE DEF closed
<1>4. CASE InX
  <2>1. CompleteAs(closed, f, "facex") /\ DOMAIN f = 0 .. Size("facex") - 1
    BY <1>3, <1>4 DEF FaceKind
  <2> SUFFICES ASSUME NEW i \in DOMAIN f, f[i] # Zero
               PROVE  f[i] # Garbage /\ Cardinality(BeforeX(f, f[i])) = Cardinality(AfterX(f, f[i]))
    BY <1>4 DEF Conserved, ConservesX
  <2>2. f[i] # Garbage /\ (\E p : BeforeX(f, f[i]) = {p}) /\ (\E p : AfterX(f, f[i]) = {p})
    BY <2>1, TakenOnceX
  <2> QED BY <2>2, FS_Singleton
<1>5. CASE ~InX
  <2>1. CompleteAs(closed, f, "facey") /\ DOMAIN f = 0 .. Size("facey") - 1
    BY <1>3, <1>5 DEF FaceKind
  <2> SUFFICES ASSUME NEW i \in DOMAIN f, f[i] # Zero
               PROVE  f[i] # Garbage /\ Cardinality(BeforeY(f, f[i])) = Cardinality(AfterY(f, f[i]))
    BY <1>5 DEF Conserved, ConservesY
  <2>2. f[i] # Garbage /\ (\E p : BeforeY(f, f[i]) = {p}) /\ (\E p : AfterY(f, f[i]) = {p})
    BY <2>1, TakenOnceY
  <2> QED BY <2>2, FS_Singleton
<1> QED BY <1>4, <1>5
-----------------------------------------------------------------------------
\* The stores of crossings S, of which s has the flux w[s].
Spread(S, w) == UNION {{<<f, w[s]>> : f \in s.to} : s \in S}

\* The crossings of a row, and of the ends, in the direction of the sweep.
InnerFaces(iy) == IF InX THEN X!InnerFaces(iy) ELSE Y!InnerFaces(iy)
SeamFaces      == IF InX THEN X!SeamFaces ELSE Y!SeamFaces

OneEach(C, c, face, w) == {<<face[i], w[c[i]]>> : i \in C}

LEMMA SpreadOne ==
  ASSUME NEW C, NEW c, NEW face, \A i \in C : c[i].to = {face[i]}, NEW w
  PROVE  Spread({c[i] : i \in C}, w) = OneEach(C, c, face, w)
<1> DEFINE one(i) == {<<f, w[c[i]]>> : f \in c[i].to}
<1>1. Spread({c[i] : i \in C}, w) = UNION {one(i) : i \in C}
  BY DEF Spread
<1>2. \A i \in C : one(i) = {<<face[i], w[c[i]]>>}
  OBVIOUS
<1> HIDE DEF one
<1> QED BY <1>1, <1>2 DEF OneEach

TwoEach(C, c, first, last, w) ==
  UNION {{<<first[i], w[c[i]]>>, <<last[i], w[c[i]]>>} : i \in C}

LEMMA SpreadTwo ==
  ASSUME NEW C, NEW c, NEW first, NEW last, \A i \in C : c[i].to = {first[i], last[i]}, NEW w
  PROVE  Spread({c[i] : i \in C}, w) = TwoEach(C, c, first, last, w)
<1> DEFINE two(i) == {<<f, w[c[i]]>> : f \in c[i].to}
           pair(i) == {<<first[i], w[c[i]]>>, <<last[i], w[c[i]]>>}
<1>1. Spread({c[i] : i \in C}, w) = UNION {two(i) : i \in C}
  BY DEF Spread
<1>2. \A i \in C : two(i) = pair(i)
  OBVIOUS
<1> HIDE DEF two, pair
<1>3. UNION {two(i) : i \in C} = UNION {pair(i) : i \in C}
  BY <1>2
<1> QED BY <1>1, <1>3 DEF pair, TwoEach

LEMMA RowSpread ==
  ASSUME WideGrid, NEW f, DOMAIN f = 0 .. Size(FaceKind) - 1,
         NEW iy \in FaceRows(FaceKind), NEW rows, FluxesOn(f, FaceKind, FacesOf(FaceKind, rows)),
         NEW w, \A s \in InnerFaces(iy) : w[s] \in Borne(Fold(FaceKind, s.at))
  PROVE  FluxesOn(Stored(f, Spread(InnerFaces(iy), w)), FaceKind, FacesOf(FaceKind, rows \cup {iy}))
<1> DEFINE stores == Spread(InnerFaces(iy), w)
<1>1. CASE InX
  <2> DEFINE C == 1 .. nx - 1
             crossing(ix) == X!Crossing(<<ix, iy>>, {X!FaceXAt(ix, iy, nx)},
                                        X!FaceXCellM1(X!FaceXAt(ix, iy, nx), iy, nx),
                                        X!FaceXCellP1(X!FaceXAt(ix, iy, nx), iy, nx), X!FaceXAt(ix, iy, nx))
             c == [ix \in C |-> crossing(ix)]
             face == [ix \in C |-> FaceXAt(ix, iy, nx)]
             v == [ix \in C |-> w[c[ix]]]
  <2>1. FaceKind = "facex" /\ FaceRows("facex") = CellRows /\ InnerFaces(iy) = X!InnerFaces(iy)
    BY <1>1 DEF FaceKind, FaceRows, InnerFaces
  <2>2. X!InnerFaces(iy) = {crossing(ix) : ix \in C}
    BY DEF X!InnerFaces
  <2>3. \A ix \in C : crossing(ix).to = {face[ix]} /\ crossing(ix).at = <<ix, iy>>
    BY DEF X!Crossing, X!FaceXAt, FaceXAt
  <2> HIDE DEF crossing
  <2>4. X!InnerFaces(iy) = {c[ix] : ix \in C}
    BY <2>2
  <2>5. \A ix \in C : c[ix].to = {face[ix]} /\ c[ix].at = <<ix, iy>>
    BY <2>3
  <2> HIDE DEF c
  <2>6. \A ix \in C : v[ix] \in Borne(Fold("facex", <<ix, iy>>))
    BY <2>1, <2>4, <2>5
  <2>7. \A ix \in C : v[ix] = w[c[ix]] /\ face[ix] = FaceXAt(ix, iy, nx)
    OBVIOUS
  <2> HIDE DEF v, face
  <2>8. stores = {<<face[ix], w[c[ix]]>> : ix \in C}
    <3> HIDE DEF C
    <3>1. Spread({c[ix] : ix \in C}, w) = {<<face[ix], w[c[ix]]>> : ix \in C}
      <4>1. \A ix \in C : c[ix].to = {face[ix]}
        BY <2>5
      <4>2. Spread({c[ix] : ix \in C}, w) = OneEach(C, c, face, w)
        <5> HIDE DEF stores
        <5> QED BY <4>1, SpreadOne
      <4> QED BY <4>2 DEF OneEach
    <3> QED BY <2>1, <2>4, <3>1
  <2>9. stores = {<<FaceXAt(ix, iy, nx), v[ix]>> : ix \in C}
    BY <2>7, <2>8
  <2> HIDE DEF stores
  <2>10. FluxesOn(Stored(f, stores), "facex", FacesOf("facex", rows \cup {iy}))
    BY <2>1, <2>6, <2>9, RowOfFacesX
  <2> QED BY <2>1, <2>10 DEF stores
<1>2. CASE ~InX
  <2> DEFINE C == 0 .. nx - 1
             crossing(ix) == Y!Crossing(<<ix, iy>>, {Y!FaceYAt(ix, iy, nx)},
                                        Y!FaceYCellM1(Y!FaceYAt(ix, iy, nx), iy, nx),
                                        Y!FaceYCellP1(Y!FaceYAt(ix, iy, nx), iy, nx), Y!FaceYAt(ix, iy, nx))
             c == [ix \in C |-> crossing(ix)]
             face == [ix \in C |-> FaceYAt(ix, iy, nx)]
             v == [ix \in C |-> w[c[ix]]]
  <2>1. FaceKind = "facey" /\ FaceRows("facey") = Inner /\ InnerFaces(iy) = Y!InnerFaces(iy)
    BY <1>2 DEF FaceKind, FaceRows, InnerFaces
  <2>2. Y!InnerFaces(iy) = {crossing(ix) : ix \in C}
    BY DEF Y!InnerFaces
  <2>3. \A ix \in C : crossing(ix).to = {face[ix]} /\ crossing(ix).at = <<ix, iy>>
    BY DEF Y!Crossing, Y!FaceYAt, FaceYAt
  <2> HIDE DEF crossing
  <2>4. Y!InnerFaces(iy) = {c[ix] : ix \in C}
    BY <2>2
  <2>5. \A ix \in C : c[ix].to = {face[ix]} /\ c[ix].at = <<ix, iy>>
    BY <2>3
  <2> HIDE DEF c
  <2>6. \A ix \in C : v[ix] \in Borne(Fold("facey", <<ix, iy>>))
    BY <2>1, <2>4, <2>5
  <2>7. \A ix \in C : v[ix] = w[c[ix]] /\ face[ix] = FaceYAt(ix, iy, nx)
    OBVIOUS
  <2> HIDE DEF v, face
  <2>8. stores = {<<face[ix], w[c[ix]]>> : ix \in C}
    <3> HIDE DEF C
    <3>1. Spread({c[ix] : ix \in C}, w) = {<<face[ix], w[c[ix]]>> : ix \in C}
      <4>1. \A ix \in C : c[ix].to = {face[ix]}
        BY <2>5
      <4>2. Spread({c[ix] : ix \in C}, w) = OneEach(C, c, face, w)
        <5> HIDE DEF stores
        <5> QED BY <4>1, SpreadOne
      <4> QED BY <4>2 DEF OneEach
    <3> QED BY <2>1, <2>4, <3>1
  <2>9. stores = {<<FaceYAt(ix, iy, nx), v[ix]>> : ix \in C}
    BY <2>7, <2>8
  <2> HIDE DEF stores
  <2>10. FluxesOn(Stored(f, stores), "facey", FacesOf("facey", rows \cup {iy}))
    BY <2>1, <2>6, <2>9, RowOfFacesY
  <2> QED BY <2>1, <2>10 DEF stores
<1> QED BY <1>1, <1>2

LEMMA EdgeSpread ==
  ASSUME WideGrid, NEW f, DOMAIN f = 0 .. Size(FaceKind) - 1,
         FluxesOn(f, FaceKind, FacesOf(FaceKind, FaceRows(FaceKind))),
         NEW w, \A s \in SeamFaces : IF WallsOf(FaceKind) THEN w[s] = Zero
                                     ELSE w[s] \in Borne(Fold(FaceKind, s.at))
  PROVE  Complete(Stored(f, Spread(SeamFaces, w)), FaceKind)
<1> DEFINE stores == Spread(SeamFaces, w)
           closed == WallsOf(FaceKind)
<1>0. FaceKind \in FaceKinds
  BY DEF FaceKind, FaceKinds
<1>1. CASE InX
  <2> DEFINE C == CellRows
             crossing(iy) == X!Crossing(<<0, iy>>, {X!FirstFace(iy), X!LastFace(iy)},
                                        X!FaceXCellM1(X!LastFace(iy), iy, nx),
                                        X!FaceXCellP1(X!FirstFace(iy), iy, nx), X!FirstFace(iy))
             c == [iy \in C |-> crossing(iy)]
             first == [iy \in C |-> FaceXAt(0, iy, nx)]
             last == [iy \in C |-> FaceXAt(nx, iy, nx)]
             v == [iy \in C |-> w[c[iy]]]
  <2>1. FaceKind = "facex" /\ FaceRows("facex") = CellRows /\ SeamFaces = X!SeamFaces
    BY <1>1 DEF FaceKind, FaceRows, SeamFaces
  <2>2. X!SeamFaces = {crossing(iy) : iy \in C}
    BY SameGridX, SameStoresX DEF X!SeamFaces
  <2>3. \A iy \in C : crossing(iy).to = {first[iy], last[iy]} /\ crossing(iy).at = <<0, iy>>
    <3>1. \A iy \in C : FaceXAt(0, iy, nx) = X!FirstFace(iy) /\ FaceXAt(nx, iy, nx) = X!LastFace(iy)
      BY DEF FaceXAt, X!FirstFace, X!LastFace, CellRows, WideGrid
    <3> QED BY <3>1 DEF X!Crossing
  <2> HIDE DEF crossing
  <2>4. X!SeamFaces = {c[iy] : iy \in C}
    BY <2>2
  <2>5. \A iy \in C : c[iy].to = {first[iy], last[iy]} /\ c[iy].at = <<0, iy>>
    BY <2>3
  <2> HIDE DEF c
  <2>6. \A iy \in C : IF closed THEN v[iy] = Zero ELSE v[iy] \in Borne(<<0, iy>>)
    <3> TAKE iy \in C
    <3>1. Fold("facex", <<0, iy>>) = <<0, iy>>
      <4>1. <<0, iy>> \in Places("facex")
        BY DEF Places, LastX, LastY, StaggeredX, StaggeredY, WideGrid, CellRows
      <4> QED BY <4>1, FaceFold DEF FaceKinds, AtEnd, WallsOf, WideGrid
    <3> QED BY <2>1, <2>4, <2>5, <3>1
  <2>7. \A iy \in C : /\ v[iy] = w[c[iy]]
                       /\ first[iy] = FaceXAt(0, iy, nx) /\ last[iy] = FaceXAt(nx, iy, nx)
    OBVIOUS
  <2> HIDE DEF v, first, last
  <2>8. stores = UNION {{<<first[iy], w[c[iy]]>>, <<last[iy], w[c[iy]]>>} : iy \in C}
    <3> HIDE DEF C
    <3>1. Spread({c[iy] : iy \in C}, w) =
          UNION {{<<first[iy], w[c[iy]]>>, <<last[iy], w[c[iy]]>>} : iy \in C}
      <4> HIDE DEF closed
      <4>1. \A iy \in C : c[iy].to = {first[iy], last[iy]}
        BY <2>5
      <4>2. Spread({c[ix] : ix \in C}, w) = TwoEach(C, c, first, last, w)
        <5> HIDE DEF stores
        <5> QED BY <4>1, SpreadTwo
      <4> QED BY <4>2 DEF TwoEach
    <3> QED BY <2>1, <2>4, <3>1
  <2>9. stores = UNION {{<<FaceXAt(0, iy, nx), v[iy]>>, <<FaceXAt(nx, iy, nx), v[iy]>>} : iy \in C}
    <3> DEFINE one(iy) == {<<first[iy], w[c[iy]]>>, <<last[iy], w[c[iy]]>>}
               two(iy) == {<<FaceXAt(0, iy, nx), v[iy]>>, <<FaceXAt(nx, iy, nx), v[iy]>>}
    <3>1. \A iy \in C : one(iy) = two(iy)
      BY <2>7
    <3>2. stores = UNION {one(iy) : iy \in C}
      BY <2>8
    <3> HIDE DEF one, two
    <3>3. UNION {one(iy) : iy \in C} = UNION {two(iy) : iy \in C}
      BY <3>1
    <3> QED BY <3>2, <3>3 DEF two
  <2> HIDE DEF stores, closed
  <2>10. CompleteAs(closed, Stored(f, stores), "facex")
    BY <2>1, <2>6, <2>9, EdgeOfFacesX
  <2> QED BY <1>0, <2>1, <2>10, CompleteIs DEF stores, closed
<1>2. CASE ~InX
  <2> DEFINE C == 0 .. nx - 1
             crossing(ix) == Y!Crossing(<<ix, 0>>, {Y!FirstFace(ix), Y!LastFace(ix)},
                                        Y!FaceYCellM1(Y!LastFace(ix), ny, nx),
                                        Y!FaceYCellP1(Y!FirstFace(ix), 0, nx), Y!FirstFace(ix))
             c == [ix \in C |-> crossing(ix)]
             first == [ix \in C |-> FaceYAt(ix, 0, nx)]
             last == [ix \in C |-> FaceYAt(ix, ny, nx)]
             v == [ix \in C |-> w[c[ix]]]
  <2>1. FaceKind = "facey" /\ FaceRows("facey") = Inner /\ SeamFaces = Y!SeamFaces
    BY <1>2 DEF FaceKind, FaceRows, SeamFaces
  <2>2. Y!SeamFaces = {crossing(ix) : ix \in C}
    BY DEF Y!SeamFaces
  <2>3. \A ix \in C : crossing(ix).to = {first[ix], last[ix]} /\ crossing(ix).at = <<ix, 0>>
    <3>1. \A ix \in C : FaceYAt(ix, 0, nx) = Y!FirstFace(ix) /\ FaceYAt(ix, ny, nx) = Y!LastFace(ix)
      BY DEF FaceYAt, Y!FirstFace, Y!LastFace, WideGrid
    <3> QED BY <3>1 DEF Y!Crossing
  <2> HIDE DEF crossing
  <2>4. Y!SeamFaces = {c[ix] : ix \in C}
    BY <2>2
  <2>5. \A ix \in C : c[ix].to = {first[ix], last[ix]} /\ c[ix].at = <<ix, 0>>
    BY <2>3
  <2> HIDE DEF c
  <2>6. \A ix \in C : IF closed THEN v[ix] = Zero ELSE v[ix] \in Borne(<<ix, 0>>)
    <3> TAKE ix \in C
    <3>1. Fold("facey", <<ix, 0>>) = <<ix, 0>>
      <4>1. <<ix, 0>> \in Places("facey")
        BY DEF Places, LastX, LastY, StaggeredX, StaggeredY, WideGrid
      <4> QED BY <4>1, FaceFold DEF FaceKinds, AtEnd, WallsOf, WideGrid
    <3> QED BY <2>1, <2>4, <2>5, <3>1
  <2>7. \A ix \in C : /\ v[ix] = w[c[ix]]
                       /\ first[ix] = FaceYAt(ix, 0, nx) /\ last[ix] = FaceYAt(ix, ny, nx)
    OBVIOUS
  <2> HIDE DEF v, first, last
  <2>8. stores = UNION {{<<first[ix], w[c[ix]]>>, <<last[ix], w[c[ix]]>>} : ix \in C}
    <3> HIDE DEF C
    <3>1. Spread({c[ix] : ix \in C}, w) =
          UNION {{<<first[ix], w[c[ix]]>>, <<last[ix], w[c[ix]]>>} : ix \in C}
      <4> HIDE DEF closed
      <4>1. \A ix \in C : c[ix].to = {first[ix], last[ix]}
        BY <2>5
      <4>2. Spread({c[ix] : ix \in C}, w) = TwoEach(C, c, first, last, w)
        <5> HIDE DEF stores
        <5> QED BY <4>1, SpreadTwo
      <4> QED BY <4>2 DEF TwoEach
    <3> QED BY <2>1, <2>4, <3>1
  <2>9. stores = UNION {{<<FaceYAt(ix, 0, nx), v[ix]>>, <<FaceYAt(ix, ny, nx), v[ix]>>} : ix \in C}
    <3> DEFINE one(ix) == {<<first[ix], w[c[ix]]>>, <<last[ix], w[c[ix]]>>}
               two(ix) == {<<FaceYAt(ix, 0, nx), v[ix]>>, <<FaceYAt(ix, ny, nx), v[ix]>>}
    <3>1. \A ix \in C : one(ix) = two(ix)
      BY <2>7
    <3>2. stores = UNION {one(ix) : ix \in C}
      BY <2>8
    <3> HIDE DEF one, two
    <3>3. UNION {one(ix) : ix \in C} = UNION {two(ix) : ix \in C}
      BY <3>1
    <3> QED BY <3>2, <3>3 DEF two
  <2> HIDE DEF stores, closed
  <2>10. CompleteAs(closed, Stored(f, stores), "facey")
    BY <2>1, <2>6, <2>9, EdgeOfFacesY
  <2> QED BY <1>0, <2>1, <2>10, CompleteIs DEF stores, closed
<1> QED BY <1>1, <1>2
-----------------------------------------------------------------------------
\* What a kernel spreads over crossings: a result for the place of each, or 0.
Spreads(stores, S, closed) ==
  \E w : /\ stores = Spread(S, w)
         /\ \A s \in S : IF closed THEN w[s] = Zero ELSE w[s] \in Borne(Fold(FaceKind, s.at))

LEMMA SpreadsFrom ==
  ASSUME NEW stores, NEW S, NEW closed, NEW w, stores = Spread(S, w),
         \A s \in S : IF closed THEN w[s] = Zero ELSE w[s] \in Borne(Fold(FaceKind, s.at))
  PROVE  Spreads(stores, S, closed)
  BY DEF Spreads

LEMMA FluxesSpreadX ==
  ASSUME InX, NEW a, NEW S
  PROVE  /\ Spreads(X!Fluxes(a, S), S, FALSE)
         /\ \A m : Spreads(XOf(m)!Fluxes(a, S), S, FALSE)
<1>1. FaceKind = "facex"
  BY DEF FaceKind
<1>2. Spreads(X!Fluxes(a, S), S, FALSE)
  <2> DEFINE w == [s \in S |-> X!Computed("facex", s.at, X!FluxReads(a, s))]
  <2>1. X!Fluxes(a, S) = UNION {{<<f, w[s]>> : f \in s.to} : s \in S}
    BY DEF X!Fluxes
  <2>2. \A s \in S : w[s] \in Borne(Fold("facex", s.at))
    BY SameGridX, SameStoresX DEF Borne, Results
  <2> HIDE DEF w
  <2> QED BY <1>1, <2>1, <2>2 DEF Spreads, Spread
<1>3. ASSUME NEW m PROVE Spreads(XOf(m)!Fluxes(a, S), S, FALSE)
  <2> DEFINE w == [s \in S |-> XOf(m)!Computed("facex", s.at, XOf(m)!FluxReads(a, s))]
  <2>1. XOf(m)!Fluxes(a, S) = UNION {{<<f, w[s]>> : f \in s.to} : s \in S}
    BY DEF XOf!Fluxes
  <2>2. \A s \in S : w[s] \in Borne(Fold("facex", s.at))
    BY SameGridXOf DEF Borne, Results
  <2> HIDE DEF w
  <2> QED BY <1>1, <2>1, <2>2 DEF Spreads, Spread
<1> QED BY <1>2, <1>3

LEMMA FluxesSpreadY ==
  ASSUME ~InX, NEW a, NEW S
  PROVE  /\ Spreads(Y!Fluxes(a, S), S, FALSE)
         /\ \A m : Spreads(YOf(m)!Fluxes(a, S), S, FALSE)
<1>1. FaceKind = "facey"
  BY DEF FaceKind
<1>2. Spreads(Y!Fluxes(a, S), S, FALSE)
  <2> DEFINE w == [s \in S |-> Y!Computed("facey", s.at, Y!FluxReads(a, s))]
  <2>1. Y!Fluxes(a, S) = UNION {{<<f, w[s]>> : f \in s.to} : s \in S}
    BY DEF Y!Fluxes
  <2>2. \A s \in S : w[s] \in Borne(Fold("facey", s.at))
    BY SameGridY, SameStoresY DEF Borne, Results
  <2> HIDE DEF w
  <2> QED BY <1>1, <2>1, <2>2 DEF Spreads, Spread
<1>3. ASSUME NEW m PROVE Spreads(YOf(m)!Fluxes(a, S), S, FALSE)
  <2> DEFINE w == [s \in S |-> YOf(m)!Computed("facey", s.at, YOf(m)!FluxReads(a, s))]
  <2>1. YOf(m)!Fluxes(a, S) = UNION {{<<f, w[s]>> : f \in s.to} : s \in S}
    BY DEF YOf!Fluxes
  <2>2. \A s \in S : w[s] \in Borne(Fold("facey", s.at))
    BY SameGridYOf DEF Borne, Results
  <2> HIDE DEF w
  <2> QED BY <1>1, <2>1, <2>2 DEF Spreads, Spread
<1> QED BY <1>2, <1>3

\* The kernels of the walls.
ZerosThrough(S) == UNION {{<<f, Zero>> : f \in s.to} : s \in S}

LEMMA WallsSpread == \A S : Spreads(ZerosThrough(S), S, TRUE)
<1> TAKE S
<1> DEFINE w == [s \in S |-> Zero]
<1>1. ZerosThrough(S) = UNION {{<<f, w[s]>> : f \in s.to} : s \in S}
  BY DEF ZerosThrough
<1>2. \A s \in S : w[s] = Zero
  OBVIOUS
<1> HIDE DEF w
<1> QED BY <1>1, <1>2 DEF Spreads, Spread

LEMMA WallKernels ==
  /\ \A a : X!ReconstructFluxOrder2XWallBoundary(a) = ZerosThrough(X!SeamFaces)
  /\ \A a : Y!ReconstructFluxOrder2YWallBoundary(a) = ZerosThrough(Y!SeamFaces)
  /\ \A m, a : XOf(m)!ReconstructFluxOrder2XWallBoundary(a) = ZerosThrough(X!SeamFaces)
  /\ \A m, a : YOf(m)!ReconstructFluxOrder2YWallBoundary(a) = ZerosThrough(Y!SeamFaces)
<1>1. \A a : X!ReconstructFluxOrder2XWallBoundary(a) = ZerosThrough(X!SeamFaces)
  <2> TAKE a
  <2> DEFINE s(iy) == X!Crossing(<<0, iy>>, {X!FirstFace(iy), X!LastFace(iy)},
                                 X!FaceXCellM1(X!LastFace(iy), iy, nx),
                                 X!FaceXCellP1(X!FirstFace(iy), iy, nx), X!FirstFace(iy))
             one(iy) == {<<f, Zero>> : f \in s(iy).to}
             two(iy) == {<<X!FirstFace(iy), X!Zero>>, <<X!LastFace(iy), X!Zero>>}
  <2>1. X!SeamFaces = {s(iy) : iy \in X!CellRows}
    BY DEF X!SeamFaces
  <2>2. \A iy : one(iy) = two(iy)
    BY SameGridX, SameStoresX DEF X!Crossing
  <2>3. X!ReconstructFluxOrder2XWallBoundary(a) = UNION {two(iy) : iy \in X!CellRows}
    BY DEF X!ReconstructFluxOrder2XWallBoundary
  <2> HIDE DEF two
  <2>4. X!ReconstructFluxOrder2XWallBoundary(a) = UNION {one(iy) : iy \in X!CellRows}
    <3> HIDE DEF one
    <3> QED BY <2>2, <2>3
  <2> HIDE DEF s
  <2> QED BY <2>1, <2>4 DEF ZerosThrough
<1>2. \A a : Y!ReconstructFluxOrder2YWallBoundary(a) = ZerosThrough(Y!SeamFaces)
  <2> TAKE a
  <2> DEFINE C == 0 .. nx - 1
             s(ix) == Y!Crossing(<<ix, 0>>, {Y!FirstFace(ix), Y!LastFace(ix)},
                                 Y!FaceYCellM1(Y!LastFace(ix), ny, nx),
                                 Y!FaceYCellP1(Y!FirstFace(ix), 0, nx), Y!FirstFace(ix))
             one(ix) == {<<f, Zero>> : f \in s(ix).to}
             two(ix) == {<<Y!FirstFace(ix), Y!Zero>>, <<Y!LastFace(ix), Y!Zero>>}
  <2>1. Y!SeamFaces = {s(ix) : ix \in C}
    BY DEF Y!SeamFaces
  <2>2. \A ix : one(ix) = two(ix)
    BY SameGridY, SameStoresY DEF Y!Crossing
  <2>3. Y!ReconstructFluxOrder2YWallBoundary(a) = UNION {two(ix) : ix \in C}
    BY DEF Y!ReconstructFluxOrder2YWallBoundary
  <2> HIDE DEF two, C
  <2>4. Y!ReconstructFluxOrder2YWallBoundary(a) = UNION {one(ix) : ix \in C}
    <3> HIDE DEF one
    <3> QED BY <2>2, <2>3
  <2> HIDE DEF s
  <2> QED BY <2>1, <2>4 DEF ZerosThrough
<1>3. \A m, a : XOf(m)!ReconstructFluxOrder2XWallBoundary(a) = X!ReconstructFluxOrder2XWallBoundary(a)
  BY DEF XOf!ReconstructFluxOrder2XWallBoundary, X!ReconstructFluxOrder2XWallBoundary,
         XOf!FirstFace, X!FirstFace, XOf!LastFace, X!LastFace, XOf!Zero, X!Zero, XOf!CellRows, X!CellRows
<1>4. \A m, a : YOf(m)!ReconstructFluxOrder2YWallBoundary(a) = Y!ReconstructFluxOrder2YWallBoundary(a)
  BY DEF YOf!ReconstructFluxOrder2YWallBoundary, Y!ReconstructFluxOrder2YWallBoundary,
         YOf!FirstFace, Y!FirstFace, YOf!LastFace, Y!LastFace, YOf!Zero, Y!Zero
<1> QED BY <1>1, <1>2, <1>3, <1>4

\* The kernels of a flux.
LEMMA FluxKernels ==
  /\ \A a, iy : Spreads(Flux(a, iy), InnerFaces(iy), FALSE)
  /\ \A m, a, iy : Spreads(FluxOf(m, a, iy), InnerFaces(iy), FALSE)
  /\ \A a : Spreads(FluxBoundary(a), SeamFaces, WallsOf(FaceKind))
  /\ \A m, a : Spreads(FluxBoundaryOf(m, a), SeamFaces, WallsOf(FaceKind))
<1>1. CASE InX
  <2>0. FaceKind = "facex" /\ WallsOf("facex") = (BoundaryConditions = "Wall")
        /\ SeamFaces = X!SeamFaces /\ \A iy : InnerFaces(iy) = X!InnerFaces(iy)
    BY <1>1 DEF FaceKind, WallsOf, WallsX, SeamFaces, InnerFaces
  <2>1. \A a, iy : Spreads(Flux(a, iy), InnerFaces(iy), FALSE)
    BY <1>1, <2>0, FluxesSpreadX DEF Flux, X!ReconstructFluxOrder2X
  <2>2. \A m, a, iy : Spreads(FluxOf(m, a, iy), InnerFaces(iy), FALSE)
    BY <1>1, <2>0, FluxesSpreadX DEF FluxOf
  <2>3. ASSUME NEW a PROVE Spreads(FluxBoundary(a), SeamFaces, WallsOf(FaceKind))
    <3>1. CASE BoundaryConditions = "Wall"
      BY <1>1, <2>0, <3>1, WallsSpread, WallKernels DEF FluxBoundary, X!ReconstructFluxOrder2XBoundary
    <3>2. CASE BoundaryConditions # "Wall"
      <4>1. FluxBoundary(a) = X!Fluxes(a, X!SeamFaces)
        BY <1>1, <3>2 DEF FluxBoundary, X!ReconstructFluxOrder2XBoundary,
             X!ReconstructFluxOrder2XBoundaryRt, X!ReconstructFluxOrder2XPeriodicBoundary
      <4>2. WallsOf(FaceKind) = FALSE
        BY <2>0, <3>2
      <4> QED BY <1>1, <2>0, <4>1, <4>2, FluxesSpreadX
    <3> QED BY <3>1, <3>2
  <2>4. ASSUME NEW m, NEW a PROVE Spreads(FluxBoundaryOf(m, a), SeamFaces, WallsOf(FaceKind))
    <3>1. CASE BoundaryConditions = "Wall"
      BY <1>1, <2>0, <3>1, WallsSpread, WallKernels DEF FluxBoundaryOf, WallsX
    <3>2. CASE BoundaryConditions # "Wall"
      <4>1. FluxBoundaryOf(m, a) = XOf(m)!Fluxes(a, X!SeamFaces)
        BY <1>1, <3>2, SameCrossings DEF FluxBoundaryOf, WallsX, XOf!ReconstructFluxOrder2XPeriodicBoundary
      <4>2. WallsOf(FaceKind) = FALSE
        BY <2>0, <3>2
      <4> QED BY <1>1, <2>0, <4>1, <4>2, FluxesSpreadX
    <3> QED BY <3>1, <3>2
  <2> QED BY <2>1, <2>2, <2>3, <2>4
<1>2. CASE ~InX
  <2>0. FaceKind = "facey" /\ WallsOf("facey") = (BoundaryConditions \in {"Wall", "RayleighTaylor"})
        /\ SeamFaces = Y!SeamFaces /\ \A iy : InnerFaces(iy) = Y!InnerFaces(iy)
    BY <1>2 DEF FaceKind, WallsOf, WallsY, SeamFaces, InnerFaces
  <2>1. \A a, iy : Spreads(Flux(a, iy), InnerFaces(iy), FALSE)
    BY <1>2, <2>0, FluxesSpreadY DEF Flux, Y!ReconstructFluxOrder2Y
  <2>2. \A m, a, iy : Spreads(FluxOf(m, a, iy), InnerFaces(iy), FALSE)
    BY <1>2, <2>0, FluxesSpreadY DEF FluxOf
  <2>3. ASSUME NEW a PROVE Spreads(FluxBoundary(a), SeamFaces, WallsOf(FaceKind))
    <3>1. CASE BoundaryConditions \in {"Wall", "RayleighTaylor"}
      BY <1>2, <2>0, <3>1, WallsSpread, WallKernels
         DEF FluxBoundary, Y!ReconstructFluxOrder2YBoundary, Y!ReconstructFluxOrder2YBoundaryRt
    <3>2. CASE BoundaryConditions \notin {"Wall", "RayleighTaylor"}
      <4>1. FluxBoundary(a) = Y!Fluxes(a, Y!SeamFaces)
        BY <1>2, <3>2 DEF FluxBoundary, Y!ReconstructFluxOrder2YBoundary,
             Y!ReconstructFluxOrder2YPeriodicBoundary
      <4>2. WallsOf(FaceKind) = FALSE
        BY <2>0, <3>2 DEF WallsOf, WallsY
      <4> QED BY <1>2, <2>0, <4>1, <4>2, FluxesSpreadY
    <3> QED BY <3>1, <3>2
  <2>4. ASSUME NEW m, NEW a PROVE Spreads(FluxBoundaryOf(m, a), SeamFaces, WallsOf(FaceKind))
    <3>1. CASE BoundaryConditions \in {"Wall", "RayleighTaylor"}
      BY <1>2, <2>0, <3>1, WallsSpread, WallKernels
         DEF FluxBoundaryOf, WallsY
    <3>2. CASE BoundaryConditions \notin {"Wall", "RayleighTaylor"}
      <4>1. FluxBoundaryOf(m, a) = YOf(m)!Fluxes(a, Y!SeamFaces)
        BY <1>2, <3>2, SameCrossings DEF FluxBoundaryOf, WallsY, YOf!ReconstructFluxOrder2YPeriodicBoundary
      <4>2. WallsOf(FaceKind) = FALSE
        BY <2>0, <3>2 DEF WallsOf, WallsY
      <4> QED BY <1>2, <2>0, <4>1, <4>2, FluxesSpreadY
    <3> QED BY <3>1, <3>2
  <2> QED BY <2>1, <2>2, <2>3, <2>4
<1> QED BY <1>1, <1>2
-----------------------------------------------------------------------------
\* No volume goes through the first faces of the Rayleigh-Taylor problem in y, nor is any
\* material cut off there.
FirstClosed ==
  ~InX /\ BoundaryConditions = "RayleighTaylor" =>
    \A ix \in Columns : Y!FirstFace(ix) \in DOMAIN mem[Volumes] /\ mem[Volumes][Y!FirstFace(ix)] = Zero

LEMMA DrivenBorne ==
  \A k, p, velocities, reads : Driven(velocities, Computed(k, p, reads)) \in Borne(Fold(k, p))
  BY ComputedResults DEF Driven, Results, Borne

LEMMA FractionsSpread == \A S : Spreads(Fractions(S), S, FALSE)
<1> TAKE S
<1> DEFINE w == [s \in S |-> Driven({Along(Volumes, 0, s.face)}, Computed(FaceKind, s.at, FractionReads(s)))]
<1>1. Fractions(S) = UNION {{<<f, w[s]>> : f \in s.to} : s \in S}
  BY DEF Fractions
<1>2. \A s \in S : w[s] \in Borne(Fold(FaceKind, s.at))
  BY DrivenBorne
<1> HIDE DEF w
<1> QED BY <1>1, <1>2 DEF Spreads, Spread

LEMMA FractionsClosed ==
  ASSUME ~InX, BoundaryConditions = "RayleighTaylor", FirstClosed
  PROVE  Spreads(Fractions(Y!SeamFaces), Y!SeamFaces, TRUE)
<1> DEFINE S == Y!SeamFaces
           w == [s \in S |-> Driven({Along(Volumes, 0, s.face)}, Computed(FaceKind, s.at, FractionReads(s)))]
<1>1. Fractions(S) = UNION {{<<f, w[s]>> : f \in s.to} : s \in S}
  BY DEF Fractions
<1>2. \A s \in S : \E ix \in Columns : s.face = Y!FirstFace(ix)
  BY DEF Y!SeamFaces, Y!Crossing, Columns
<1>3. \A s \in S : s.face \in DOMAIN mem[Volumes] /\ mem[Volumes][s.face] = Zero
  BY <1>2 DEF FirstClosed
<1>4. \A s \in S : w[s] = Zero
  <2> TAKE s \in S
  <2>1. w[s] = Driven({Along(Volumes, 0, s.face)}, Computed(FaceKind, s.at, FractionReads(s)))
    OBVIOUS
  <2>2. Along(Volumes, 0, s.face)[1] = Volumes /\ Along(Volumes, 0, s.face)[4] = s.face
    BY DEF Along
  <2>3. \A flux : Driven({Along(Volumes, 0, s.face)}, flux) = Zero
    BY <1>3, <2>2 DEF Driven
  <2> HIDE DEF w
  <2> QED BY <2>1, <2>3
<1> HIDE DEF w
<1> QED BY <1>1, <1>4 DEF Spreads, Spread

LEMMA FractionKernels ==
  /\ \A iy : Spreads(FractionalVolumeFluxes(iy), InnerFaces(iy), FALSE)
  /\ FirstClosed => Spreads(FractionalVolumeFluxesBoundary, SeamFaces, WallsOf(FaceKind))
<1>1. \A iy : Spreads(FractionalVolumeFluxes(iy), InnerFaces(iy), FALSE)
  BY FractionsSpread DEF FractionalVolumeFluxes, InnerFaces
<1>2. ASSUME FirstClosed PROVE Spreads(FractionalVolumeFluxesBoundary, SeamFaces, WallsOf(FaceKind))
  <2>1. CASE BoundaryConditions = "Wall"
    <3>1. FractionalVolumeFluxesBoundary = ZerosThrough(SeamFaces)
      BY <2>1, WallKernels DEF FractionalVolumeFluxesBoundary, SeamFaces,
           FractionalVolumeFluxesXBoundaryWall, FractionalVolumeFluxesYBoundaryWall
    <3>2. WallsOf(FaceKind) = TRUE
      BY <2>1 DEF WallsOf, WallsX, WallsY
    <3> QED BY <3>1, <3>2, WallsSpread
  <2>2. CASE ~InX /\ BoundaryConditions = "RayleighTaylor"
    <3>1. FractionalVolumeFluxesBoundary = Fractions(Y!SeamFaces) /\ SeamFaces = Y!SeamFaces
      BY <2>2 DEF FractionalVolumeFluxesBoundary, SeamFaces, FractionalVolumeFluxesYPeriodicBoundary
    <3>2. WallsOf(FaceKind) = TRUE
      BY <2>2 DEF WallsOf, WallsY, FaceKind
    <3> QED BY <1>2, <2>2, <3>1, <3>2, FractionsClosed
  <2>3. CASE BoundaryConditions # "Wall" /\ ~(~InX /\ BoundaryConditions = "RayleighTaylor")
    <3>1. FractionalVolumeFluxesBoundary = Fractions(SeamFaces)
      BY <2>3 DEF FractionalVolumeFluxesBoundary, SeamFaces,
           FractionalVolumeFluxesXPeriodicBoundary, FractionalVolumeFluxesYPeriodicBoundary
    <3>2. WallsOf(FaceKind) = FALSE
      BY <2>3 DEF WallsOf, WallsX, WallsY, FaceKind
    <3> QED BY <3>1, <3>2, FractionsSpread
  <2> QED BY <2>1, <2>2, <2>3
<1> QED BY <1>1, <1>2

\* A row of a loop, and the boundary kernel, whose stores are spread over crossings.
LEMMA RowSpreads ==
  ASSUME WideGrid, NEW f, DOMAIN f = 0 .. Size(FaceKind) - 1,
         NEW iy \in FaceRows(FaceKind), NEW rows, FluxesOn(f, FaceKind, FacesOf(FaceKind, rows)),
         NEW stores, Spreads(stores, InnerFaces(iy), FALSE)
  PROVE  FluxesOn(Stored(f, stores), FaceKind, FacesOf(FaceKind, rows \cup {iy}))
<1>1. PICK w : /\ stores = Spread(InnerFaces(iy), w)
               /\ \A s \in InnerFaces(iy) : w[s] \in Borne(Fold(FaceKind, s.at))
  BY DEF Spreads
<1> QED BY <1>1, RowSpread

LEMMA EdgeSpreads ==
  ASSUME WideGrid, NEW f, DOMAIN f = 0 .. Size(FaceKind) - 1,
         FluxesOn(f, FaceKind, FacesOf(FaceKind, FaceRows(FaceKind))),
         NEW stores, Spreads(stores, SeamFaces, WallsOf(FaceKind))
  PROVE  Complete(Stored(f, stores), FaceKind)
<1>1. PICK w : /\ stores = Spread(SeamFaces, w)
               /\ \A s \in SeamFaces : IF WallsOf(FaceKind) THEN w[s] = Zero
                                       ELSE w[s] \in Borne(Fold(FaceKind, s.at))
  BY DEF Spreads
<1> QED BY <1>1, EdgeSpread
-----------------------------------------------------------------------------
\* The cells that give all they have: those of one material in one row, and the face that a
\* cell gives through.
DrainedOK == drained \in SUBSET (Both \X (Nat \X Nat) \X {"prev", "next"}) /\ OneWay(drained)
Giving(m, iy) == {t \in drained : t[1] = m /\ t[2] \in Columns \X {iy}}
Gate(t) == IF t[3] = "prev" THEN t[2] ELSE NextPlace(t[2])

\* Corrections of row iy: one value g[t] for the cell t, to the face it gives through, where
\* material m flows.
CorrectionsAre(m, iy, stores) ==
  \E g : \A s \in stores :
    \E t \in Giving(m, iy) : /\ s = <<At(FaceKind, Gate(t)), g[t]>>
                            /\ g[t] \in Stamps(Fold(FaceKind, Gate(t)))
                            /\ Flows(m, Volumes, s[1])

LEMMA GateInside ==
  ASSUME WideGrid, DrainedOK, NEW m, NEW iy \in CellRows, NEW t \in Giving(m, iy)
  PROVE  /\ t = <<m, t[2], t[3]>> /\ t[3] \in {"prev", "next"}
         /\ t[2] = <<t[2][1], iy>> /\ t[2][1] \in 0 .. nx - 1 /\ iy \in 0 .. ny - 1
         /\ Gate(t) \in Places(FaceKind)
         /\ At(FaceKind, Gate(t)) = LET c == CellAt(t[2][1], iy, nx)
                                    IN IF t[3] = "prev" THEN FaceBefore(c, iy) ELSE FaceAfter(c, iy)
<1>1. /\ t = <<m, t[2], t[3]>> /\ t[3] \in {"prev", "next"}
      /\ t[2] = <<t[2][1], iy>> /\ t[2][1] \in 0 .. nx - 1 /\ iy \in 0 .. ny - 1
  BY DEF DrainedOK, Giving, Columns, CellRows
<1> DEFINE x == t[2][1]
<1>2. /\ <<x, iy>> \in Places("cell") /\ CellAt(x, iy, nx) = At("cell", <<x, iy>>)
      /\ <<x, iy>>[1] = x /\ <<x, iy>>[2] = iy
  BY <1>1 DEF Places, LastX, LastY, StaggeredX, StaggeredY, At
<1>3. /\ CellFaceM1O(CellAt(x, iy, nx), iy, nx) = FaceXAt(x, iy, nx)
      /\ CellFaceP1O(CellAt(x, iy, nx), iy, nx) = FaceXAt(x + 1, iy, nx)
      /\ CellFaceOM1(CellAt(x, iy, nx), iy, nx) = FaceYAt(x, iy, nx)
      /\ CellFaceOP1(CellAt(x, iy, nx), iy, nx) = FaceYAt(x, iy + 1, nx)
  BY <1>2, FacesOfCells
<1>4. /\ InX => FaceKind = "facex" /\ \A p : At("facex", p) = FaceXAt(p[1], p[2], nx)
      /\ ~InX => FaceKind = "facey" /\ \A p : At("facey", p) = FaceYAt(p[1], p[2], nx)
  BY DEF FaceKind, At, StaggeredX, NodeAt, FaceXAt, CellAt, FaceYAt
<1>5. Gate(t) = IF t[3] = "prev" THEN <<x, iy>> ELSE IF InX THEN <<x + 1, iy>> ELSE <<x, iy + 1>>
  <2>1. t[2][1] = x /\ t[2][2] = iy
    BY <1>1
  <2> QED BY <1>1, <2>1 DEF Gate, NextPlace
<1>6. Gate(t) \in Places(FaceKind)
  BY <1>1, <1>4, <1>5 DEF Places, LastX, LastY, StaggeredX, StaggeredY, WideGrid
<1>7. At(FaceKind, Gate(t)) = IF t[3] = "prev" THEN FaceBefore(CellAt(x, iy, nx), iy)
                              ELSE FaceAfter(CellAt(x, iy, nx), iy)
  BY <1>3, <1>4, <1>5 DEF FaceBefore, FaceAfter
<1> QED BY <1>1, <1>6, <1>7

LEMMA CorrectedStamps ==
  \A q, value : Corrected(q, value) \in Stamps(Fold(FaceKind, q))
  BY DEF Corrected, Stamps

LEMMA ChecksCorrect ==
  ASSUME WideGrid, DrainedOK, NEW m, NEW iy \in CellRows
  PROVE  CorrectionsAre(m, iy, CheckVolumeFluxes(m, iy)) /\ CorrectionsAre(m, iy, CheckMassFlux(m, iy))
<1> DEFINE T == Giving(m, iy)
           before(t) == t[3] = "prev"
           c(t) == CellAt(t[2][1], iy, nx)
           k(t) == IF before(t) THEN 0 ELSE -1
           face(t) == IF before(t) THEN FaceBefore(c(t), iy) ELSE FaceAfter(c(t), iy)
           value(t, reads) == Value(FaceKind, Gate(t), {Along("fraction", k(t), c(t)), Along(LagVolume, k(t), c(t))},
                                    Of(m, OwnFaces(Volumes, c(t), iy, k(t)) \cup reads))
           g1 == [t \in T |-> Corrected(Gate(t), value(t, {}))]
           g2 == [t \in T |-> Corrected(Gate(t), value(t, {Along("mass", k(t), c(t))}))]
<1>1. CheckVolumeFluxes(m, iy) = {s \in {<<face(t), g1[t]>> : t \in T} : Flows(m, Volumes, s[1])}
  BY DEF CheckVolumeFluxes, Corrections, Giving, Gate
<1>2. CheckMassFlux(m, iy) = {s \in {<<face(t), g2[t]>> : t \in T} : Flows(m, Volumes, s[1])}
  BY DEF CheckMassFlux, Corrections, Giving, Gate
<1>3. \A t \in T : g1[t] \in Stamps(Fold(FaceKind, Gate(t))) /\ g2[t] \in Stamps(Fold(FaceKind, Gate(t)))
  BY CorrectedStamps
<1>4. \A t \in T : face(t) = At(FaceKind, Gate(t))
  BY GateInside
<1> HIDE DEF g1, g2, face, value, T
<1>5. CorrectionsAre(m, iy, CheckVolumeFluxes(m, iy))
  <2>1. \A s \in CheckVolumeFluxes(m, iy) :
          \E t \in T : /\ s = <<At(FaceKind, Gate(t)), g1[t]>> /\ g1[t] \in Stamps(Fold(FaceKind, Gate(t)))
                       /\ Flows(m, Volumes, s[1])
    BY <1>1, <1>3, <1>4
  <2> QED BY <2>1 DEF CorrectionsAre, T
<1>6. CorrectionsAre(m, iy, CheckMassFlux(m, iy))
  <2>1. \A s \in CheckMassFlux(m, iy) :
          \E t \in T : /\ s = <<At(FaceKind, Gate(t)), g2[t]>> /\ g2[t] \in Stamps(Fold(FaceKind, Gate(t)))
                       /\ Flows(m, Volumes, s[1])
    BY <1>2, <1>3, <1>4
  <2> QED BY <2>1 DEF CorrectionsAre, T
<1> QED BY <1>5, <1>6

\* Two of them do not meet in a face.
LEMMA GatesApart ==
  ASSUME WideGrid, DrainedOK, NEW m, NEW iy \in CellRows,
         NEW s \in Giving(m, iy), NEW t \in Giving(m, iy), Gate(s) = Gate(t)
  PROVE  s = t
<1>1. /\ s = <<m, s[2], s[3]>> /\ s[3] \in {"prev", "next"} /\ s[2] = <<s[2][1], iy>>
      /\ s[2][1] \in 0 .. nx - 1 /\ iy \in 0 .. ny - 1
  BY GateInside
<1>2. /\ t = <<m, t[2], t[3]>> /\ t[3] \in {"prev", "next"} /\ t[2] = <<t[2][1], iy>>
      /\ t[2][1] \in 0 .. nx - 1
  BY GateInside
<1>3. \A d \in drained : d[3] = "next" => <<d[1], NextPlace(d[2]), "prev">> \notin drained
  BY DEF DrainedOK, OneWay
<1>4. s \in drained /\ t \in drained /\ s[1] = m /\ t[1] = m
  BY DEF Giving
<1>5. ~(s[3] = "next" /\ t[3] = "prev")
  <2> SUFFICES ASSUME s[3] = "next", t[3] = "prev" PROVE FALSE
    OBVIOUS
  <2>1. t[2] = NextPlace(s[2])
    BY DEF Gate
  <2> QED BY <1>2, <1>3, <1>4, <2>1
<1>6. ~(s[3] = "prev" /\ t[3] = "next")
  <2> SUFFICES ASSUME s[3] = "prev", t[3] = "next" PROVE FALSE
    OBVIOUS
  <2>1. s[2] = NextPlace(t[2])
    BY DEF Gate
  <2> QED BY <1>1, <1>3, <1>4, <2>1
<1>7. s[3] = t[3]
  BY <1>1, <1>2, <1>5, <1>6
<1>8. CASE s[3] = "prev"
  BY <1>1, <1>2, <1>7, <1>8 DEF Gate
<1>9. CASE s[3] = "next"
  <2>1. NextPlace(s[2]) = NextPlace(t[2])
    BY <1>7, <1>9 DEF Gate
  <2>2. s[2][1] = t[2][1]
    BY <1>1, <1>2, <2>1 DEF NextPlace
  <2> QED BY <1>1, <1>2, <1>7, <2>2
<1> QED BY <1>1, <1>8, <1>9
-----------------------------------------------------------------------------
\* Stores to some places, of which no two disagree.
Agree(f, k, stores) ==
  /\ DOMAIN f = 0 .. Size(k) - 1
  /\ \A s \in stores : \E p \in Places(k) : s[1] = At(k, p)
  /\ \A r, s \in stores : r[1] = s[1] => r[2] = s[2]

KeptOrStored(f, stores, i) ==
  \/ Stored(f, stores)[i] = f[i]
  \/ \E s \in stores : s[1] = i /\ Stored(f, stores)[i] = s[2]

LEMMA StoredSome ==
  ASSUME Grid, NEW k \in Kinds, NEW f, NEW stores, Agree(f, k, stores), NEW p \in Places(k)
  PROVE  KeptOrStored(f, stores, At(k, p))
<1>0. /\ DOMAIN f = 0 .. Size(k) - 1
      /\ \A s \in stores : \E q \in Places(k) : s[1] = At(k, q)
      /\ \A r, s \in stores : r[1] = s[1] => r[2] = s[2]
  BY DEF Agree
<1> DEFINE i == At(k, p)
<1>1. Stored(f, stores) = [j \in DOMAIN f |-> Element(f, stores, j)]
  <2>1. Indices(stores) \subseteq DOMAIN f
    BY <1>0, ElementsInside DEF Indices
  <2> QED BY <2>1, StoredElements
<1>2. i \in DOMAIN f
  BY <1>0, ElementsInside
<1> HIDE DEF i
<1>3. CASE i \notin Indices(stores)
  <2>1. Element(f, stores, i) = f[i]
    BY <1>3, ElementKept
  <2>2. Stored(f, stores)[i] = f[i]
    BY <1>1, <1>2, <2>1
  <2> QED BY <2>2 DEF i, KeptOrStored
<1>4. CASE i \in Indices(stores)
  <2>1. PICK s \in stores : s[1] = i
    BY <1>4 DEF Indices
  <2>2. {t[2] : t \in {t \in stores : t[1] = i}} = {s[2]}
    BY <1>0, <2>1
  <2>3. Element(f, stores, i) = s[2]
    BY <2>2 DEF Element
  <2>4. s[1] = i /\ Stored(f, stores)[i] = s[2]
    BY <1>1, <1>2, <2>1, <2>3
  <2> QED BY <2>1, <2>4 DEF i, KeptOrStored
<1> QED BY <1>3, <1>4

\* The corrections leave the ends of the grid alone, when no cell on a seam gives over it.
LEMMA GatesInside ==
  ASSUME WideGrid, DrainedOK, NEW m \in Both, OverSeam(m) = {},
         DOMAIN materials[m][Volumes] = 0 .. Size(FaceKind) - 1,
         Complete(materials[m][Volumes], FaceKind),
         NEW iy \in CellRows, NEW t \in Giving(m, iy), Flows(m, Volumes, At(FaceKind, Gate(t)))
  PROVE  ~AtEnd(FaceKind, Gate(t))
<1> SUFFICES ASSUME AtEnd(FaceKind, Gate(t)) PROVE FALSE
  OBVIOUS
<1>1. /\ t = <<m, t[2], t[3]>> /\ t[3] \in {"prev", "next"} /\ t[2] = <<t[2][1], iy>>
      /\ t[2][1] \in 0 .. nx - 1 /\ iy \in 0 .. ny - 1 /\ Gate(t) \in Places(FaceKind)
  BY GateInside
<1>2. ~WallsOf(FaceKind)
  BY <1>1 DEF Complete, FaceFlux, Flows
<1>3. t \notin OverSeam(m) /\ t \in drained /\ t[1] = m
  BY DEF Giving
<1> DEFINE x == t[2][1]
<1>4. t[2][2] = iy
  BY <1>1
<1>5. CASE InX
  <2>1. Gate(t)[1] = IF t[3] = "prev" THEN x ELSE x + 1
    BY <1>1, <1>4, <1>5 DEF Gate, NextPlace
  <2>2. ~WallsX /\ Gate(t)[1] \in {0, nx}
    BY <1>2, <1>5 DEF WallsOf, FaceKind, AtEnd
  <2>3. ~(x = IF t[3] = "prev" THEN 0 ELSE nx - 1)
    BY <1>3, <1>5, <2>2 DEF OverSeam
  <2> QED BY <1>1, <2>1, <2>2, <2>3 DEF WideGrid
<1>6. CASE ~InX
  <2>1. Gate(t)[2] = IF t[3] = "prev" THEN iy ELSE iy + 1
    BY <1>1, <1>4, <1>6 DEF Gate, NextPlace
  <2>2. ~WallsY /\ Gate(t)[2] \in {0, ny}
    BY <1>2, <1>6 DEF WallsOf, FaceKind, AtEnd
  <2>3. ~(iy = IF t[3] = "prev" THEN 0 ELSE ny - 1)
    BY <1>3, <1>4, <1>6, <2>2 DEF OverSeam
  <2> QED BY <1>1, <2>1, <2>2, <2>3 DEF WideGrid
<1> QED BY <1>5, <1>6

\* They keep fluxes complete.
LEMMA CheckKeeps ==
  ASSUME WideGrid, DrainedOK, NEW m \in Both, OverSeam(m) = {},
         DOMAIN materials[m][Volumes] = 0 .. Size(FaceKind) - 1,
         Complete(materials[m][Volumes], FaceKind),
         NEW iy \in CellRows, NEW stores, CorrectionsAre(m, iy, stores),
         NEW f, DOMAIN f = 0 .. Size(FaceKind) - 1, Complete(f, FaceKind)
  PROVE  Complete(Stored(f, stores), FaceKind)
<1> DEFINE k == FaceKind
           h == Stored(f, stores)
<1>1. Grid /\ k \in Kinds /\ k \in FaceKinds
  BY WideGridIsGrid DEF FaceKind, Kinds, FaceKinds
<1>2. PICK g : \A s \in stores :
        \E t \in Giving(m, iy) : /\ s = <<At(k, Gate(t)), g[t]>> /\ g[t] \in Stamps(Fold(k, Gate(t)))
                                 /\ Flows(m, Volumes, s[1])
  BY DEF CorrectionsAre
<1>3. \A s \in stores :
        \E t \in Giving(m, iy) : /\ s[1] = At(k, Gate(t)) /\ s[2] = g[t] /\ g[t] \in Stamps(Fold(k, Gate(t)))
                                 /\ Flows(m, Volumes, At(k, Gate(t)))
  <2> TAKE s \in stores
  <2>1. PICK t \in Giving(m, iy) : /\ s = <<At(k, Gate(t)), g[t]>> /\ g[t] \in Stamps(Fold(k, Gate(t)))
                                   /\ Flows(m, Volumes, s[1])
    BY <1>2
  <2>2. s[1] = At(k, Gate(t)) /\ s[2] = g[t]
    BY <2>1
  <2> QED BY <2>1, <2>2
<1>4. \A t \in Giving(m, iy) : Gate(t) \in Places(k)
  BY GateInside
<1> HIDE DEF k
<1>5. \A s \in stores : \E p \in Places(k) : s[1] = At(k, p)
  BY <1>3, <1>4
<1>6. \A r, s \in stores : r[1] = s[1] => r[2] = s[2]
  <2> SUFFICES ASSUME NEW r \in stores, NEW s \in stores, r[1] = s[1] PROVE r[2] = s[2]
    OBVIOUS
  <2>1. PICK u \in Giving(m, iy) : r[1] = At(k, Gate(u)) /\ r[2] = g[u]
    BY <1>3
  <2>2. PICK t \in Giving(m, iy) : s[1] = At(k, Gate(t)) /\ s[2] = g[t]
    BY <1>3
  <2>3. Gate(u) = Gate(t)
    BY <1>1, <1>4, <2>1, <2>2, ElementsApart
  <2>4. u = t
    BY <2>3, GatesApart
  <2> QED BY <2>1, <2>2, <2>4
<1>7. ASSUME NEW p \in Places(k)
      PROVE  h[At(k, p)] = f[At(k, p)] \/ (~AtEnd(k, p) /\ h[At(k, p)] \in Borne(Fold(k, p)))
  <2>1. DOMAIN f = 0 .. Size(k) - 1
    BY DEF k
  <2>2. h[At(k, p)] = f[At(k, p)] \/ \E s \in stores : s[1] = At(k, p) /\ h[At(k, p)] = s[2]
    <3>1. Agree(f, k, stores)
      BY <1>5, <1>6, <2>1 DEF Agree
    <3>2. KeptOrStored(f, stores, At(k, p))
      BY <1>1, <3>1, StoredSome
    <3> QED BY <3>2 DEF KeptOrStored
  <2>3. ASSUME NEW s \in stores, s[1] = At(k, p)
        PROVE  ~AtEnd(k, p) /\ s[2] \in Borne(Fold(k, p))
    <3>1. PICK t \in Giving(m, iy) : /\ s[1] = At(k, Gate(t)) /\ s[2] = g[t]
                                     /\ g[t] \in Stamps(Fold(k, Gate(t)))
                                     /\ Flows(m, Volumes, At(k, Gate(t)))
      BY <1>3
    <3>2. Gate(t) = p
      BY <1>1, <1>4, <2>3, <3>1, ElementsApart
    <3>3. ~AtEnd(k, Gate(t))
      BY <3>1, GatesInside DEF k
    <3> QED BY <3>1, <3>2, <3>3 DEF Borne
  <2> QED BY <2>2, <2>3
<1> HIDE DEF h
<1>8. ASSUME NEW p \in Places(k) PROVE FaceFlux(h, k, p)
  <2>0. FaceFlux(f, k, p)
    BY DEF Complete, k
  <2>1. CASE ~AtEnd(k, p)
    <3>1. Fold(k, p) = p
      BY <1>1, <2>1, FaceFold
    <3>2. f[At(k, p)] \in Borne(Fold(k, p))
      BY <2>0, <2>1 DEF FaceFlux
    <3> QED BY <1>7, <2>1, <3>1, <3>2 DEF FaceFlux
  <2>2. CASE AtEnd(k, p)
    <3>1. h[At(k, p)] = f[At(k, p)]
      BY <1>7, <2>2
    <3>2. CASE WallsOf(k)
      BY <2>0, <2>2, <3>1, <3>2 DEF FaceFlux
    <3>3. CASE ~WallsOf(k)
      <4>1. Fold(k, p) \in Places(k) /\ AtEnd(k, Fold(k, p))
        <5>1. Fold(k, p) = Base(WallsOf(k), k, p)
          BY <1>1, <3>3, FaceFold DEF Base, WallsOf, FaceKinds
        <5> QED BY <1>1, <2>2, <5>1, BaseInside DEF Base, AtEnd, FaceKinds
      <4>2. h[At(k, Fold(k, p))] = f[At(k, Fold(k, p))]
        BY <1>7, <4>1
      <4> QED BY <2>0, <3>1, <3>3, <4>2 DEF FaceFlux
    <3> QED BY <3>2, <3>3
  <2> QED BY <2>1, <2>2
<1> QED BY <1>8 DEF Complete, h, k
-----------------------------------------------------------------------------
\* The arrays of a bank that a call stores into, and its stores into one of them.
Banks == {0} \cup Both
Into(h, call) == IF h \in Both THEN IF h \in call.of THEN call.own ELSE {} ELSE call.outs
LoopInto(call, h, a, iy) == IF h \in Both THEN LoopStoresOf(call, h, a, iy) ELSE LoopStores(call, a, iy)
EdgeInto(call, h, a) == IF h \in Both THEN BoundaryStoresOf(call, h, a) ELSE BoundaryStores(call, a)

Settings == UNCHANGED <<nx, ny, BoundaryConditions, TypeOfModel, direction, drained>>

\* What a step does to the array a of bank h.
Idle(h, a)    == pc' = pc /\ todo' = todo /\ Bank(h)'[a] = Bank(h)[a]
NoRow(h, a)   == todo = {} /\ pc' = pc + 1 /\ todo' = RowsAfter /\ Bank(h)'[a] = Bank(h)[a]
RowInto(h, a) ==
  \E iy \in todo :
    /\ pc' = IF todo = {iy} THEN pc + 1 ELSE pc
    /\ todo' = IF todo = {iy} THEN RowsAfter ELSE todo \ {iy}
    /\ Bank(h)'[a] = IF a \in Into(h, Driver[pc]) THEN Stored(Bank(h)[a], LoopInto(Driver[pc], h, a, iy))
                     ELSE Bank(h)[a]
EdgeOver(h, a) ==
  /\ pc' = pc + 1 /\ todo' = RowsAfter
  /\ Bank(h)'[a] = IF a \in Into(h, Driver[pc]) THEN Stored(Bank(h)[a], EdgeInto(Driver[pc], h, a))
                   ELSE Bank(h)[a]

BankStep(h, a) ==
  \/ Idle(h, a)
  \/ Calls("loop") /\ NoRow(h, a)
  \/ Calls("loop") /\ RowInto(h, a)
  \/ Calls("boundary") /\ EdgeOver(h, a)

LEMMA BothBanks == /\ 0 \notin Both /\ \A h \in Banks : h = 0 \/ h \in Both
                   /\ Bank(0) = mem /\ \A h \in Both : Bank(h) = materials[h]
  BY DEF Both, Banks, Bank

LEMMA StepSettings == ASSUME [Next]_allvars PROVE Settings
<1>1. CASE Row
  <2>1. UNCHANGED <<nx, ny, BoundaryConditions>>
    BY <1>1 DEF Row, RowDone
  <2> QED BY <1>1, <2>1 DEF Row, Settings
<1>2. CASE Edge
  BY <1>2 DEF Edge, Settings
<1>3. CASE UNCHANGED allvars
  BY <1>3 DEF allvars, vars, Settings
<1> QED BY <1>1, <1>2, <1>3 DEF Next

\* What After says, without its operators.
LoopDone(iy) ==
  /\ mem' = [a \in DOMAIN mem |->
       IF a \in Driver[pc].outs THEN Stored(mem[a], LoopStores(Driver[pc], a, iy)) ELSE mem[a]]
  /\ materials' = [m \in Both |-> [a \in DOMAIN materials[m] |->
       IF m \in Driver[pc].of /\ a \in Driver[pc].own
       THEN Stored(materials[m][a], LoopStoresOf(Driver[pc], m, a, iy)) ELSE materials[m][a]]]

EdgeDone ==
  /\ mem' = [a \in DOMAIN mem |->
       IF a \in Driver[pc].outs THEN Stored(mem[a], BoundaryStores(Driver[pc], a)) ELSE mem[a]]
  /\ materials' = [m \in Both |-> [a \in DOMAIN materials[m] |->
       IF m \in Driver[pc].of /\ a \in Driver[pc].own
       THEN Stored(materials[m][a], BoundaryStoresOf(Driver[pc], m, a)) ELSE materials[m][a]]]

\* The same, bank by bank.
LEMMA RowOver ==
  ASSUME NEW iy, LoopDone(iy), NEW h \in Banks
  PROVE  /\ DOMAIN materials' = Both
         /\ DOMAIN Bank(h)' = DOMAIN Bank(h)
         /\ \A a \in DOMAIN Bank(h) :
              Bank(h)'[a] = IF a \in Into(h, Driver[pc]) THEN Stored(Bank(h)[a], LoopInto(Driver[pc], h, a, iy))
                            ELSE Bank(h)[a]
<1>1. CASE h \in Both
  <2>1. Bank(h) = materials[h] /\ Bank(h)' = materials'[h]
    BY <1>1 DEF Bank
  <2>2. \A a : LoopInto(Driver[pc], h, a, iy) = LoopStoresOf(Driver[pc], h, a, iy)
    BY <1>1 DEF LoopInto
  <2>3. \A a : a \in Into(h, Driver[pc]) <=> h \in Driver[pc].of /\ a \in Driver[pc].own
    BY <1>1 DEF Into
  <2>4. materials'[h] = [a \in DOMAIN materials[h] |->
            IF h \in Driver[pc].of /\ a \in Driver[pc].own
            THEN Stored(materials[h][a], LoopStoresOf(Driver[pc], h, a, iy)) ELSE materials[h][a]]
    BY <1>1 DEF LoopDone
  <2>5. DOMAIN materials'[h] = DOMAIN materials[h]
    BY <2>4
  <2>6. ASSUME NEW a \in DOMAIN materials[h]
        PROVE  materials'[h][a] = IF h \in Driver[pc].of /\ a \in Driver[pc].own
                                  THEN Stored(materials[h][a], LoopStoresOf(Driver[pc], h, a, iy))
                                  ELSE materials[h][a]
    BY <2>4
  <2>7. DOMAIN materials' = Both
    BY DEF LoopDone
  <2> QED BY <2>1, <2>2, <2>3, <2>5, <2>6, <2>7
<1>2. CASE h \notin Both
  <2>1. Bank(h) = mem /\ Bank(h)' = mem'
    BY <1>2 DEF Bank
  <2>2. \A a : LoopInto(Driver[pc], h, a, iy) = LoopStores(Driver[pc], a, iy)
    BY <1>2 DEF LoopInto
  <2>3. Into(h, Driver[pc]) = Driver[pc].outs
    BY <1>2 DEF Into
  <2>4. DOMAIN mem' = DOMAIN mem
    BY DEF LoopDone
  <2>5. ASSUME NEW a \in DOMAIN mem
        PROVE  mem'[a] = IF a \in Driver[pc].outs THEN Stored(mem[a], LoopStores(Driver[pc], a, iy)) ELSE mem[a]
    BY DEF LoopDone
  <2>6. DOMAIN materials' = Both
    BY DEF LoopDone
  <2> QED BY <2>1, <2>2, <2>3, <2>4, <2>5, <2>6
<1> QED BY <1>1, <1>2

LEMMA EdgeOfAll ==
  ASSUME EdgeDone, NEW h \in Banks
  PROVE  /\ DOMAIN materials' = Both
         /\ DOMAIN Bank(h)' = DOMAIN Bank(h)
         /\ \A a \in DOMAIN Bank(h) :
              Bank(h)'[a] = IF a \in Into(h, Driver[pc]) THEN Stored(Bank(h)[a], EdgeInto(Driver[pc], h, a))
                            ELSE Bank(h)[a]
<1>1. CASE h \in Both
  <2>1. Bank(h) = materials[h] /\ Bank(h)' = materials'[h]
    BY <1>1 DEF Bank
  <2>2. \A a : EdgeInto(Driver[pc], h, a) = BoundaryStoresOf(Driver[pc], h, a)
    BY <1>1 DEF EdgeInto
  <2>3. \A a : a \in Into(h, Driver[pc]) <=> h \in Driver[pc].of /\ a \in Driver[pc].own
    BY <1>1 DEF Into
  <2>4. materials'[h] = [a \in DOMAIN materials[h] |->
            IF h \in Driver[pc].of /\ a \in Driver[pc].own
            THEN Stored(materials[h][a], BoundaryStoresOf(Driver[pc], h, a)) ELSE materials[h][a]]
    BY <1>1 DEF EdgeDone
  <2>5. DOMAIN materials'[h] = DOMAIN materials[h]
    BY <2>4
  <2>6. ASSUME NEW a \in DOMAIN materials[h]
        PROVE  materials'[h][a] = IF h \in Driver[pc].of /\ a \in Driver[pc].own
                                  THEN Stored(materials[h][a], BoundaryStoresOf(Driver[pc], h, a))
                                  ELSE materials[h][a]
    BY <2>4
  <2>7. DOMAIN materials' = Both
    BY DEF EdgeDone
  <2> QED BY <2>1, <2>2, <2>3, <2>5, <2>6, <2>7
<1>2. CASE h \notin Both
  <2>1. Bank(h) = mem /\ Bank(h)' = mem'
    BY <1>2 DEF Bank
  <2>2. \A a : EdgeInto(Driver[pc], h, a) = BoundaryStores(Driver[pc], a)
    BY <1>2 DEF EdgeInto
  <2>3. Into(h, Driver[pc]) = Driver[pc].outs
    BY <1>2 DEF Into
  <2>4. DOMAIN mem' = DOMAIN mem
    BY DEF EdgeDone
  <2>5. ASSUME NEW a \in DOMAIN mem
        PROVE  mem'[a] = IF a \in Driver[pc].outs THEN Stored(mem[a], BoundaryStores(Driver[pc], a)) ELSE mem[a]
    BY DEF EdgeDone
  <2>6. DOMAIN materials' = Both
    BY DEF EdgeDone
  <2> QED BY <2>1, <2>2, <2>3, <2>4, <2>5, <2>6
<1> QED BY <1>1, <1>2

\* A step keeps the sizes of all arrays.
SizesKept(h) ==
  /\ DOMAIN Bank(h)' = DOMAIN Bank(h)
  /\ \A a \in DOMAIN Bank(h) : DOMAIN Bank(h)'[a] = DOMAIN Bank(h)[a]

LEMMA StepsOfBanks ==
  ASSUME DOMAIN materials = Both, [Next]_allvars, NEW h \in Banks
  PROVE  /\ DOMAIN materials' = Both
         /\ SizesKept(h)
         /\ \A a \in DOMAIN Bank(h) : BankStep(h, a)
<1>1. CASE Row /\ todo = {} /\ pc' = pc + 1 /\ todo' = RowsAfter /\ mem' = mem /\ materials' = materials
  <2>1. Bank(h)' = Bank(h)
    BY <1>1 DEF Bank
  <2>2. Calls("loop")
    BY <1>1 DEF Row
  <2> QED BY <1>1, <2>1, <2>2 DEF SizesKept, BankStep, NoRow
<1>2. CASE Row /\ ~(todo = {} /\ pc' = pc + 1 /\ todo' = RowsAfter /\ mem' = mem /\ materials' = materials)
  <2>1. Calls("loop")
    BY <1>2 DEF Row
  <2>2. PICK iy \in todo : LoopDone(iy) /\ RowDone(iy, pc + 1, RowsAfter)
    BY <1>2 DEF Row, After, LoopDone
  <2>3. /\ DOMAIN materials' = Both
        /\ DOMAIN Bank(h)' = DOMAIN Bank(h)
        /\ \A a \in DOMAIN Bank(h) :
             Bank(h)'[a] = IF a \in Into(h, Driver[pc])
                           THEN Stored(Bank(h)[a], LoopInto(Driver[pc], h, a, iy)) ELSE Bank(h)[a]
    BY <2>2, RowOver
  <2>4. SizesKept(h)
    BY <2>3, StoredKeeps DEF SizesKept
  <2>5. /\ pc' = IF todo = {iy} THEN pc + 1 ELSE pc
        /\ todo' = IF todo = {iy} THEN RowsAfter ELSE todo \ {iy}
    BY <2>2 DEF RowDone
  <2>6. \A a \in DOMAIN Bank(h) : RowInto(h, a)
    BY <2>3, <2>5 DEF RowInto
  <2> QED BY <2>1, <2>3, <2>4, <2>6 DEF BankStep
<1>3. CASE Edge
  <2>1. Calls("boundary") /\ pc' = pc + 1 /\ todo' = RowsAfter
    BY <1>3 DEF Edge
  <2>2. EdgeDone
    BY <1>3 DEF Edge, After, EdgeDone
  <2>3. /\ DOMAIN materials' = Both
        /\ DOMAIN Bank(h)' = DOMAIN Bank(h)
        /\ \A a \in DOMAIN Bank(h) :
             Bank(h)'[a] = IF a \in Into(h, Driver[pc])
                           THEN Stored(Bank(h)[a], EdgeInto(Driver[pc], h, a)) ELSE Bank(h)[a]
    BY <2>2, EdgeOfAll
  <2>4. SizesKept(h)
    BY <2>3, StoredKeeps DEF SizesKept
  <2>5. \A a \in DOMAIN Bank(h) : EdgeOver(h, a)
    BY <2>1, <2>3 DEF EdgeOver
  <2> QED BY <2>1, <2>3, <2>4, <2>5 DEF BankStep
<1>4. CASE UNCHANGED allvars
  <2>1. pc' = pc /\ todo' = todo /\ mem' = mem /\ materials' = materials
    BY <1>4 DEF allvars, vars
  <2>2. Bank(h)' = Bank(h)
    BY <2>1 DEF Bank
  <2> QED BY <2>1, <2>2 DEF SizesKept, BankStep, Idle
<1> QED BY <1>1, <1>2, <1>3, <1>4 DEF Next
-----------------------------------------------------------------------------
\* How far the array a of fluxes of bank h has come: the loop with the number first stores the
\* rows of faces, the boundary kernel with the number last the ends of the grid; what stores
\* into the array after that keeps it complete.
OnRow(h, a, iy) == FluxesOn(Bank(h)[a], FaceKind, FacesOf(FaceKind, {iy}))
Full(h, a)      == Complete(Bank(h)[a], FaceKind)

Stage(h, a, first, last) ==
  /\ pc = first => \A iy \in FaceRows(FaceKind) \ todo : OnRow(h, a, iy)
  /\ pc \in first + 1 .. last => \A iy \in FaceRows(FaceKind) : OnRow(h, a, iy)
  /\ pc > last => Full(h, a)

\* The calls of the driver that store into it.
Fits(h, a, first, last) ==
  /\ DOMAIN Bank(h)[a] = 0 .. Size(FaceKind) - 1
  /\ first \in DOMAIN Driver /\ last \in DOMAIN Driver /\ first < last
  /\ Driver[first].part = "loop" /\ Driver[first].rows = FaceRows(FaceKind)
  /\ Driver[last].part = "boundary"
  /\ a \in Into(h, Driver[first]) /\ a \in Into(h, Driver[last])
  /\ pc = first => \A iy : Spreads(LoopInto(Driver[pc], h, a, iy), InnerFaces(iy), FALSE)
  /\ pc = last => Spreads(EdgeInto(Driver[pc], h, a), SeamFaces, WallsOf(FaceKind))
  /\ pc \in DOMAIN Driver /\ a \in Into(h, Driver[pc]) /\ pc < last => pc = first
  /\ pc \in DOMAIN Driver /\ a \in Into(h, Driver[pc]) /\ pc > last /\ Full(h, a) =>
       /\ Driver[pc].part = "loop"
       /\ \A iy \in todo : Complete(Stored(Bank(h)[a], LoopInto(Driver[pc], h, a, iy)), FaceKind)

\* The rows of the call that runs.
TodoOK ==
  /\ DOMAIN Driver = 1 .. Len(Driver)
  /\ pc \in Nat \ {0}
  /\ pc \in DOMAIN Driver => todo \subseteq Driver[pc].rows

LEMMA SameFluxesNext ==
  ASSUME Settings, NEW h \in Banks, NEW a
  PROVE  /\ FaceKind' = FaceKind /\ FaceRows(FaceKind)' = FaceRows(FaceKind)
         /\ \A iy : OnRow(h, a, iy)' <=> FluxesOn(Bank(h)'[a], FaceKind, FacesOf(FaceKind, {iy}))
         /\ Full(h, a)' <=> Complete(Bank(h)'[a], FaceKind)
<1> DEFINE k == FaceKind
<1>0. SameSize /\ FaceKind' = FaceKind
  BY DEF Settings, SameSize, FaceKind, InX
<1>1. /\ \A p : At(k, p)' = At(k, p)
      /\ Places(k)' = Places(k) /\ CellRows' = CellRows /\ Inner' = Inner
  BY <1>0, SameGridNext DEF SameSize, At, StaggeredX, NodeAt, CellAt, Places, LastX, LastY, StaggeredY, CellRows, Inner
<1>2. WallsX' = WallsX /\ WallsY' = WallsY
  BY DEF WallsX, WallsY, Settings
<1>3. \A p : Fold(k, p)' = Fold(k, p)
  BY <1>0, <1>2 DEF Fold, Folded, Settings, StaggeredX, StaggeredY
<1>4. \A p : Borne(Fold(k, p))' = Borne(Fold(k, p))
  BY <1>3 DEF Borne, Stamps, Derived, Off, Zero
<1>5. \A p : AtEnd(k, p)' = AtEnd(k, p)
  BY <1>0 DEF AtEnd, Settings
<1>6. FaceRows(k)' = FaceRows(k) /\ WallsOf(k)' = WallsOf(k)
  BY <1>0, <1>1, <1>2 DEF FaceRows, WallsOf
<1>7. \A iy : FacesOf(k, {iy})' = FacesOf(k, {iy})
  BY <1>1, <1>5 DEF FacesOf
<1>8. \A iy : OnRow(h, a, iy)' <=> FluxesOn(Bank(h)'[a], k, FacesOf(k, {iy}))
  BY <1>1, <1>4, <1>7 DEF OnRow, FluxesOn
<1>9. Full(h, a)' <=> Complete(Bank(h)'[a], k)
  BY <1>1, <1>3, <1>4, <1>5, <1>6 DEF Full, Complete, FaceFlux
<1> QED BY <1>0, <1>6, <1>8, <1>9

\* The driver of the model, and the calls that follow.
LEMMA SameDriverNext ==
  ASSUME Settings
  PROVE  Driver' = Driver
<1>1. nx' = nx /\ ny' = ny /\ InX' = InX /\ Mix' = Mix
  BY DEF Settings, InX, Mix
<1>2. /\ Volumes' = Volumes /\ Masses' = Masses /\ Energies' = Energies /\ LagVolume' = LagVolume
      /\ LagDensity' = LagDensity /\ DensityGradient' = DensityGradient /\ EnergyGradient' = EnergyGradient
      /\ Concentrations' = Concentrations /\ ConcentrationGradient' = ConcentrationGradient
      /\ GradientU' = GradientU /\ GradientV' = GradientV
  BY <1>1 DEF Volumes, Masses, Energies, LagVolume, LagDensity, DensityGradient, EnergyGradient,
       Concentrations, ConcentrationGradient, GradientU, GradientV
<1>3. CellRows' = CellRows /\ NodeRows' = NodeRows /\ Inner' = Inner /\ (1 .. ny - 2)' = 1 .. ny - 2
  BY <1>1 DEF CellRows, NodeRows, Inner
<1>4. \A r, s : Rows(r, s)' = Rows(r, s)
  BY <1>1 DEF Rows
<1> HIDE DEF Volumes
<1>5. MassCalls' = MassCalls
  BY <1>1, <1>2, <1>3 DEF MassCalls, FluxCalls, Rows
<1>6. EnergyCalls' = EnergyCalls
  BY <1>1, <1>2, <1>3 DEF EnergyCalls, FluxCalls, Rows
<1>7. \A g, o : VelocityCalls(g, o)' = VelocityCalls(g, o)
  BY <1>1, <1>3 DEF VelocityCalls, Rows
<1>8. VelocityCalls(GradientU, "out_u")' = VelocityCalls(GradientU, "out_u")
      /\ VelocityCalls(GradientV, "out_v")' = VelocityCalls(GradientV, "out_v")
  BY <1>1, <1>2, <1>3 DEF VelocityCalls, Rows
<1>9. InterfaceDriver' = InterfaceDriver
  BY <1>3, <1>5, <1>6, <1>8 DEF InterfaceDriver
<1>10. MixDriver' = MixDriver
  BY <1>1, <1>2, <1>3, <1>8 DEF MixDriver, MixCalls, Rows
<1> QED BY <1>1, <1>9, <1>10 DEF Driver

LEMMA TodoNext ==
  ASSUME TodoOK, DOMAIN materials = Both, [Next]_allvars, 0 \in Banks, NEW a \in DOMAIN Bank(0)
  PROVE  TodoOK'
<1>1. Driver' = Driver
  BY StepSettings, SameDriverNext
<1>2. BankStep(0, a)
  BY StepsOfBanks
<1>3. DOMAIN Driver = 1 .. Len(Driver) /\ pc \in Nat \ {0} /\ (pc \in DOMAIN Driver => todo \subseteq Driver[pc].rows)
  BY DEF TodoOK
<1>4. RowsAfter = IF pc + 1 \in DOMAIN Driver THEN Driver[pc + 1].rows ELSE {}
  BY DEF RowsAfter
<1>5. \/ pc' = pc /\ todo' \subseteq todo
      \/ pc' = pc + 1 /\ todo' = RowsAfter
  BY <1>2 DEF BankStep, Idle, NoRow, RowInto, EdgeOver
<1>6. pc' \in Nat \ {0}
  BY <1>3, <1>5
<1>7. pc' \in DOMAIN Driver => todo' \subseteq Driver[pc'].rows
  BY <1>3, <1>4, <1>5
<1>8. DOMAIN Driver' = 1 .. Len(Driver')
  BY <1>1, <1>3
<1> QED BY <1>1, <1>6, <1>7, <1>8 DEF TodoOK

\* What FluxesOn says of several rows, row by row.
LEMMA OnRows ==
  ASSUME NEW f, NEW rows
  PROVE  FluxesOn(f, FaceKind, FacesOf(FaceKind, rows)) <=>
           \A iy \in rows : FluxesOn(f, FaceKind, FacesOf(FaceKind, {iy}))
  BY RowsTogether

LEMMA StageNext ==
  ASSUME WideGrid, TodoOK, DOMAIN materials = Both, [Next]_allvars,
         NEW h \in Banks, NEW a \in DOMAIN Bank(h), NEW first, NEW last,
         Fits(h, a, first, last), Stage(h, a, first, last)
  PROVE  Stage(h, a, first, last)'
<1> DEFINE f == Bank(h)[a]
           g == Bank(h)'[a]
           R == FaceRows(FaceKind)
           on(q, iy) == FluxesOn(q, FaceKind, FacesOf(FaceKind, {iy}))
           full(q) == Complete(q, FaceKind)
           call == Driver[pc]
<1>1. /\ FaceRows(FaceKind)' = R
      /\ \A iy : OnRow(h, a, iy)' <=> on(g, iy)
      /\ Full(h, a)' <=> full(g)
  BY StepSettings, SameFluxesNext
<1>2. BankStep(h, a)
  BY StepsOfBanks
<1>3. /\ DOMAIN Driver = 1 .. Len(Driver) /\ pc \in Nat \ {0}
      /\ pc \in DOMAIN Driver => todo \subseteq Driver[pc].rows
      /\ Len(Driver) \in Nat
  BY DEF TodoOK
<1>4. /\ DOMAIN f = 0 .. Size(FaceKind) - 1
      /\ first \in DOMAIN Driver /\ last \in DOMAIN Driver /\ first < last
      /\ Driver[first].part = "loop" /\ Driver[first].rows = R
      /\ Driver[last].part = "boundary"
      /\ a \in Into(h, Driver[first]) /\ a \in Into(h, Driver[last])
      /\ pc = first => \A iy : Spreads(LoopInto(call, h, a, iy), InnerFaces(iy), FALSE)
      /\ pc = last => Spreads(EdgeInto(call, h, a), SeamFaces, WallsOf(FaceKind))
      /\ pc \in DOMAIN Driver /\ a \in Into(h, call) /\ pc < last => pc = first
      /\ pc \in DOMAIN Driver /\ a \in Into(h, call) /\ pc > last /\ full(f) =>
           /\ call.part = "loop"
           /\ \A iy \in todo : full(Stored(f, LoopInto(call, h, a, iy)))
  BY DEF Fits, Full
<1>5. /\ pc = first => \A iy \in R \ todo : on(f, iy)
      /\ pc \in first + 1 .. last => \A iy \in R : on(f, iy)
      /\ pc > last => full(f)
  BY DEF Stage, OnRow, Full
<1>6. first \in Nat /\ last \in Nat
  BY <1>3, <1>4
<1>7. \A rows : FluxesOn(f, FaceKind, FacesOf(FaceKind, rows)) <=> \A iy \in rows : on(f, iy)
  BY OnRows
<1>8. \A rows : FluxesOn(g, FaceKind, FacesOf(FaceKind, rows)) <=> \A iy \in rows : on(g, iy)
  BY OnRows
<1> SUFFICES /\ pc' = first => \A iy \in R \ todo' : on(g, iy)
             /\ pc' \in first + 1 .. last => \A iy \in R : on(g, iy)
             /\ pc' > last => full(g)
  <2>1. /\ pc' = first => \A iy \in R \ todo' : OnRow(h, a, iy)'
        /\ pc' \in first + 1 .. last => \A iy \in R : OnRow(h, a, iy)'
        /\ pc' > last => Full(h, a)'
    BY <1>1
  <2> QED BY <1>1, <2>1 DEF Stage
<1> DEFINE reads(iy) == LoopInto(call, h, a, iy)
           ends == EdgeInto(call, h, a)
<1>9. pc = first => \A iy : Spreads(reads(iy), InnerFaces(iy), FALSE)
  BY <1>4
<1>10. pc = last => Spreads(ends, SeamFaces, WallsOf(FaceKind))
  BY <1>4
<1>11. pc \in DOMAIN Driver /\ a \in Into(h, call) /\ pc > last /\ full(f) =>
         call.part = "loop" /\ \A iy \in todo : full(Stored(f, reads(iy)))
  BY <1>4
<1>12. Calls("loop") => pc \in DOMAIN Driver /\ call.part = "loop"
  BY DEF Calls
<1>13. Calls("boundary") => pc \in DOMAIN Driver /\ call.part = "boundary"
  BY DEF Calls
<1>14. RowsAfter = IF pc + 1 \in DOMAIN Driver THEN Driver[pc + 1].rows ELSE {}
  BY DEF RowsAfter
<1>15. pc + 1 = first => RowsAfter = R
  BY <1>4, <1>14
<1>16. a \in Into(h, Driver[first]) /\ a \in Into(h, Driver[last])
  BY <1>4
\* A row of faces, and the ends of the grid.
<1>17. ASSUME pc = first, NEW iy \in todo, g = Stored(f, reads(iy)), a \in Into(h, call)
       PROVE  \A y \in (R \ todo) \cup {iy} : on(g, y)
  <2>1. FluxesOn(f, FaceKind, FacesOf(FaceKind, R \ todo))
    BY <1>5, <1>7, <1>17
  <2>2. iy \in FaceRows(FaceKind)
    BY <1>3, <1>4, <1>17
  <2>3. Spreads(reads(iy), InnerFaces(iy), FALSE)
    BY <1>9, <1>17
  <2>4. FluxesOn(Stored(f, reads(iy)), FaceKind, FacesOf(FaceKind, (R \ todo) \cup {iy}))
    <3> DEFINE stores == reads(iy)
               rows == R \ todo
    <3>1. Spreads(stores, InnerFaces(iy), FALSE) /\ FluxesOn(f, FaceKind, FacesOf(FaceKind, rows))
      BY <2>1, <2>3
    <3>2. DOMAIN f = 0 .. Size(FaceKind) - 1
      BY <1>4
    <3> HIDE DEF f, stores, rows
    <3>3. FluxesOn(Stored(f, stores), FaceKind, FacesOf(FaceKind, rows \cup {iy}))
      BY <2>2, <3>1, <3>2, RowSpreads
    <3> QED BY <3>3 DEF stores, rows
  <2> DEFINE rows == (R \ todo) \cup {iy}
  <2>5. FluxesOn(g, FaceKind, FacesOf(FaceKind, rows))
    BY <1>17, <2>4
  <2> HIDE DEF rows, g, R, on
  <2>6. \A y \in rows : on(g, y)
    BY <1>8, <2>5
  <2> QED BY <2>6 DEF rows
<1>18. ASSUME pc = last, g = Stored(f, ends) PROVE full(g)
  <2>1. FluxesOn(f, FaceKind, FacesOf(FaceKind, FaceRows(FaceKind)))
    <3>1. pc \in first + 1 .. last
      BY <1>4, <1>6, <1>18
    <3>2. \A iy \in R : on(f, iy)
      BY <1>5, <3>1
    <3>3. R = FaceRows(FaceKind)
      OBVIOUS
    <3> HIDE DEF R, on, f
    <3>4. FluxesOn(f, FaceKind, FacesOf(FaceKind, R))
      BY <1>7, <3>2
    <3> QED BY <3>3, <3>4
  <2>2. Spreads(ends, SeamFaces, WallsOf(FaceKind)) /\ DOMAIN f = 0 .. Size(FaceKind) - 1
    BY <1>4, <1>10, <1>18
  <2> HIDE DEF f, ends
  <2>3. Complete(Stored(f, ends), FaceKind)
    BY <2>1, <2>2, EdgeSpreads
  <2> QED BY <1>18, <2>3
<1> HIDE DEF f, g, R, on, full, call, reads, ends
<1>20. CASE Idle(h, a)
  <2>1. pc' = pc /\ todo' = todo /\ g = f
    BY <1>20 DEF Idle, f, g
  <2> QED BY <1>5, <2>1
<1>21. CASE Calls("loop") /\ NoRow(h, a)
  <2>1. todo = {} /\ pc' = pc + 1 /\ todo' = RowsAfter /\ g = f
    BY <1>21 DEF NoRow, f, g
  <2>2. pc # last
    BY <1>4, <1>12, <1>21 DEF call
  <2> QED BY <1>3, <1>5, <1>6, <1>15, <2>1, <2>2
<1>22. CASE Calls("loop") /\ RowInto(h, a)
  <2>1. pc # last /\ pc \in DOMAIN Driver
    BY <1>4, <1>12, <1>22 DEF call
  <2>2. PICK iy \in todo :
          /\ pc' = IF todo = {iy} THEN pc + 1 ELSE pc
          /\ todo' = IF todo = {iy} THEN RowsAfter ELSE todo \ {iy}
          /\ g = IF a \in Into(h, call) THEN Stored(f, reads(iy)) ELSE f
    BY <1>22 DEF RowInto, f, g, call, reads
  <2>3. CASE a \notin Into(h, call)
    <3>1. pc # first
      BY <1>16, <2>3 DEF call
    <3> QED BY <1>3, <1>5, <1>6, <1>15, <2>1, <2>2, <2>3, <3>1
  <2>4. CASE a \in Into(h, call) /\ pc = first
    <3>1. \A y \in (R \ todo) \cup {iy} : on(g, y)
      BY <1>17, <2>2, <2>4
    <3> QED BY <1>3, <1>4, <1>6, <2>2, <2>4, <3>1
  <2>5. CASE a \in Into(h, call) /\ pc # first
    <3>1. pc > last
      BY <1>3, <1>4, <1>6, <2>1, <2>5
    <3>2. full(g)
      BY <1>5, <1>11, <2>1, <2>2, <2>5, <3>1
    <3> QED BY <1>3, <1>4, <1>6, <2>2, <3>1, <3>2
  <2> QED BY <2>3, <2>4, <2>5
<1>23. CASE Calls("boundary") /\ EdgeOver(h, a)
  <2>1. pc # first /\ pc \in DOMAIN Driver /\ call.part = "boundary"
    BY <1>4, <1>13, <1>23 DEF call
  <2>2. /\ pc' = pc + 1 /\ todo' = RowsAfter
        /\ g = IF a \in Into(h, call) THEN Stored(f, ends) ELSE f
    BY <1>23 DEF EdgeOver, f, g, call, ends
  <2>3. CASE a \notin Into(h, call)
    <3>1. pc # last
      BY <1>16, <2>3 DEF call
    <3> QED BY <1>3, <1>5, <1>6, <1>15, <2>1, <2>2, <2>3, <3>1
  <2>4. CASE a \in Into(h, call)
    <3>1. pc = last
      <4>1. ~(pc < last)
        BY <1>4, <2>1, <2>4
      <4>2. ~(pc > last)
        BY <1>5, <1>11, <2>1, <2>4
      <4> QED BY <1>3, <1>6, <4>1, <4>2
    <3>2. full(g)
      BY <1>18, <2>2, <2>4, <3>1
    <3> QED BY <1>3, <1>4, <1>6, <2>2, <3>1, <3>2
  <2> QED BY <2>3, <2>4
<1> QED BY <1>2, <1>20, <1>21, <1>22, <1>23 DEF BankStep
-----------------------------------------------------------------------------
\* The calls of the drivers, one by one.
LEMMA CallFields ==
  \A kernel, outs, of, own, rows :
    /\ Call(kernel, outs, of, own, rows).kernel = kernel
    /\ Call(kernel, outs, of, own, rows).part = "loop"
    /\ Call(kernel, outs, of, own, rows).outs = outs
    /\ Call(kernel, outs, of, own, rows).of = of
    /\ Call(kernel, outs, of, own, rows).own = own
    /\ Call(kernel, outs, of, own, rows).rows = rows
  BY DEF Call

LEMMA BoundaryFields ==
  \A kernel, outs, of, own, rows :
    /\ AtBoundary(Call(kernel, outs, of, own, rows)).kernel = kernel
    /\ AtBoundary(Call(kernel, outs, of, own, rows)).part = "boundary"
    /\ AtBoundary(Call(kernel, outs, of, own, rows)).outs = outs
    /\ AtBoundary(Call(kernel, outs, of, own, rows)).of = of
    /\ AtBoundary(Call(kernel, outs, of, own, rows)).own = own
    /\ AtBoundary(Call(kernel, outs, of, own, rows)).rows = {}
<1> TAKE kernel, outs, of, own, rows
<1>1. AtBoundary(Call(kernel, outs, of, own, rows)) =
        [[Call(kernel, outs, of, own, rows) EXCEPT !.part = "boundary"] EXCEPT !.rows = {}]
  BY DEF AtBoundary
<1>2. [Call(kernel, outs, of, own, rows) EXCEPT !.part = "boundary"] =
        [kernel |-> kernel, part |-> "boundary", outs |-> outs, of |-> of, own |-> own, rows |-> rows]
  BY DEF Call
<1>3. AtBoundary(Call(kernel, outs, of, own, rows)) =
        [[kernel |-> kernel, part |-> "boundary", outs |-> outs, of |-> of, own |-> own, rows |-> rows]
          EXCEPT !.rows = {}]
  BY <1>1, <1>2
<1>4. AtBoundary(Call(kernel, outs, of, own, rows)) =
        [kernel |-> kernel, part |-> "boundary", outs |-> outs, of |-> of, own |-> own, rows |-> {}]
  BY <1>3
<1> QED BY <1>4

\* Names of arrays that hold no flux.
OtherNames == {LagVolume, LagDensity, DensityGradient, EnergyGradient, ConcentrationGradient,
               GradientU, GradientV, "out_mass", "out_e", "out_c_1", "out_c_2", "out_u", "out_v",
               "out_rho", "out_fraction", "interface_normal"}
Carried == {Volumes, Masses, Energies, Concentrations}

LEMMA NamesApart ==
  /\ Masses # Volumes /\ Energies # Volumes /\ Concentrations # Volumes
  /\ Masses # Energies /\ Masses # Concentrations /\ Energies # Concentrations
  /\ Carried \cap OtherNames = {} /\ Predicted \notin OtherNames /\ Predicted \notin Carried
  /\ \A a \in Carried : KindOf(a) = FaceKind
<1>1. CASE InX
  BY <1>1 DEF Volumes, Masses, Energies, Concentrations, Predicted, Carried, OtherNames, LagVolume,
       LagDensity, DensityGradient, EnergyGradient, ConcentrationGradient, GradientU, GradientV,
       KindOf, FaceKind
<1>2. CASE ~InX
  BY <1>2 DEF Volumes, Masses, Energies, Concentrations, Predicted, Carried, OtherNames, LagVolume,
       LagDensity, DensityGradient, EnergyGradient, ConcentrationGradient, GradientU, GradientV,
       KindOf, FaceKind
<1> QED BY <1>1, <1>2

\* A call that stores into none of the whole, and into none of a material.
Rests(call)   == call.outs \subseteq OtherNames
RestsOf(call) == call.of = {} \/ call.own \subseteq OtherNames

LEMMA Resting ==
  ASSUME NEW call
  PROVE  /\ Rests(call) => \A a \in Carried \cup {Predicted} : a \notin Into(0, call)
         /\ RestsOf(call) => \A m \in Both : \A a \in Carried : a \notin Into(m, call)
  BY NamesApart DEF Rests, RestsOf, Into, Both

\* A boundary kernel stores where its loop does.
LEMMA MaterialStores ==
  \A kernel, outs, of, own, rows :
    /\ Call(kernel, outs, of, own, rows).outs = outs
    /\ Call(kernel, outs, of, own, rows).of = of
    /\ Call(kernel, outs, of, own, rows).own = own
    /\ AtBoundary(Call(kernel, outs, of, own, rows)).outs = outs
    /\ AtBoundary(Call(kernel, outs, of, own, rows)).of = of
    /\ AtBoundary(Call(kernel, outs, of, own, rows)).own = own
  BY CallFields, BoundaryFields

\* What the calls for a mix store into, and its fluxes.
LEMMA MixIs ==
  /\ DOMAIN MixDriver = 1 .. 26 /\ Len(MixDriver) = 26
  /\ MixDriver[1].outs = {Volumes}
  /\ Rests(MixDriver[2])
  /\ Rests(MixDriver[3])
  /\ Rests(MixDriver[4])
  /\ MixDriver[5].outs = {Masses}
  /\ MixDriver[6].outs = {Masses}
  /\ Rests(MixDriver[7])
  /\ Rests(MixDriver[8])
  /\ Rests(MixDriver[9])
  /\ MixDriver[10].outs = {Energies}
  /\ MixDriver[11].outs = {Energies}
  /\ Rests(MixDriver[12])
  /\ Rests(MixDriver[13])
  /\ Rests(MixDriver[14])
  /\ MixDriver[15].outs = {Concentrations}
  /\ MixDriver[16].outs = {Concentrations}
  /\ Rests(MixDriver[17])
  /\ Rests(MixDriver[18])
  /\ Rests(MixDriver[19])
  /\ Rests(MixDriver[20])
  /\ Rests(MixDriver[21])
  /\ Rests(MixDriver[22])
  /\ Rests(MixDriver[23])
  /\ Rests(MixDriver[24])
  /\ Rests(MixDriver[25])
  /\ Rests(MixDriver[26])
  /\ MixDriver[5] = Call("Flux", {Masses}, {}, {}, Rows(CellRows, Inner))
  /\ MixDriver[6] = AtBoundary(Call("Flux", {Masses}, {}, {}, Rows(CellRows, Inner)))
  /\ MixDriver[10] = Call("Flux", {Energies}, {}, {}, Rows(CellRows, Inner))
  /\ MixDriver[11] = AtBoundary(Call("Flux", {Energies}, {}, {}, Rows(CellRows, Inner)))
  /\ MixDriver[15] = Call("Flux", {Concentrations}, {}, {}, Rows(CellRows, Inner))
  /\ MixDriver[16] = AtBoundary(Call("Flux", {Concentrations}, {}, {}, Rows(CellRows, Inner)))
  /\ \A k \in 1 .. 26 : MixDriver[k].kernel = "ProjectNodal" =>
       k \in {20, 21, 24, 25} /\ MixDriver[k].rows \subseteq Inner
<1> DEFINE a1 == Call("VolumeFlux", {Volumes}, {}, {}, Rows(CellRows, NodeRows))
           a2 == Call("Lagrangian", {LagVolume, LagDensity}, {}, {}, CellRows)
           a3 == Call("Gradient", {DensityGradient}, {}, {}, Rows(CellRows, 1 .. ny - 2))
           a4 == AtBoundary(Call("Gradient", {DensityGradient}, {}, {}, Rows(CellRows, 1 .. ny - 2)))
           a5 == Call("Flux", {Masses}, {}, {}, Rows(CellRows, Inner))
           a6 == AtBoundary(Call("Flux", {Masses}, {}, {}, Rows(CellRows, Inner)))
           a7 == Call("Balance", {"out_mass"}, {}, {}, CellRows)
           a8 == Call("Gradient", {EnergyGradient}, {}, {}, Rows(CellRows, 1 .. ny - 2))
           a9 == AtBoundary(Call("Gradient", {EnergyGradient}, {}, {}, Rows(CellRows, 1 .. ny - 2)))
           a10 == Call("Flux", {Energies}, {}, {}, Rows(CellRows, Inner))
           a11 == AtBoundary(Call("Flux", {Energies}, {}, {}, Rows(CellRows, Inner)))
           a12 == Call("Balance", {"out_e"}, {}, {}, CellRows)
           a13 == Call("Gradient", {ConcentrationGradient}, {}, {}, Rows(CellRows, 1 .. ny - 2))
           a14 == AtBoundary(Call("Gradient", {ConcentrationGradient}, {}, {}, Rows(CellRows, 1 .. ny - 2)))
           a15 == Call("Flux", {Concentrations}, {}, {}, Rows(CellRows, Inner))
           a16 == AtBoundary(Call("Flux", {Concentrations}, {}, {}, Rows(CellRows, Inner)))
           a17 == Call("Balance", {"out_c_1"}, {}, {}, CellRows)
           a18 == Call("GradientNodal", {GradientU}, {}, {}, Rows(NodeRows, Inner))
           a19 == AtBoundary(Call("GradientNodal", {GradientU}, {}, {}, Rows(NodeRows, Inner)))
           a20 == Call("ProjectNodal", {"out_u"}, {}, {}, Inner)
           a21 == AtBoundary(Call("ProjectNodal", {"out_u"}, {}, {}, Inner))
           a22 == Call("GradientNodal", {GradientV}, {}, {}, Rows(NodeRows, Inner))
           a23 == AtBoundary(Call("GradientNodal", {GradientV}, {}, {}, Rows(NodeRows, Inner)))
           a24 == Call("ProjectNodal", {"out_v"}, {}, {}, Inner)
           a25 == AtBoundary(Call("ProjectNodal", {"out_v"}, {}, {}, Inner))
           a26 == Call("MixQuantities", {"out_rho", "out_c_2"}, Both, {"out_rho", "out_e"}, CellRows)
<1>1. MixDriver =
        <<a1, a2>> \o (<<a3, a4>> \o <<a5, a6>> \o <<a7>>) \o
        (<<a8, a9>> \o <<a10, a11>> \o <<a12>>) \o
        (<<a13, a14>> \o <<a15, a16>> \o <<a17>>) \o
        (<<a18, a19>> \o <<a20, a21>>) \o (<<a22, a23>> \o <<a24, a25>>) \o <<a26>>
  BY DEF MixDriver, MixCalls, VelocityCalls, WithBoundary
<1>2. /\ a1.outs = {Volumes}
  BY MaterialStores DEF Rests, RestsOf, OtherNames
<1>3. /\ Rests(a2)
  BY MaterialStores DEF Rests, RestsOf, OtherNames
<1>4. /\ Rests(a3)
  BY MaterialStores DEF Rests, RestsOf, OtherNames
<1>5. /\ Rests(a4)
  BY MaterialStores DEF Rests, RestsOf, OtherNames
<1>6. /\ a5.outs = {Masses}
  BY MaterialStores DEF Rests, RestsOf, OtherNames
<1>7. /\ a6.outs = {Masses}
  BY MaterialStores DEF Rests, RestsOf, OtherNames
<1>8. /\ Rests(a7)
  BY MaterialStores DEF Rests, RestsOf, OtherNames
<1>9. /\ Rests(a8)
  BY MaterialStores DEF Rests, RestsOf, OtherNames
<1>10. /\ Rests(a9)
  BY MaterialStores DEF Rests, RestsOf, OtherNames
<1>11. /\ a10.outs = {Energies}
  BY MaterialStores DEF Rests, RestsOf, OtherNames
<1>12. /\ a11.outs = {Energies}
  BY MaterialStores DEF Rests, RestsOf, OtherNames
<1>13. /\ Rests(a12)
  BY MaterialStores DEF Rests, RestsOf, OtherNames
<1>14. /\ Rests(a13)
  BY MaterialStores DEF Rests, RestsOf, OtherNames
<1>15. /\ Rests(a14)
  BY MaterialStores DEF Rests, RestsOf, OtherNames
<1>16. /\ a15.outs = {Concentrations}
  BY MaterialStores DEF Rests, RestsOf, OtherNames
<1>17. /\ a16.outs = {Concentrations}
  BY MaterialStores DEF Rests, RestsOf, OtherNames
<1>18. /\ Rests(a17)
  BY MaterialStores DEF Rests, RestsOf, OtherNames
<1>19. /\ Rests(a18)
  BY MaterialStores DEF Rests, RestsOf, OtherNames
<1>20. /\ Rests(a19)
  BY MaterialStores DEF Rests, RestsOf, OtherNames
<1>21. /\ Rests(a20)
  BY MaterialStores DEF Rests, RestsOf, OtherNames
<1>22. /\ Rests(a21)
  BY MaterialStores DEF Rests, RestsOf, OtherNames
<1>23. /\ Rests(a22)
  BY MaterialStores DEF Rests, RestsOf, OtherNames
<1>24. /\ Rests(a23)
  BY MaterialStores DEF Rests, RestsOf, OtherNames
<1>25. /\ Rests(a24)
  BY MaterialStores DEF Rests, RestsOf, OtherNames
<1>26. /\ Rests(a25)
  BY MaterialStores DEF Rests, RestsOf, OtherNames
<1>27. /\ Rests(a26)
  BY MaterialStores DEF Rests, RestsOf, OtherNames
<1>40. /\ a1.kernel # "ProjectNodal" /\ a2.kernel # "ProjectNodal" /\ a3.kernel # "ProjectNodal"
      /\ a4.kernel # "ProjectNodal" /\ a5.kernel # "ProjectNodal" /\ a6.kernel # "ProjectNodal"
      /\ a7.kernel # "ProjectNodal" /\ a8.kernel # "ProjectNodal" /\ a9.kernel # "ProjectNodal"
      /\ a10.kernel # "ProjectNodal" /\ a11.kernel # "ProjectNodal" /\ a12.kernel # "ProjectNodal"
      /\ a13.kernel # "ProjectNodal" /\ a14.kernel # "ProjectNodal" /\ a15.kernel # "ProjectNodal"
      /\ a16.kernel # "ProjectNodal" /\ a17.kernel # "ProjectNodal" /\ a18.kernel # "ProjectNodal"
      /\ a19.kernel # "ProjectNodal" /\ a22.kernel # "ProjectNodal" /\ a23.kernel # "ProjectNodal"
      /\ a26.kernel # "ProjectNodal"
  BY CallFields, BoundaryFields
<1>41. /\ a20.rows \subseteq Inner /\ a21.rows \subseteq Inner
      /\ a24.rows \subseteq Inner /\ a25.rows \subseteq Inner
  BY CallFields, BoundaryFields
<1> HIDE DEF a1, a2, a3, a4, a5, a6, a7, a8, a9, a10, a11, a12, a13, a14, a15, a16, a17, a18, a19, a20,
           a21, a22, a23, a24, a25, a26
<1>28. DOMAIN MixDriver = 1 .. 26 /\ Len(MixDriver) = 26
  BY <1>1
<1>29. /\ MixDriver[1] = a1 /\ MixDriver[2] = a2 /\ MixDriver[3] = a3 /\ MixDriver[4] = a4
      /\ MixDriver[5] = a5 /\ MixDriver[6] = a6 /\ MixDriver[7] = a7 /\ MixDriver[8] = a8
      /\ MixDriver[9] = a9 /\ MixDriver[10] = a10 /\ MixDriver[11] = a11 /\ MixDriver[12] = a12
      /\ MixDriver[13] = a13 /\ MixDriver[14] = a14 /\ MixDriver[15] = a15 /\ MixDriver[16] = a16
      /\ MixDriver[17] = a17 /\ MixDriver[18] = a18 /\ MixDriver[19] = a19 /\ MixDriver[20] = a20
      /\ MixDriver[21] = a21 /\ MixDriver[22] = a22 /\ MixDriver[23] = a23 /\ MixDriver[24] = a24
      /\ MixDriver[25] = a25 /\ MixDriver[26] = a26
  BY <1>1
<1>30. /\ MixDriver[1].outs = {Volumes}
      /\ Rests(MixDriver[2])
      /\ Rests(MixDriver[3])
      /\ Rests(MixDriver[4])
      /\ MixDriver[5].outs = {Masses}
      /\ MixDriver[6].outs = {Masses}
      /\ Rests(MixDriver[7])
  BY <1>2, <1>3, <1>4, <1>5, <1>6, <1>7, <1>8, <1>29
<1>31. /\ Rests(MixDriver[8])
      /\ Rests(MixDriver[9])
      /\ MixDriver[10].outs = {Energies}
      /\ MixDriver[11].outs = {Energies}
      /\ Rests(MixDriver[12])
      /\ Rests(MixDriver[13])
      /\ Rests(MixDriver[14])
  BY <1>9, <1>10, <1>11, <1>12, <1>13, <1>14, <1>15, <1>29
<1>32. /\ MixDriver[15].outs = {Concentrations}
      /\ MixDriver[16].outs = {Concentrations}
      /\ Rests(MixDriver[17])
      /\ Rests(MixDriver[18])
      /\ Rests(MixDriver[19])
      /\ Rests(MixDriver[20])
      /\ Rests(MixDriver[21])
  BY <1>16, <1>17, <1>18, <1>19, <1>20, <1>21, <1>22, <1>29
<1>33. /\ Rests(MixDriver[22])
      /\ Rests(MixDriver[23])
      /\ Rests(MixDriver[24])
      /\ Rests(MixDriver[25])
      /\ Rests(MixDriver[26])
  BY <1>23, <1>24, <1>25, <1>26, <1>27, <1>29
<1>34. MixDriver[5] = Call("Flux", {Masses}, {}, {}, Rows(CellRows, Inner))
  BY <1>29 DEF a5
<1>35. MixDriver[6] = AtBoundary(Call("Flux", {Masses}, {}, {}, Rows(CellRows, Inner)))
  BY <1>29 DEF a6
<1>36. MixDriver[10] = Call("Flux", {Energies}, {}, {}, Rows(CellRows, Inner))
  BY <1>29 DEF a10
<1>37. MixDriver[11] = AtBoundary(Call("Flux", {Energies}, {}, {}, Rows(CellRows, Inner)))
  BY <1>29 DEF a11
<1>38. MixDriver[15] = Call("Flux", {Concentrations}, {}, {}, Rows(CellRows, Inner))
  BY <1>29 DEF a15
<1>39. MixDriver[16] = AtBoundary(Call("Flux", {Concentrations}, {}, {}, Rows(CellRows, Inner)))
  BY <1>29 DEF a16
<1>42. \A k \in 1 .. 26 : MixDriver[k].kernel = "ProjectNodal" => k \in {20, 21, 24, 25}
  BY <1>29, <1>40
<1>43. \A k \in {20, 21, 24, 25} : MixDriver[k].rows \subseteq Inner
  BY <1>29, <1>41
<1> QED BY <1>28, <1>30, <1>31, <1>32, <1>33, <1>34, <1>35, <1>36, <1>37, <1>38, <1>39, <1>42, <1>43

\* The same with an interface.
LEMMA InterfaceIs ==
  /\ DOMAIN InterfaceDriver = 1 .. 35 /\ Len(InterfaceDriver) = 35
  /\ Rests(InterfaceDriver[1]) /\ RestsOf(InterfaceDriver[1])
  /\ Rests(InterfaceDriver[2]) /\ RestsOf(InterfaceDriver[2])
  /\ InterfaceDriver[3].outs = {Volumes} /\ RestsOf(InterfaceDriver[3])
  /\ Rests(InterfaceDriver[4]) /\ RestsOf(InterfaceDriver[4])
  /\ Rests(InterfaceDriver[5]) /\ InterfaceDriver[5].of = Both /\ InterfaceDriver[5].own = {Volumes}
  /\ Rests(InterfaceDriver[6]) /\ InterfaceDriver[6].of = Both /\ InterfaceDriver[6].own = {Volumes}
  /\ Rests(InterfaceDriver[7]) /\ InterfaceDriver[7].of = Both /\ InterfaceDriver[7].own = {Volumes}
  /\ Rests(InterfaceDriver[8]) /\ RestsOf(InterfaceDriver[8])
  /\ Rests(InterfaceDriver[9]) /\ RestsOf(InterfaceDriver[9])
  /\ Rests(InterfaceDriver[10]) /\ InterfaceDriver[10].of = {1} /\ InterfaceDriver[10].own = {Masses}
  /\ Rests(InterfaceDriver[11]) /\ InterfaceDriver[11].of = {2} /\ InterfaceDriver[11].own = {Masses}
  /\ Rests(InterfaceDriver[12]) /\ InterfaceDriver[12].of = {1} /\ InterfaceDriver[12].own = {Masses}
  /\ Rests(InterfaceDriver[13]) /\ InterfaceDriver[13].of = {2} /\ InterfaceDriver[13].own = {Masses}
  /\ Rests(InterfaceDriver[14]) /\ InterfaceDriver[14].of = Both /\ InterfaceDriver[14].own = {Masses}
  /\ Rests(InterfaceDriver[15]) /\ RestsOf(InterfaceDriver[15])
  /\ Rests(InterfaceDriver[16]) /\ RestsOf(InterfaceDriver[16])
  /\ InterfaceDriver[17].outs = {Masses} /\ RestsOf(InterfaceDriver[17])
  /\ Rests(InterfaceDriver[18]) /\ RestsOf(InterfaceDriver[18])
  /\ Rests(InterfaceDriver[19]) /\ RestsOf(InterfaceDriver[19])
  /\ Rests(InterfaceDriver[20]) /\ RestsOf(InterfaceDriver[20])
  /\ Rests(InterfaceDriver[21]) /\ InterfaceDriver[21].of = {1} /\ InterfaceDriver[21].own = {Energies}
  /\ Rests(InterfaceDriver[22]) /\ InterfaceDriver[22].of = {2} /\ InterfaceDriver[22].own = {Energies}
  /\ Rests(InterfaceDriver[23]) /\ InterfaceDriver[23].of = {1} /\ InterfaceDriver[23].own = {Energies}
  /\ Rests(InterfaceDriver[24]) /\ InterfaceDriver[24].of = {2} /\ InterfaceDriver[24].own = {Energies}
  /\ Rests(InterfaceDriver[25]) /\ RestsOf(InterfaceDriver[25])
  /\ Rests(InterfaceDriver[26]) /\ RestsOf(InterfaceDriver[26])
  /\ Rests(InterfaceDriver[27]) /\ RestsOf(InterfaceDriver[27])
  /\ Rests(InterfaceDriver[28]) /\ RestsOf(InterfaceDriver[28])
  /\ Rests(InterfaceDriver[29]) /\ RestsOf(InterfaceDriver[29])
  /\ Rests(InterfaceDriver[30]) /\ RestsOf(InterfaceDriver[30])
  /\ Rests(InterfaceDriver[31]) /\ RestsOf(InterfaceDriver[31])
  /\ Rests(InterfaceDriver[32]) /\ RestsOf(InterfaceDriver[32])
  /\ Rests(InterfaceDriver[33]) /\ RestsOf(InterfaceDriver[33])
  /\ Rests(InterfaceDriver[34]) /\ RestsOf(InterfaceDriver[34])
  /\ Rests(InterfaceDriver[35]) /\ RestsOf(InterfaceDriver[35])
  /\ InterfaceDriver[3] = Call("VolumeFlux", {Volumes}, {}, {}, Rows(CellRows, NodeRows))
  /\ InterfaceDriver[5] = Call("FractionalVolumeFluxes", {}, Both, {Volumes}, Rows(CellRows, Inner))
  /\ InterfaceDriver[6] = AtBoundary(Call("FractionalVolumeFluxes", {}, Both, {Volumes}, Rows(CellRows, Inner)))
  /\ InterfaceDriver[7] = Call("CheckVolumeFluxes", {}, Both, {Volumes}, CellRows)
  /\ InterfaceDriver[10] = Call("Flux", {}, {1}, {Masses}, Rows(CellRows, Inner))
  /\ InterfaceDriver[11] = Call("Flux", {}, {2}, {Masses}, Rows(CellRows, Inner))
  /\ InterfaceDriver[12] = AtBoundary(Call("Flux", {}, {1}, {Masses}, Rows(CellRows, Inner)))
  /\ InterfaceDriver[13] = AtBoundary(Call("Flux", {}, {2}, {Masses}, Rows(CellRows, Inner)))
  /\ InterfaceDriver[14] = Call("CheckMassFlux", {}, Both, {Masses}, CellRows)
  /\ InterfaceDriver[21] = Call("Flux", {}, {1}, {Energies}, Rows(CellRows, Inner))
  /\ InterfaceDriver[22] = Call("Flux", {}, {2}, {Energies}, Rows(CellRows, Inner))
  /\ InterfaceDriver[23] = AtBoundary(Call("Flux", {}, {1}, {Energies}, Rows(CellRows, Inner)))
  /\ InterfaceDriver[24] = AtBoundary(Call("Flux", {}, {2}, {Energies}, Rows(CellRows, Inner)))
  /\ InterfaceDriver[17] = Call("TotalMassFlux", {Masses}, {}, {}, Rows(CellRows, NodeRows))
  /\ \A k \in 1 .. 35 : InterfaceDriver[k].kernel = "ProjectNodal" =>
       k \in {29, 30, 33, 34} /\ InterfaceDriver[k].rows \subseteq Inner
<1> DEFINE a1 == Call("NormalInterface", {"interface_normal"}, {}, {}, 1 .. ny - 2)
           a2 == AtBoundary(Call("NormalInterface", {"interface_normal"}, {}, {}, 1 .. ny - 2))
           a3 == Call("VolumeFlux", {Volumes}, {}, {}, Rows(CellRows, NodeRows))
           a4 == Call("Lagrangian", {LagVolume}, Both, {LagDensity}, CellRows)
           a5 == Call("FractionalVolumeFluxes", {}, Both, {Volumes}, Rows(CellRows, Inner))
           a6 == AtBoundary(Call("FractionalVolumeFluxes", {}, Both, {Volumes}, Rows(CellRows, Inner)))
           a7 == Call("CheckVolumeFluxes", {}, Both, {Volumes}, CellRows)
           a8 == Call("GradientMultimat", {}, Both, {DensityGradient}, Rows(CellRows, 1 .. ny - 2))
           a9 == AtBoundary(Call("GradientMultimat", {}, Both, {DensityGradient}, Rows(CellRows, 1 .. ny - 2)))
           a10 == Call("Flux", {}, {1}, {Masses}, Rows(CellRows, Inner))
           a11 == Call("Flux", {}, {2}, {Masses}, Rows(CellRows, Inner))
           a12 == AtBoundary(Call("Flux", {}, {1}, {Masses}, Rows(CellRows, Inner)))
           a13 == AtBoundary(Call("Flux", {}, {2}, {Masses}, Rows(CellRows, Inner)))
           a14 == Call("CheckMassFlux", {}, Both, {Masses}, CellRows)
           a15 == Call("Balance", {}, {1}, {"out_mass"}, CellRows)
           a16 == Call("Balance", {}, {2}, {"out_mass"}, CellRows)
           a17 == Call("TotalMassFlux", {Masses}, {}, {}, Rows(CellRows, NodeRows))
           a18 == Call("ProjectDensity", {"out_mass", "out_fraction"}, Both, {"out_mass", "out_rho"}, CellRows)
           a19 == Call("GradientMultimat", {}, Both, {EnergyGradient}, Rows(CellRows, 1 .. ny - 2))
           a20 == AtBoundary(Call("GradientMultimat", {}, Both, {EnergyGradient}, Rows(CellRows, 1 .. ny - 2)))
           a21 == Call("Flux", {}, {1}, {Energies}, Rows(CellRows, Inner))
           a22 == Call("Flux", {}, {2}, {Energies}, Rows(CellRows, Inner))
           a23 == AtBoundary(Call("Flux", {}, {1}, {Energies}, Rows(CellRows, Inner)))
           a24 == AtBoundary(Call("Flux", {}, {2}, {Energies}, Rows(CellRows, Inner)))
           a25 == Call("Balance", {}, {1}, {"out_e"}, CellRows)
           a26 == Call("Balance", {}, {2}, {"out_e"}, CellRows)
           a27 == Call("GradientNodal", {GradientU}, {}, {}, Rows(NodeRows, Inner))
           a28 == AtBoundary(Call("GradientNodal", {GradientU}, {}, {}, Rows(NodeRows, Inner)))
           a29 == Call("ProjectNodal", {"out_u"}, {}, {}, Inner)
           a30 == AtBoundary(Call("ProjectNodal", {"out_u"}, {}, {}, Inner))
           a31 == Call("GradientNodal", {GradientV}, {}, {}, Rows(NodeRows, Inner))
           a32 == AtBoundary(Call("GradientNodal", {GradientV}, {}, {}, Rows(NodeRows, Inner)))
           a33 == Call("ProjectNodal", {"out_v"}, {}, {}, Inner)
           a34 == AtBoundary(Call("ProjectNodal", {"out_v"}, {}, {}, Inner))
           a35 == Call("MaterialQuantities", {"out_rho", "out_e"}, {}, {}, CellRows)
<1>1. InterfaceDriver =
        (<<a1, a2>> \o <<a3, a4>> \o <<a5, a6>> \o <<a7>> \o <<a8, a9>> \o
         <<a10, a11, a12, a13>> \o <<a14, a15, a16, a17, a18>>) \o
        (<<a19, a20>> \o <<a21, a22, a23, a24>> \o <<a25, a26>>) \o
        (<<a27, a28>> \o <<a29, a30>>) \o (<<a31, a32>> \o <<a33, a34>>) \o <<a35>>
  BY DEF InterfaceDriver, MassCalls, EnergyCalls, FluxCalls, VelocityCalls, WithBoundary
<1>2. /\ Rests(a1) /\ RestsOf(a1)
  BY MaterialStores DEF Rests, RestsOf, OtherNames
<1>3. /\ Rests(a2) /\ RestsOf(a2)
  BY MaterialStores DEF Rests, RestsOf, OtherNames
<1>4. /\ a3.outs = {Volumes} /\ RestsOf(a3)
  BY MaterialStores DEF Rests, RestsOf, OtherNames
<1>5. /\ Rests(a4) /\ RestsOf(a4)
  BY MaterialStores DEF Rests, RestsOf, OtherNames
<1>6. /\ Rests(a5) /\ a5.of = Both /\ a5.own = {Volumes}
  BY MaterialStores DEF Rests, RestsOf, OtherNames
<1>7. /\ Rests(a6) /\ a6.of = Both /\ a6.own = {Volumes}
  BY MaterialStores DEF Rests, RestsOf, OtherNames
<1>8. /\ Rests(a7) /\ a7.of = Both /\ a7.own = {Volumes}
  BY MaterialStores DEF Rests, RestsOf, OtherNames
<1>9. /\ Rests(a8) /\ RestsOf(a8)
  BY MaterialStores DEF Rests, RestsOf, OtherNames
<1>10. /\ Rests(a9) /\ RestsOf(a9)
  BY MaterialStores DEF Rests, RestsOf, OtherNames
<1>11. /\ Rests(a10) /\ a10.of = {1} /\ a10.own = {Masses}
  BY MaterialStores DEF Rests, RestsOf, OtherNames
<1>12. /\ Rests(a11) /\ a11.of = {2} /\ a11.own = {Masses}
  BY MaterialStores DEF Rests, RestsOf, OtherNames
<1>13. /\ Rests(a12) /\ a12.of = {1} /\ a12.own = {Masses}
  BY MaterialStores DEF Rests, RestsOf, OtherNames
<1>14. /\ Rests(a13) /\ a13.of = {2} /\ a13.own = {Masses}
  BY MaterialStores DEF Rests, RestsOf, OtherNames
<1>15. /\ Rests(a14) /\ a14.of = Both /\ a14.own = {Masses}
  BY MaterialStores DEF Rests, RestsOf, OtherNames
<1>16. /\ Rests(a15) /\ RestsOf(a15)
  BY MaterialStores DEF Rests, RestsOf, OtherNames
<1>17. /\ Rests(a16) /\ RestsOf(a16)
  BY MaterialStores DEF Rests, RestsOf, OtherNames
<1>18. /\ a17.outs = {Masses} /\ RestsOf(a17)
  BY MaterialStores DEF Rests, RestsOf, OtherNames
<1>19. /\ Rests(a18) /\ RestsOf(a18)
  BY MaterialStores DEF Rests, RestsOf, OtherNames
<1>20. /\ Rests(a19) /\ RestsOf(a19)
  BY MaterialStores DEF Rests, RestsOf, OtherNames
<1>21. /\ Rests(a20) /\ RestsOf(a20)
  BY MaterialStores DEF Rests, RestsOf, OtherNames
<1>22. /\ Rests(a21) /\ a21.of = {1} /\ a21.own = {Energies}
  BY MaterialStores DEF Rests, RestsOf, OtherNames
<1>23. /\ Rests(a22) /\ a22.of = {2} /\ a22.own = {Energies}
  BY MaterialStores DEF Rests, RestsOf, OtherNames
<1>24. /\ Rests(a23) /\ a23.of = {1} /\ a23.own = {Energies}
  BY MaterialStores DEF Rests, RestsOf, OtherNames
<1>25. /\ Rests(a24) /\ a24.of = {2} /\ a24.own = {Energies}
  BY MaterialStores DEF Rests, RestsOf, OtherNames
<1>26. /\ Rests(a25) /\ RestsOf(a25)
  BY MaterialStores DEF Rests, RestsOf, OtherNames
<1>27. /\ Rests(a26) /\ RestsOf(a26)
  BY MaterialStores DEF Rests, RestsOf, OtherNames
<1>28. /\ Rests(a27) /\ RestsOf(a27)
  BY MaterialStores DEF Rests, RestsOf, OtherNames
<1>29. /\ Rests(a28) /\ RestsOf(a28)
  BY MaterialStores DEF Rests, RestsOf, OtherNames
<1>30. /\ Rests(a29) /\ RestsOf(a29)
  BY MaterialStores DEF Rests, RestsOf, OtherNames
<1>31. /\ Rests(a30) /\ RestsOf(a30)
  BY MaterialStores DEF Rests, RestsOf, OtherNames
<1>32. /\ Rests(a31) /\ RestsOf(a31)
  BY MaterialStores DEF Rests, RestsOf, OtherNames
<1>33. /\ Rests(a32) /\ RestsOf(a32)
  BY MaterialStores DEF Rests, RestsOf, OtherNames
<1>34. /\ Rests(a33) /\ RestsOf(a33)
  BY MaterialStores DEF Rests, RestsOf, OtherNames
<1>35. /\ Rests(a34) /\ RestsOf(a34)
  BY MaterialStores DEF Rests, RestsOf, OtherNames
<1>36. /\ Rests(a35) /\ RestsOf(a35)
  BY MaterialStores DEF Rests, RestsOf, OtherNames
<1>57. /\ a1.kernel # "ProjectNodal" /\ a2.kernel # "ProjectNodal" /\ a3.kernel # "ProjectNodal"
      /\ a4.kernel # "ProjectNodal" /\ a5.kernel # "ProjectNodal" /\ a6.kernel # "ProjectNodal"
      /\ a7.kernel # "ProjectNodal" /\ a8.kernel # "ProjectNodal" /\ a9.kernel # "ProjectNodal"
      /\ a10.kernel # "ProjectNodal" /\ a11.kernel # "ProjectNodal" /\ a12.kernel # "ProjectNodal"
      /\ a13.kernel # "ProjectNodal" /\ a14.kernel # "ProjectNodal" /\ a15.kernel # "ProjectNodal"
      /\ a16.kernel # "ProjectNodal" /\ a17.kernel # "ProjectNodal" /\ a18.kernel # "ProjectNodal"
      /\ a19.kernel # "ProjectNodal" /\ a20.kernel # "ProjectNodal" /\ a21.kernel # "ProjectNodal"
      /\ a22.kernel # "ProjectNodal" /\ a23.kernel # "ProjectNodal" /\ a24.kernel # "ProjectNodal"
      /\ a25.kernel # "ProjectNodal" /\ a26.kernel # "ProjectNodal" /\ a27.kernel # "ProjectNodal"
      /\ a28.kernel # "ProjectNodal" /\ a31.kernel # "ProjectNodal" /\ a32.kernel # "ProjectNodal"
      /\ a35.kernel # "ProjectNodal"
  BY CallFields, BoundaryFields
<1>58. /\ a29.rows \subseteq Inner /\ a30.rows \subseteq Inner
      /\ a33.rows \subseteq Inner /\ a34.rows \subseteq Inner
  BY CallFields, BoundaryFields
<1> HIDE DEF a1, a2, a3, a4, a5, a6, a7, a8, a9, a10, a11, a12, a13, a14, a15, a16, a17, a18, a19, a20,
           a21, a22, a23, a24, a25, a26, a27, a28, a29, a30, a31, a32, a33, a34, a35
<1>37. DOMAIN InterfaceDriver = 1 .. 35 /\ Len(InterfaceDriver) = 35
  BY <1>1
<1>38. /\ InterfaceDriver[1] = a1 /\ InterfaceDriver[2] = a2 /\ InterfaceDriver[3] = a3 /\ InterfaceDriver[4] = a4
      /\ InterfaceDriver[5] = a5 /\ InterfaceDriver[6] = a6 /\ InterfaceDriver[7] = a7 /\ InterfaceDriver[8] = a8
      /\ InterfaceDriver[9] = a9 /\ InterfaceDriver[10] = a10 /\ InterfaceDriver[11] = a11 /\ InterfaceDriver[12] = a12
      /\ InterfaceDriver[13] = a13 /\ InterfaceDriver[14] = a14 /\ InterfaceDriver[15] = a15 /\ InterfaceDriver[16] = a16
      /\ InterfaceDriver[17] = a17 /\ InterfaceDriver[18] = a18 /\ InterfaceDriver[19] = a19 /\ InterfaceDriver[20] = a20
      /\ InterfaceDriver[21] = a21 /\ InterfaceDriver[22] = a22 /\ InterfaceDriver[23] = a23 /\ InterfaceDriver[24] = a24
      /\ InterfaceDriver[25] = a25 /\ InterfaceDriver[26] = a26 /\ InterfaceDriver[27] = a27 /\ InterfaceDriver[28] = a28
      /\ InterfaceDriver[29] = a29 /\ InterfaceDriver[30] = a30 /\ InterfaceDriver[31] = a31 /\ InterfaceDriver[32] = a32
      /\ InterfaceDriver[33] = a33 /\ InterfaceDriver[34] = a34 /\ InterfaceDriver[35] = a35
  BY <1>1
<1>39. /\ Rests(InterfaceDriver[1]) /\ RestsOf(InterfaceDriver[1])
      /\ Rests(InterfaceDriver[2]) /\ RestsOf(InterfaceDriver[2])
      /\ InterfaceDriver[3].outs = {Volumes} /\ RestsOf(InterfaceDriver[3])
      /\ Rests(InterfaceDriver[4]) /\ RestsOf(InterfaceDriver[4])
      /\ Rests(InterfaceDriver[5]) /\ InterfaceDriver[5].of = Both /\ InterfaceDriver[5].own = {Volumes}
      /\ Rests(InterfaceDriver[6]) /\ InterfaceDriver[6].of = Both /\ InterfaceDriver[6].own = {Volumes}
      /\ Rests(InterfaceDriver[7]) /\ InterfaceDriver[7].of = Both /\ InterfaceDriver[7].own = {Volumes}
  BY <1>2, <1>3, <1>4, <1>5, <1>6, <1>7, <1>8, <1>38
<1>40. /\ Rests(InterfaceDriver[8]) /\ RestsOf(InterfaceDriver[8])
      /\ Rests(InterfaceDriver[9]) /\ RestsOf(InterfaceDriver[9])
      /\ Rests(InterfaceDriver[10]) /\ InterfaceDriver[10].of = {1} /\ InterfaceDriver[10].own = {Masses}
      /\ Rests(InterfaceDriver[11]) /\ InterfaceDriver[11].of = {2} /\ InterfaceDriver[11].own = {Masses}
      /\ Rests(InterfaceDriver[12]) /\ InterfaceDriver[12].of = {1} /\ InterfaceDriver[12].own = {Masses}
      /\ Rests(InterfaceDriver[13]) /\ InterfaceDriver[13].of = {2} /\ InterfaceDriver[13].own = {Masses}
      /\ Rests(InterfaceDriver[14]) /\ InterfaceDriver[14].of = Both /\ InterfaceDriver[14].own = {Masses}
  BY <1>9, <1>10, <1>11, <1>12, <1>13, <1>14, <1>15, <1>38
<1>41. /\ Rests(InterfaceDriver[15]) /\ RestsOf(InterfaceDriver[15])
      /\ Rests(InterfaceDriver[16]) /\ RestsOf(InterfaceDriver[16])
      /\ InterfaceDriver[17].outs = {Masses} /\ RestsOf(InterfaceDriver[17])
      /\ Rests(InterfaceDriver[18]) /\ RestsOf(InterfaceDriver[18])
      /\ Rests(InterfaceDriver[19]) /\ RestsOf(InterfaceDriver[19])
      /\ Rests(InterfaceDriver[20]) /\ RestsOf(InterfaceDriver[20])
      /\ Rests(InterfaceDriver[21]) /\ InterfaceDriver[21].of = {1} /\ InterfaceDriver[21].own = {Energies}
  BY <1>16, <1>17, <1>18, <1>19, <1>20, <1>21, <1>22, <1>38
<1>42. /\ Rests(InterfaceDriver[22]) /\ InterfaceDriver[22].of = {2} /\ InterfaceDriver[22].own = {Energies}
      /\ Rests(InterfaceDriver[23]) /\ InterfaceDriver[23].of = {1} /\ InterfaceDriver[23].own = {Energies}
      /\ Rests(InterfaceDriver[24]) /\ InterfaceDriver[24].of = {2} /\ InterfaceDriver[24].own = {Energies}
      /\ Rests(InterfaceDriver[25]) /\ RestsOf(InterfaceDriver[25])
      /\ Rests(InterfaceDriver[26]) /\ RestsOf(InterfaceDriver[26])
      /\ Rests(InterfaceDriver[27]) /\ RestsOf(InterfaceDriver[27])
      /\ Rests(InterfaceDriver[28]) /\ RestsOf(InterfaceDriver[28])
  BY <1>23, <1>24, <1>25, <1>26, <1>27, <1>28, <1>29, <1>38
<1>43. /\ Rests(InterfaceDriver[29]) /\ RestsOf(InterfaceDriver[29])
      /\ Rests(InterfaceDriver[30]) /\ RestsOf(InterfaceDriver[30])
      /\ Rests(InterfaceDriver[31]) /\ RestsOf(InterfaceDriver[31])
      /\ Rests(InterfaceDriver[32]) /\ RestsOf(InterfaceDriver[32])
      /\ Rests(InterfaceDriver[33]) /\ RestsOf(InterfaceDriver[33])
      /\ Rests(InterfaceDriver[34]) /\ RestsOf(InterfaceDriver[34])
      /\ Rests(InterfaceDriver[35]) /\ RestsOf(InterfaceDriver[35])
  BY <1>30, <1>31, <1>32, <1>33, <1>34, <1>35, <1>36, <1>38
<1>44. InterfaceDriver[3] = Call("VolumeFlux", {Volumes}, {}, {}, Rows(CellRows, NodeRows))
  BY <1>38 DEF a3
<1>45. InterfaceDriver[5] = Call("FractionalVolumeFluxes", {}, Both, {Volumes}, Rows(CellRows, Inner))
  BY <1>38 DEF a5
<1>46. InterfaceDriver[6] = AtBoundary(Call("FractionalVolumeFluxes", {}, Both, {Volumes}, Rows(CellRows, Inner)))
  BY <1>38 DEF a6
<1>47. InterfaceDriver[7] = Call("CheckVolumeFluxes", {}, Both, {Volumes}, CellRows)
  BY <1>38 DEF a7
<1>48. InterfaceDriver[10] = Call("Flux", {}, {1}, {Masses}, Rows(CellRows, Inner))
  BY <1>38 DEF a10
<1>49. InterfaceDriver[11] = Call("Flux", {}, {2}, {Masses}, Rows(CellRows, Inner))
  BY <1>38 DEF a11
<1>50. InterfaceDriver[12] = AtBoundary(Call("Flux", {}, {1}, {Masses}, Rows(CellRows, Inner)))
  BY <1>38 DEF a12
<1>51. InterfaceDriver[13] = AtBoundary(Call("Flux", {}, {2}, {Masses}, Rows(CellRows, Inner)))
  BY <1>38 DEF a13
<1>52. InterfaceDriver[14] = Call("CheckMassFlux", {}, Both, {Masses}, CellRows)
  BY <1>38 DEF a14
<1>53. InterfaceDriver[21] = Call("Flux", {}, {1}, {Energies}, Rows(CellRows, Inner))
  BY <1>38 DEF a21
<1>54. InterfaceDriver[22] = Call("Flux", {}, {2}, {Energies}, Rows(CellRows, Inner))
  BY <1>38 DEF a22
<1>55. InterfaceDriver[23] = AtBoundary(Call("Flux", {}, {1}, {Energies}, Rows(CellRows, Inner)))
  BY <1>38 DEF a23
<1>56. InterfaceDriver[24] = AtBoundary(Call("Flux", {}, {2}, {Energies}, Rows(CellRows, Inner)))
  BY <1>38 DEF a24
<1>59. InterfaceDriver[17] = Call("TotalMassFlux", {Masses}, {}, {}, Rows(CellRows, NodeRows))
  BY <1>38 DEF a17
<1>60. \A k \in 1 .. 35 : InterfaceDriver[k].kernel = "ProjectNodal" => k \in {29, 30, 33, 34}
  BY <1>38, <1>57
<1>61. \A k \in {29, 30, 33, 34} : InterfaceDriver[k].rows \subseteq Inner
  BY <1>38, <1>58
<1> QED BY <1>37, <1>39, <1>40, <1>41, <1>42, <1>43, <1>44, <1>45, <1>46, <1>47, <1>48, <1>49, <1>50,
           <1>51, <1>52, <1>53, <1>54, <1>55, <1>56, <1>59, <1>60, <1>61
-----------------------------------------------------------------------------
LEMMA FaceLoop == Rows(CellRows, Inner) = FaceRows(FaceKind)
  BY DEF Rows, FaceRows, FaceKind

\* The calls that store into the fluxes of a mix, and into those of a material.
LEMMA MixRests ==
  \A k \in 1 .. 26 \ {1, 5, 6, 10, 11, 15, 16} : Rests(MixDriver[k])
  BY MixIs

LEMMA InterfaceRests ==
  /\ \A k \in 1 .. 35 \ {3, 17} : Rests(InterfaceDriver[k])
  /\ \A k \in 1 .. 35 \ {5, 6, 7, 10, 11, 12, 13, 14, 21, 22, 23, 24} : RestsOf(InterfaceDriver[k])
<1>1. \A k \in 1 .. 35 \ {3, 17} : Rests(InterfaceDriver[k])
  <2>1. /\ Rests(InterfaceDriver[1]) /\ Rests(InterfaceDriver[2]) /\ Rests(InterfaceDriver[4])
        /\ Rests(InterfaceDriver[5]) /\ Rests(InterfaceDriver[6]) /\ Rests(InterfaceDriver[7])
        /\ Rests(InterfaceDriver[8]) /\ Rests(InterfaceDriver[9]) /\ Rests(InterfaceDriver[10])
        /\ Rests(InterfaceDriver[11]) /\ Rests(InterfaceDriver[12]) /\ Rests(InterfaceDriver[13])
        /\ Rests(InterfaceDriver[14]) /\ Rests(InterfaceDriver[15]) /\ Rests(InterfaceDriver[16])
        /\ Rests(InterfaceDriver[18]) /\ Rests(InterfaceDriver[19]) /\ Rests(InterfaceDriver[20])
        /\ Rests(InterfaceDriver[21]) /\ Rests(InterfaceDriver[22]) /\ Rests(InterfaceDriver[23])
        /\ Rests(InterfaceDriver[24]) /\ Rests(InterfaceDriver[25]) /\ Rests(InterfaceDriver[26])
        /\ Rests(InterfaceDriver[27]) /\ Rests(InterfaceDriver[28]) /\ Rests(InterfaceDriver[29])
        /\ Rests(InterfaceDriver[30]) /\ Rests(InterfaceDriver[31]) /\ Rests(InterfaceDriver[32])
        /\ Rests(InterfaceDriver[33]) /\ Rests(InterfaceDriver[34]) /\ Rests(InterfaceDriver[35])
    BY InterfaceIs
  <2> QED BY <2>1
<1>2. \A k \in 1 .. 35 \ {5, 6, 7, 10, 11, 12, 13, 14, 21, 22, 23, 24} : RestsOf(InterfaceDriver[k])
  <2>1. /\ RestsOf(InterfaceDriver[1]) /\ RestsOf(InterfaceDriver[2]) /\ RestsOf(InterfaceDriver[3])
        /\ RestsOf(InterfaceDriver[4]) /\ RestsOf(InterfaceDriver[8]) /\ RestsOf(InterfaceDriver[9])
        /\ RestsOf(InterfaceDriver[15]) /\ RestsOf(InterfaceDriver[16]) /\ RestsOf(InterfaceDriver[17])
        /\ RestsOf(InterfaceDriver[18]) /\ RestsOf(InterfaceDriver[19]) /\ RestsOf(InterfaceDriver[20])
        /\ RestsOf(InterfaceDriver[25]) /\ RestsOf(InterfaceDriver[26]) /\ RestsOf(InterfaceDriver[27])
        /\ RestsOf(InterfaceDriver[28]) /\ RestsOf(InterfaceDriver[29]) /\ RestsOf(InterfaceDriver[30])
        /\ RestsOf(InterfaceDriver[31]) /\ RestsOf(InterfaceDriver[32]) /\ RestsOf(InterfaceDriver[33])
        /\ RestsOf(InterfaceDriver[34]) /\ RestsOf(InterfaceDriver[35])
    BY InterfaceIs
  <2> QED BY <2>1
<1> QED BY <1>1, <1>2

LEMMA MixStores ==
  ASSUME NEW k \in 1 .. 26
  PROVE  /\ Masses \in Into(0, MixDriver[k]) <=> k \in {5, 6}
         /\ Energies \in Into(0, MixDriver[k]) <=> k \in {10, 11}
         /\ Concentrations \in Into(0, MixDriver[k]) <=> k \in {15, 16}
<1>1. CASE k \notin {1, 5, 6, 10, 11, 15, 16}
  BY <1>1, MixRests, Resting DEF Carried
<1>2. CASE k \in {1, 5, 6, 10, 11, 15, 16}
  <2>1. /\ MixDriver[1].outs = {Volumes}
        /\ MixDriver[5].outs = {Masses} /\ MixDriver[6].outs = {Masses}
        /\ MixDriver[10].outs = {Energies} /\ MixDriver[11].outs = {Energies}
        /\ MixDriver[15].outs = {Concentrations} /\ MixDriver[16].outs = {Concentrations}
    BY MixIs
  <2> QED BY <1>2, <2>1, NamesApart DEF Into, Both
<1> QED BY <1>1, <1>2

LEMMA OwnStores ==
  ASSUME NEW k \in 1 .. 35, NEW m \in Both
  PROVE  /\ Volumes \in Into(m, InterfaceDriver[k]) <=> k \in {5, 6, 7}
         /\ Masses \in Into(m, InterfaceDriver[k]) <=> k \in {9 + m, 11 + m, 14}
         /\ Energies \in Into(m, InterfaceDriver[k]) <=> k \in {20 + m, 22 + m}
<1>1. CASE k \notin {5, 6, 7, 10, 11, 12, 13, 14, 21, 22, 23, 24}
  <2>1. Volumes \notin Into(m, InterfaceDriver[k]) /\ Masses \notin Into(m, InterfaceDriver[k])
        /\ Energies \notin Into(m, InterfaceDriver[k])
    BY <1>1, InterfaceRests, Resting DEF Carried
  <2> QED BY <1>1, <2>1 DEF Both
<1>2. CASE k \in {5, 6, 7}
  <2>1. InterfaceDriver[k].of = Both /\ InterfaceDriver[k].own = {Volumes}
    BY <1>2, InterfaceIs
  <2> QED BY <1>2, <2>1, NamesApart DEF Into, Both
<1>3. CASE k \in {10, 12}
  <2>1. InterfaceDriver[k].of = {1} /\ InterfaceDriver[k].own = {Masses}
    BY <1>3, InterfaceIs
  <2> QED BY <1>3, <2>1, NamesApart DEF Into, Both
<1>4. CASE k \in {11, 13}
  <2>1. InterfaceDriver[k].of = {2} /\ InterfaceDriver[k].own = {Masses}
    BY <1>4, InterfaceIs
  <2> QED BY <1>4, <2>1, NamesApart DEF Into, Both
<1>5. CASE k = 14
  <2>1. InterfaceDriver[k].of = Both /\ InterfaceDriver[k].own = {Masses}
    BY <1>5, InterfaceIs
  <2> QED BY <1>5, <2>1, NamesApart DEF Into, Both
<1>6. CASE k \in {21, 23}
  <2>1. InterfaceDriver[k].of = {1} /\ InterfaceDriver[k].own = {Energies}
    BY <1>6, InterfaceIs
  <2> QED BY <1>6, <2>1, NamesApart DEF Into, Both
<1>7. CASE k \in {22, 24}
  <2>1. InterfaceDriver[k].of = {2} /\ InterfaceDriver[k].own = {Energies}
    BY <1>7, InterfaceIs
  <2> QED BY <1>7, <2>1, NamesApart DEF Into, Both
<1> QED BY <1>1, <1>2, <1>3, <1>4, <1>5, <1>6, <1>7

LEMMA WholeStores ==
  ASSUME NEW k \in 1 .. 35
  PROVE  /\ Volumes \in Into(0, InterfaceDriver[k]) <=> k = 3
         /\ Masses \in Into(0, InterfaceDriver[k]) <=> k = 17
         /\ Predicted \notin Into(0, InterfaceDriver[k])
<1>1. CASE k \notin {3, 17}
  BY <1>1, InterfaceRests, Resting DEF Carried
<1>2. CASE k \in {3, 17}
  <2>1. InterfaceDriver[3].outs = {Volumes} /\ InterfaceDriver[17].outs = {Masses}
    BY InterfaceIs
  <2> QED BY <1>2, <2>1, NamesApart DEF Into, Both, Carried
<1> QED BY <1>1, <1>2
-----------------------------------------------------------------------------
LEMMA DriverIs ==
  /\ Mix => Driver = MixDriver /\ DOMAIN Driver = 1 .. 26 /\ Len(Driver) = 26
  /\ ~Mix => Driver = InterfaceDriver /\ DOMAIN Driver = 1 .. 35 /\ Len(Driver) = 35
  BY MixIs, InterfaceIs DEF Driver

\* The kernels of a call.
LEMMA FluxCall ==
  ASSUME NEW call, call.kernel = "Flux", NEW a
  PROVE  /\ \A iy : LoopInto(call, 0, a, iy) = Flux(a, iy)
         /\ EdgeInto(call, 0, a) = FluxBoundary(a)
         /\ \A m \in Both : /\ \A iy : LoopInto(call, m, a, iy) = FluxOf(m, a, iy)
                            /\ EdgeInto(call, m, a) = FluxBoundaryOf(m, a)
<1>1. \A iy : LoopInto(call, 0, a, iy) = Flux(a, iy)
  BY DEF LoopInto, LoopStores, Both
<1>2. EdgeInto(call, 0, a) = FluxBoundary(a)
  BY DEF EdgeInto, BoundaryStores, Both
<1>3. \A m \in Both : \A iy : LoopInto(call, m, a, iy) = FluxOf(m, a, iy)
  BY DEF LoopInto, LoopStoresOf
<1>4. \A m \in Both : EdgeInto(call, m, a) = FluxBoundaryOf(m, a)
  BY DEF EdgeInto, BoundaryStoresOf
<1> QED BY <1>1, <1>2, <1>3, <1>4

LEMMA FractionCall ==
  ASSUME NEW call, call.kernel = "FractionalVolumeFluxes", NEW a, NEW m \in Both
  PROVE  /\ \A iy : LoopInto(call, m, a, iy) = FractionalVolumeFluxes(iy)
         /\ EdgeInto(call, m, a) = FractionalVolumeFluxesBoundary
<1>1. \A iy : LoopInto(call, m, a, iy) = FractionalVolumeFluxes(iy)
  BY DEF LoopInto, LoopStoresOf
<1>2. EdgeInto(call, m, a) = FractionalVolumeFluxesBoundary
  BY DEF EdgeInto, BoundaryStoresOf
<1> QED BY <1>1, <1>2

LEMMA CheckCall ==
  ASSUME NEW call, NEW a, NEW m \in Both, NEW iy
  PROVE  /\ call.kernel = "CheckVolumeFluxes" => LoopInto(call, m, a, iy) = CheckVolumeFluxes(m, iy)
         /\ call.kernel = "CheckMassFlux" => LoopInto(call, m, a, iy) = CheckMassFlux(m, iy)
<1>1. CASE call.kernel = "CheckVolumeFluxes"
  BY <1>1 DEF LoopInto, LoopStoresOf
<1>2. CASE call.kernel = "CheckMassFlux"
  BY <1>2 DEF LoopInto, LoopStoresOf
<1> QED BY <1>1, <1>2

\* The calls first, last and, when there is one, check are those that store into array a of
\* bank h.
Turns(h, a, first, last, check) ==
  /\ DOMAIN Bank(h)[a] = 0 .. Size(FaceKind) - 1
  /\ first \in DOMAIN Driver /\ last \in DOMAIN Driver /\ first < last
  /\ Driver[first].part = "loop" /\ Driver[first].rows = FaceRows(FaceKind)
  /\ Driver[last].part = "boundary"
  /\ \A k \in DOMAIN Driver : a \in Into(h, Driver[k]) <=> k \in {first, last, check}
  /\ \A iy : Spreads(LoopInto(Driver[first], h, a, iy), InnerFaces(iy), FALSE)
  /\ pc = last => Spreads(EdgeInto(Driver[last], h, a), SeamFaces, WallsOf(FaceKind))
  /\ \/ check = last
     \/ /\ check > last /\ Driver[check].part = "loop"
        /\ pc = check /\ Full(h, a) =>
             \A iy \in todo : Complete(Stored(Bank(h)[a], LoopInto(Driver[check], h, a, iy)), FaceKind)

LEMMA TurnsFit ==
  ASSUME DOMAIN Driver = 1 .. Len(Driver), Len(Driver) \in Nat,
         NEW h, NEW a, NEW first, NEW last, NEW check, Turns(h, a, first, last, check)
  PROVE  Fits(h, a, first, last)
<1>1. /\ DOMAIN Bank(h)[a] = 0 .. Size(FaceKind) - 1
      /\ first \in DOMAIN Driver /\ last \in DOMAIN Driver /\ first < last
      /\ Driver[first].part = "loop" /\ Driver[first].rows = FaceRows(FaceKind)
      /\ Driver[last].part = "boundary"
  BY DEF Turns
<1>2. \A k \in DOMAIN Driver : a \in Into(h, Driver[k]) <=> k \in {first, last, check}
  BY DEF Turns
<1>3. /\ pc = first => \A iy : Spreads(LoopInto(Driver[pc], h, a, iy), InnerFaces(iy), FALSE)
      /\ pc = last => Spreads(EdgeInto(Driver[pc], h, a), SeamFaces, WallsOf(FaceKind))
  BY DEF Turns
<1>4. \/ check = last
      \/ /\ check > last /\ Driver[check].part = "loop"
         /\ pc = check /\ Full(h, a) =>
              \A iy \in todo : Complete(Stored(Bank(h)[a], LoopInto(Driver[check], h, a, iy)), FaceKind)
  BY DEF Turns
<1>5. first \in Int /\ last \in Int
  BY <1>1
<1>6. pc \in DOMAIN Driver /\ a \in Into(h, Driver[pc]) /\ pc < last => pc = first
  BY <1>2, <1>4, <1>5
<1>7. ASSUME pc \in DOMAIN Driver, a \in Into(h, Driver[pc]), pc > last, Full(h, a)
      PROVE  /\ Driver[pc].part = "loop"
             /\ \A iy \in todo : Complete(Stored(Bank(h)[a], LoopInto(Driver[pc], h, a, iy)), FaceKind)
  <2>1. pc = check /\ check # last
    BY <1>1, <1>2, <1>5, <1>7
  <2> QED BY <1>4, <1>7, <2>1
<1>8. a \in Into(h, Driver[first]) /\ a \in Into(h, Driver[last])
  BY <1>1, <1>2
<1> QED BY <1>1, <1>3, <1>6, <1>7, <1>8 DEF Fits
-----------------------------------------------------------------------------
\* The fluxes of a bank have the sizes of the faces.
Sized(h, S) == \A a \in S : DOMAIN Bank(h)[a] = 0 .. Size(FaceKind) - 1

\* The calls of a flux, by their numbers; what stores into an array, and the check that
\* keeps it complete.
FluxAt(first, last, outs, of, own) ==
  /\ first \in DOMAIN Driver /\ last \in DOMAIN Driver /\ first < last
  /\ Driver[first] = Call("Flux", outs, of, own, Rows(CellRows, Inner))
  /\ Driver[last] = AtBoundary(Call("Flux", outs, of, own, Rows(CellRows, Inner)))

StoredBy(h, a, S) == \A k \in DOMAIN Driver : a \in Into(h, Driver[k]) <=> k \in S

KeptBy(h, a, last, check) ==
  \/ check = last
  \/ /\ check > last /\ Driver[check].part = "loop"
     /\ pc = check /\ Full(h, a) =>
          \A iy \in todo : Complete(Stored(Bank(h)[a], LoopInto(Driver[check], h, a, iy)), FaceKind)

LEMMA FluxTurns ==
  ASSUME NEW h \in Banks, NEW a, Sized(h, {a}), NEW first, NEW last, NEW check,
         NEW outs, NEW of, NEW own, FluxAt(first, last, outs, of, own),
         StoredBy(h, a, {first, last, check}), KeptBy(h, a, last, check)
  PROVE  Turns(h, a, first, last, check)
<1>0. /\ first \in DOMAIN Driver /\ last \in DOMAIN Driver /\ first < last
      /\ Driver[first] = Call("Flux", outs, of, own, Rows(CellRows, Inner))
      /\ Driver[last] = AtBoundary(Call("Flux", outs, of, own, Rows(CellRows, Inner)))
  BY DEF FluxAt
<1>1. Driver[first].kernel = "Flux" /\ Driver[first].part = "loop" /\ Driver[first].rows = FaceRows(FaceKind)
  BY <1>0, CallFields, FaceLoop
<1>2. Driver[last].kernel = "Flux" /\ Driver[last].part = "boundary"
  BY <1>0, BoundaryFields
<1>3. h = 0 \/ h \in Both
  BY BothBanks
<1>4. \A iy : Spreads(LoopInto(Driver[first], h, a, iy), InnerFaces(iy), FALSE)
  <2> TAKE iy
  <2>1. CASE h = 0
    <3>1. LoopInto(Driver[first], 0, a, iy) = Flux(a, iy)
      BY <1>1, FluxCall
    <3> QED BY <2>1, <3>1, FluxKernels
  <2>2. CASE h \in Both
    <3>1. LoopInto(Driver[first], h, a, iy) = FluxOf(h, a, iy)
      BY <1>1, <2>2, FluxCall
    <3> QED BY <3>1, FluxKernels
  <2> QED BY <1>3, <2>1, <2>2
<1>5. Spreads(EdgeInto(Driver[last], h, a), SeamFaces, WallsOf(FaceKind))
  <2>1. CASE h = 0
    <3>1. EdgeInto(Driver[last], 0, a) = FluxBoundary(a)
      BY <1>2, FluxCall
    <3> QED BY <2>1, <3>1, FluxKernels
  <2>2. CASE h \in Both
    <3>1. EdgeInto(Driver[last], h, a) = FluxBoundaryOf(h, a)
      BY <1>2, <2>2, FluxCall
    <3> QED BY <3>1, FluxKernels
  <2> QED BY <1>3, <2>1, <2>2
<1>6. DOMAIN Bank(h)[a] = 0 .. Size(FaceKind) - 1
  BY DEF Sized
<1> QED BY <1>0, <1>1, <1>2, <1>4, <1>5, <1>6 DEF Turns, StoredBy, KeptBy

LEMMA MixTurns ==
  ASSUME Mix, Sized(0, {Masses, Energies, Concentrations})
  PROVE  /\ Turns(0, Masses, 5, 6, 6) /\ Turns(0, Energies, 10, 11, 11)
         /\ Turns(0, Concentrations, 15, 16, 16)
<1>1. Driver = MixDriver /\ DOMAIN Driver = 1 .. 26 /\ 0 \in Banks
  BY DriverIs DEF Banks
<1>2. Turns(0, Masses, 5, 6, 6)
  <2>1. StoredBy(0, Masses, {5, 6, 6})
    BY <1>1, MixStores DEF StoredBy
  <2>2. FluxAt(5, 6, {Masses}, {}, {})
    BY <1>1, MixIs DEF FluxAt
  <2>3. Sized(0, {Masses}) /\ KeptBy(0, Masses, 6, 6)
    BY DEF Sized, KeptBy
  <2> QED BY <1>1, <2>1, <2>2, <2>3, FluxTurns
<1>3. Turns(0, Energies, 10, 11, 11)
  <2>1. StoredBy(0, Energies, {10, 11, 11})
    BY <1>1, MixStores DEF StoredBy
  <2>2. FluxAt(10, 11, {Energies}, {}, {})
    BY <1>1, MixIs DEF FluxAt
  <2>3. Sized(0, {Energies}) /\ KeptBy(0, Energies, 11, 11)
    BY DEF Sized, KeptBy
  <2> QED BY <1>1, <2>1, <2>2, <2>3, FluxTurns
<1>4. Turns(0, Concentrations, 15, 16, 16)
  <2>1. StoredBy(0, Concentrations, {15, 16, 16})
    BY <1>1, MixStores DEF StoredBy
  <2>2. FluxAt(15, 16, {Concentrations}, {}, {})
    BY <1>1, MixIs DEF FluxAt
  <2>3. Sized(0, {Concentrations}) /\ KeptBy(0, Concentrations, 16, 16)
    BY DEF Sized, KeptBy
  <2> QED BY <1>1, <2>1, <2>2, <2>3, FluxTurns
<1> QED BY <1>2, <1>3, <1>4

LEMMA EnergyTurns ==
  ASSUME ~Mix, NEW m \in Both, Sized(m, {Energies})
  PROVE  Turns(m, Energies, 20 + m, 22 + m, 22 + m)
<1>1. Driver = InterfaceDriver /\ DOMAIN Driver = 1 .. 35 /\ m \in Banks
  BY DriverIs DEF Banks
<1>2. StoredBy(m, Energies, {20 + m, 22 + m, 22 + m})
  BY <1>1, OwnStores DEF StoredBy
<1>3. FluxAt(20 + m, 22 + m, {}, {m}, {Energies})
  <2>1. CASE m = 1
    BY <1>1, <2>1, InterfaceIs DEF FluxAt
  <2>2. CASE m = 2
    BY <1>1, <2>2, InterfaceIs DEF FluxAt
  <2> QED BY <2>1, <2>2 DEF Both
<1>4. KeptBy(m, Energies, 22 + m, 22 + m)
  BY DEF KeptBy
<1> DEFINE first == 20 + m
           last == 22 + m
<1> HIDE DEF first, last
<1>5. Turns(m, Energies, first, last, last)
  BY <1>1, <1>2, <1>3, <1>4, FluxTurns DEF first, last
<1> QED BY <1>5 DEF first, last

\* The corrections of the checks.
LEMMA ChecksKeep ==
  ASSUME WideGrid, DrainedOK, TodoOK, NEW m \in Both, OverSeam(m) = {},
         Sized(m, {Volumes, Masses}), Full(m, Volumes), pc \in DOMAIN Driver, Driver[pc].rows = CellRows,
         NEW iy \in todo
  PROVE  /\ Driver[pc].kernel = "CheckVolumeFluxes" =>
              Complete(Stored(Bank(m)[Volumes], LoopInto(Driver[pc], m, Volumes, iy)), FaceKind)
         /\ Driver[pc].kernel = "CheckMassFlux" /\ Full(m, Masses) =>
              Complete(Stored(Bank(m)[Masses], LoopInto(Driver[pc], m, Masses, iy)), FaceKind)
<1>1. iy \in CellRows
  BY DEF TodoOK
<1>2. CorrectionsAre(m, iy, CheckVolumeFluxes(m, iy)) /\ CorrectionsAre(m, iy, CheckMassFlux(m, iy))
  BY <1>1, ChecksCorrect
<1>3. /\ Bank(m) = materials[m]
      /\ DOMAIN materials[m][Volumes] = 0 .. Size(FaceKind) - 1
      /\ DOMAIN materials[m][Masses] = 0 .. Size(FaceKind) - 1
      /\ Complete(materials[m][Volumes], FaceKind)
  BY DEF Bank, Sized, Full
<1> DEFINE v == CheckVolumeFluxes(m, iy)
           w == CheckMassFlux(m, iy)
           f == materials[m][Masses]
<1>4. Complete(Stored(materials[m][Volumes], v), FaceKind)
  <2>1. CorrectionsAre(m, iy, v)
    BY <1>2
  <2> HIDE DEF v
  <2> QED BY <1>1, <1>3, <2>1, CheckKeeps
<1>5. Full(m, Masses) => Complete(Stored(f, w), FaceKind)
  <2> SUFFICES ASSUME Full(m, Masses) PROVE Complete(Stored(f, w), FaceKind)
    OBVIOUS
  <2>1. CorrectionsAre(m, iy, w) /\ DOMAIN f = 0 .. Size(FaceKind) - 1 /\ Complete(f, FaceKind)
    BY <1>2, <1>3 DEF Full
  <2> HIDE DEF w, f
  <2> QED BY <1>1, <1>3, <2>1, CheckKeeps
<1> QED BY <1>3, <1>4, <1>5, CheckCall
-----------------------------------------------------------------------------
\* The volumes of a material, whose lines are cut where volume goes through, and its masses:
\* each is kept complete by the check that follows.
LEMMA VolumeTurns ==
  ASSUME ~Mix, WideGrid, DrainedOK, TodoOK, NEW m \in Both, OverSeam(m) = {},
         Sized(m, {Volumes, Masses}), pc = 6 => FirstClosed
  PROVE  Turns(m, Volumes, 5, 6, 7)
<1>1. Driver = InterfaceDriver /\ DOMAIN Driver = 1 .. 35
  BY DriverIs
<1>2. /\ Driver[5] = Call("FractionalVolumeFluxes", {}, Both, {Volumes}, Rows(CellRows, Inner))
      /\ Driver[6] = AtBoundary(Call("FractionalVolumeFluxes", {}, Both, {Volumes}, Rows(CellRows, Inner)))
      /\ Driver[7] = Call("CheckVolumeFluxes", {}, Both, {Volumes}, CellRows)
  BY <1>1, InterfaceIs
<1>3. /\ Driver[5].kernel = "FractionalVolumeFluxes" /\ Driver[5].part = "loop"
      /\ Driver[5].rows = FaceRows(FaceKind)
  BY <1>2, CallFields, FaceLoop
<1>4. Driver[6].kernel = "FractionalVolumeFluxes" /\ Driver[6].part = "boundary"
  BY <1>2, BoundaryFields
<1>5. Driver[7].kernel = "CheckVolumeFluxes" /\ Driver[7].part = "loop" /\ Driver[7].rows = CellRows
  BY <1>2, CallFields
<1>6. \A k \in DOMAIN Driver : Volumes \in Into(m, Driver[k]) <=> k \in {5, 6, 7}
  BY <1>1, OwnStores
<1>7. \A iy : Spreads(LoopInto(Driver[5], m, Volumes, iy), InnerFaces(iy), FALSE)
  <2> TAKE iy
  <2>1. LoopInto(Driver[5], m, Volumes, iy) = FractionalVolumeFluxes(iy)
    BY <1>3, FractionCall
  <2> QED BY <2>1, FractionKernels
<1>8. pc = 6 => Spreads(EdgeInto(Driver[6], m, Volumes), SeamFaces, WallsOf(FaceKind))
  <2>1. EdgeInto(Driver[6], m, Volumes) = FractionalVolumeFluxesBoundary
    BY <1>4, FractionCall
  <2> QED BY <2>1, FractionKernels
<1>9. ASSUME pc = 7, Full(m, Volumes), NEW iy \in todo
      PROVE  Complete(Stored(Bank(m)[Volumes], LoopInto(Driver[7], m, Volumes, iy)), FaceKind)
  <2>1. pc \in DOMAIN Driver /\ Driver[pc].rows = CellRows /\ Driver[pc].kernel = "CheckVolumeFluxes"
    BY <1>1, <1>5, <1>9
  <2>2. Complete(Stored(Bank(m)[Volumes], LoopInto(Driver[pc], m, Volumes, iy)), FaceKind)
    BY <1>9, <2>1, ChecksKeep
  <2> QED BY <1>9, <2>2
<1>10. DOMAIN Bank(m)[Volumes] = 0 .. Size(FaceKind) - 1
  BY DEF Sized
<1>11. 5 \in DOMAIN Driver /\ 6 \in DOMAIN Driver /\ 5 < 6 /\ 7 > 6
  BY <1>1
<1> QED BY <1>3, <1>4, <1>5, <1>6, <1>7, <1>8, <1>9, <1>10, <1>11 DEF Turns

LEMMA MassTurns ==
  ASSUME ~Mix, WideGrid, DrainedOK, TodoOK, NEW m \in Both, OverSeam(m) = {},
         Sized(m, {Volumes, Masses}), pc = 14 => Full(m, Volumes)
  PROVE  Turns(m, Masses, 9 + m, 11 + m, 14)
<1>1. Driver = InterfaceDriver /\ DOMAIN Driver = 1 .. 35 /\ m \in Banks
  BY DriverIs DEF Banks
<1>2. StoredBy(m, Masses, {9 + m, 11 + m, 14})
  BY <1>1, OwnStores DEF StoredBy
<1>3. FluxAt(9 + m, 11 + m, {}, {m}, {Masses})
  <2>1. CASE m = 1
    <3>1. FluxAt(10, 12, {}, {1}, {Masses})
      BY <1>1, InterfaceIs DEF FluxAt
    <3>2. 9 + m = 10 /\ 11 + m = 12
      BY <2>1
    <3> QED BY <2>1, <3>1, <3>2
  <2>2. CASE m = 2
    <3>1. FluxAt(11, 13, {}, {2}, {Masses})
      BY <1>1, InterfaceIs DEF FluxAt
    <3>2. 9 + m = 11 /\ 11 + m = 13
      BY <2>2
    <3> QED BY <2>2, <3>1, <3>2
  <2> QED BY <2>1, <2>2 DEF Both
<1>4. Driver[14] = Call("CheckMassFlux", {}, Both, {Masses}, CellRows)
  BY <1>1, InterfaceIs
<1>5. Driver[14].kernel = "CheckMassFlux" /\ Driver[14].part = "loop" /\ Driver[14].rows = CellRows
  BY <1>4, CallFields
<1>6. ASSUME pc = 14, Full(m, Masses), NEW iy \in todo
      PROVE  Complete(Stored(Bank(m)[Masses], LoopInto(Driver[14], m, Masses, iy)), FaceKind)
  <2>1. pc \in DOMAIN Driver /\ Driver[pc].rows = CellRows /\ Driver[pc].kernel = "CheckMassFlux"
    BY <1>1, <1>5, <1>6
  <2>2. Complete(Stored(Bank(m)[Masses], LoopInto(Driver[pc], m, Masses, iy)), FaceKind)
    BY <1>6, <2>1, ChecksKeep
  <2> QED BY <1>6, <2>2
<1>7. 14 > 11 + m
  BY DEF Both
<1>8. KeptBy(m, Masses, 11 + m, 14)
  BY <1>5, <1>6, <1>7 DEF KeptBy
<1>9. Sized(m, {Masses})
  BY DEF Sized
<1> DEFINE first == 9 + m
           last == 11 + m
<1> HIDE DEF first, last
<1>10. Turns(m, Masses, first, last, 14)
  BY <1>1, <1>2, <1>3, <1>8, <1>9, FluxTurns DEF first, last
<1> QED BY <1>10 DEF first, last
-----------------------------------------------------------------------------
\* The first faces of the Rayleigh-Taylor problem in y are closed as soon as the row 0 of the
\* loop for the volumes is done, since no node of that row moves up or down.
Bottom == Columns \X {0}
Shut(f) == \A p \in Bottom : f[At("facey", p)] = Zero
Closing == ~InX /\ BoundaryConditions = "RayleighTaylor"

LEMMA ClosedIsShut ==
  ASSUME WideGrid, DOMAIN mem[Volumes] = 0 .. Size(FaceKind) - 1
  PROVE  FirstClosed <=> (Closing => Shut(mem[Volumes]))
<1> SUFFICES ASSUME Closing
             PROVE  FirstClosed <=> Shut(mem[Volumes])
  BY DEF FirstClosed, Closing
<1>1. \A ix \in Columns : /\ <<ix, 0>> \in Places("facey")
                          /\ At("facey", <<ix, 0>>) = Y!FirstFace(ix)
  BY DEF Columns, WideGrid, Places, LastX, LastY, StaggeredX, StaggeredY, At, CellAt, Y!FirstFace
<1>2. FaceKind = "facey" /\ "facey" \in Kinds
  BY DEF FaceKind, Kinds, Closing
<1>3. \A ix \in Columns : Y!FirstFace(ix) \in DOMAIN mem[Volumes]
  BY <1>1, <1>2, ElementsInside, WideGridIsGrid
<1>4. FirstClosed <=> \A ix \in Columns : mem[Volumes][Y!FirstFace(ix)] = Zero
  BY <1>3 DEF FirstClosed, Closing
<1>5. Shut(mem[Volumes]) <=> \A ix \in Columns : mem[Volumes][At("facey", <<ix, 0>>)] = Zero
  BY DEF Shut, Bottom
<1> QED BY <1>1, <1>4, <1>5

\* The row 0 of the velocities.
Still ==
  \A ix \in 0 .. nx : /\ NodeAt(ix, 0, nx) \in DOMAIN mem["predicted_v"]
                      /\ mem["predicted_v"][NodeAt(ix, 0, nx)] = Zero

LEMMA StillNodes ==
  ASSUME WideGrid, Closing, mem["predicted_v"] = Filled("predicted_v")
  PROVE  Still
<1> SUFFICES ASSUME NEW ix \in 0 .. nx
             PROVE  /\ NodeAt(ix, 0, nx) \in DOMAIN mem["predicted_v"]
                    /\ mem["predicted_v"][NodeAt(ix, 0, nx)] = Zero
  BY DEF Still
<1>2. KindOf("predicted_v") = "node" /\ "node" \in Kinds
  BY KindsOfArrays DEF Kinds
<1> DEFINE p == <<ix, 0>>
<1>3. p \in Places("node") /\ At("node", p) = NodeAt(ix, 0, nx)
  BY DEF WideGrid, Places, LastX, LastY, StaggeredX, StaggeredY, At
<1>4. Right("predicted_v", p) = Zero
  BY DEF Right, Held, OnWallY, WallsY, Closing
<1>5. Filled("predicted_v")[NodeAt(ix, 0, nx)] = Zero
  <2> HIDE DEF p
  <2> QED BY <1>2, <1>3, <1>4, FilledRight, WideGridIsGrid
<1>6. NodeAt(ix, 0, nx) \in 0 .. Size("node") - 1
  <2> HIDE DEF p
  <2> QED BY <1>2, <1>3, ElementsInside, WideGridIsGrid
<1>7. DOMAIN Filled("predicted_v") = 0 .. Size("node") - 1
  BY <1>2 DEF Filled
<1> QED BY <1>5, <1>6, <1>7

\* A row of the loop for the volumes.
LEMMA VolumeRow ==
  ASSUME WideGrid, Closing, Still, NEW a, NEW iy \in NodeRows
  PROVE  /\ \A s \in VolumeFlux(a, iy) : \E p \in Columns \X {iy} :
              s[1] = At("facey", p) /\ (iy = 0 => s[2] = Zero)
         /\ \A p \in Columns \X {iy} : \E s \in VolumeFlux(a, iy) : s[1] = At("facey", p)
<1> DEFINE face(ix) == Y!FaceYAt(ix, iy, nx)
           velocities(ix) == {<<"predicted_v", 0, 0, Y!FaceYNodeM1(face(ix), iy, nx)>>,
                              <<"predicted_v", 1, 0, Y!FaceYNodeP1(face(ix), iy, nx)>>}
           flux(ix) == Y!Computed("facey", <<ix, iy>>, velocities(ix))
           value(ix) == Y!Driven(velocities(ix), flux(ix))
<1>1. VolumeFlux(a, iy) = {<<face(ix), value(ix)>> : ix \in Columns}
  BY DEF VolumeFlux, Y!VolumeFluxStores, Columns, Closing
<1>2. \A ix \in Columns : face(ix) = At("facey", <<ix, iy>>)
  BY DEF Y!FaceYAt, At, StaggeredX, CellAt
<1>3. ASSUME iy = 0, NEW ix \in Columns PROVE value(ix) = Zero
  <2>1. ix \in 0 .. nx /\ ix + 1 \in 0 .. nx
    BY DEF Columns, WideGrid
  <2>2. face(ix) = ix
    BY <1>3, <2>1 DEF Y!FaceYAt, WideGrid
  <2>3. Y!FaceYNodeM1(ix, iy, nx) = NodeAt(ix, 0, nx) /\ Y!FaceYNodeP1(ix, iy, nx) = NodeAt(ix + 1, 0, nx)
    BY <1>3, <2>1 DEF Y!FaceYNodeM1, Y!FaceYNodeP1, NodeAt, WideGrid
  <2>4. \A r \in velocities(ix) : r[4] \in DOMAIN mem[r[1]] /\ mem[r[1]][r[4]] = Zero
    BY <2>1, <2>2, <2>3 DEF Still
  <2>5. \A r \in velocities(ix) : r[4] \in DOMAIN mem[r[1]] /\ mem[r[1]][r[4]] = Y!Zero
    BY <2>4, SameGridY, SameStoresY
  <2> HIDE DEF velocities, flux
  <2>6. value(ix) = Y!Zero
    BY <2>5 DEF Y!Driven
  <2> QED BY <2>6, SameGridY, SameStoresY
<1> HIDE DEF face, value
<1>4. ASSUME NEW s \in VolumeFlux(a, iy)
      PROVE  \E p \in Columns \X {iy} : s[1] = At("facey", p) /\ (iy = 0 => s[2] = Zero)
  <2>1. PICK ix \in Columns : s = <<face(ix), value(ix)>>
    BY <1>1
  <2>2. s[1] = At("facey", <<ix, iy>>) /\ (iy = 0 => s[2] = Zero)
    BY <1>2, <1>3, <2>1
  <2> QED BY <2>2
<1>5. ASSUME NEW p \in Columns \X {iy}
      PROVE  \E s \in VolumeFlux(a, iy) : s[1] = At("facey", p)
  <2>1. PICK ix \in Columns : p = <<ix, iy>>
    OBVIOUS
  <2>2. <<face(ix), value(ix)>> \in VolumeFlux(a, iy) /\ <<face(ix), value(ix)>>[1] = At("facey", p)
    BY <1>1, <1>2, <2>1
  <2> QED BY <2>2
<1> QED BY <1>4, <1>5

LEMMA VolumeRowKeeps ==
  ASSUME WideGrid, Closing, Still, NEW a, NEW iy \in NodeRows,
         NEW f, DOMAIN f = 0 .. Size("facey") - 1, iy = 0 \/ Shut(f)
  PROVE  Shut(Stored(f, VolumeFlux(a, iy)))
<1> DEFINE stores == VolumeFlux(a, iy)
           S == Columns \X {iy}
           g == [p \in S |-> Zero]
<1>1. /\ \A s \in stores : \E p \in S : s[1] = At("facey", p) /\ (iy = 0 => s[2] = Zero)
      /\ \A p \in S : \E s \in stores : s[1] = At("facey", p)
  BY VolumeRow
<1>2. S \in SUBSET Places("facey") /\ Bottom \subseteq Places("facey") /\ "facey" \in Kinds /\ Grid
  BY WideGridIsGrid DEF Columns, Bottom, NodeRows, WideGrid, Places, LastX, LastY, StaggeredX, StaggeredY, Kinds
<1>3. \A p \in S : g[p] = Zero
  OBVIOUS
<1>4. CASE iy = 0
  <2>1. \A s \in stores : \E p \in S : s[1] = At("facey", p) /\ s[2] = g[p]
    BY <1>1, <1>4
  <2> DEFINE k == "facey"
  <2>2. \A p \in S : Stored(f, stores)[At(k, p)] = g[p]
    <3>1. k \in Kinds /\ S \in SUBSET Places(k) /\ DOMAIN f = 0 .. Size(k) - 1
      BY <1>2
    <3>2. \A s \in stores : \E p \in S : s[1] = At(k, p) /\ s[2] = g[p]
      BY <2>1
    <3>3. \A p \in S : \E s \in stores : s[1] = At(k, p)
      BY <1>1
    <3>4. Grid
      BY <1>2
    <3> HIDE DEF stores, S, g, k
    <3> QED BY <3>1, <3>2, <3>3, <3>4, StoredThere
  <2> HIDE DEF stores, S, g
  <2> QED BY <1>3, <1>4, <2>2 DEF Shut, Bottom, S, stores
<1>5. CASE iy # 0
  <2>1. Bottom \cap S = {} /\ \A s \in stores : \E p \in S : s[1] = At("facey", p)
    BY <1>1, <1>5 DEF Bottom
  <2> DEFINE k == "facey"
  <2>2. \A p \in Places(k) \ S : Stored(f, stores)[At(k, p)] = f[At(k, p)]
    <3>1. k \in Kinds /\ S \in SUBSET Places(k) /\ DOMAIN f = 0 .. Size(k) - 1
      BY <1>2
    <3>2. \A s \in stores : \E p \in S : s[1] = At(k, p)
      BY <2>1
    <3>3. Grid
      BY <1>2
    <3> HIDE DEF stores, S, g, k
    <3> QED BY <3>1, <3>2, <3>3, StoredElsewhere
  <2> HIDE DEF stores, S, g
  <2>3. Shut(f)
    BY <1>5
  <2> QED BY <1>2, <2>1, <2>2, <2>3 DEF Shut, stores
<1> QED BY <1>4, <1>5
-----------------------------------------------------------------------------
\* How far the first faces of the Rayleigh-Taylor problem have come.
ClosedStage ==
  ~Mix => /\ pc = 3 /\ 0 \notin todo => FirstClosed
          /\ pc > 3 => FirstClosed

\* The arrays of the whole that it depends on.
WholeOK ==
  /\ Volumes \in DOMAIN mem /\ DOMAIN mem[Volumes] = 0 .. Size(FaceKind) - 1
  /\ Predicted \in DOMAIN mem /\ (~Mix /\ Closing => Still)

LEMMA SameClosedNext ==
  ASSUME Settings, WideGrid, DOMAIN mem'[Volumes] = 0 .. Size(FaceKind) - 1
  PROVE  FirstClosed' <=> (Closing => Shut(mem'[Volumes]))
<1> SUFFICES ASSUME Closing
             PROVE  FirstClosed' <=> Shut(mem'[Volumes])
  BY DEF FirstClosed, Closing, Settings, InX
<1>1. \A ix \in Columns : /\ <<ix, 0>> \in Places("facey")
                          /\ At("facey", <<ix, 0>>) = Y!FirstFace(ix)
  BY DEF Columns, WideGrid, Places, LastX, LastY, StaggeredX, StaggeredY, At, CellAt, Y!FirstFace
<1>2. FaceKind = "facey" /\ "facey" \in Kinds
  BY DEF FaceKind, Kinds, Closing
<1>3. \A ix \in Columns : Y!FirstFace(ix) \in DOMAIN mem'[Volumes]
  BY <1>1, <1>2, ElementsInside, WideGridIsGrid
<1>4. Columns' = Columns /\ Volumes' = Volumes /\ Closing' /\ \A ix : Y!FirstFace(ix)' = Y!FirstFace(ix)
  BY DEF Columns, Volumes, InX, Settings, Closing, Y!FirstFace
<1>5. FirstClosed' <=> \A ix \in Columns : mem'[Volumes][Y!FirstFace(ix)] = Zero
  BY <1>3, <1>4 DEF FirstClosed, Closing, Zero
<1>6. Shut(mem'[Volumes]) <=> \A ix \in Columns : mem'[Volumes][At("facey", <<ix, 0>>)] = Zero
  BY DEF Shut, Bottom
<1> QED BY <1>1, <1>5, <1>6

LEMMA VolumeCall ==
  ASSUME ~Mix
  PROVE  /\ Driver[3].part = "loop"
         /\ Closing => Driver[3].rows = NodeRows
         /\ \A iy : LoopInto(Driver[3], 0, Volumes, iy) = VolumeFlux(Volumes, iy)
         /\ \A k \in DOMAIN Driver : Volumes \in Into(0, Driver[k]) <=> k = 3
         /\ \A k \in DOMAIN Driver : Predicted \notin Into(0, Driver[k])
<1>1. Driver = InterfaceDriver /\ DOMAIN Driver = 1 .. 35
  BY DriverIs
<1>2. Driver[3] = Call("VolumeFlux", {Volumes}, {}, {}, Rows(CellRows, NodeRows))
  BY <1>1, InterfaceIs
<1>3. Driver[3].kernel = "VolumeFlux" /\ Driver[3].part = "loop" /\ Driver[3].rows = Rows(CellRows, NodeRows)
  BY <1>2, CallFields
<1>4. Closing => Driver[3].rows = NodeRows
  BY <1>3 DEF Rows, Closing
<1>5. \A iy : LoopInto(Driver[3], 0, Volumes, iy) = VolumeFlux(Volumes, iy)
  BY <1>3 DEF LoopInto, LoopStores, Both
<1> QED BY <1>1, <1>3, <1>4, <1>5, WholeStores

LEMMA ClosedNext ==
  ASSUME WideGrid, TodoOK, DOMAIN materials = Both, [Next]_allvars, WholeOK, ClosedStage
  PROVE  ClosedStage' /\ WholeOK'
<1>0. Settings /\ 0 \in Banks /\ Bank(0) = mem /\ Bank(0)' = mem'
  BY StepSettings DEF Banks, Bank, Both
<1>1. /\ Mix' = Mix /\ InX' = InX /\ Closing' = Closing /\ Volumes' = Volumes /\ Predicted' = Predicted
      /\ FaceKind' = FaceKind /\ Size(FaceKind)' = Size(FaceKind) /\ nx' = nx
  BY <1>0 DEF Settings, Mix, InX, Closing, Volumes, Predicted, FaceKind, Size, LastX, LastY, StaggeredX, StaggeredY
<1>2. /\ Volumes \in DOMAIN mem /\ DOMAIN mem[Volumes] = 0 .. Size(FaceKind) - 1
      /\ Predicted \in DOMAIN mem
  BY DEF WholeOK
<1>3. BankStep(0, Volumes) /\ BankStep(0, Predicted) /\ SizesKept(0)
  BY <1>0, <1>2, StepsOfBanks
<1>4. /\ Volumes \in DOMAIN mem' /\ DOMAIN mem'[Volumes] = 0 .. Size(FaceKind) - 1
      /\ Predicted \in DOMAIN mem'
  BY <1>0, <1>2, <1>3 DEF SizesKept
<1>5. /\ FirstClosed <=> (Closing => Shut(mem[Volumes]))
      /\ FirstClosed' <=> (Closing => Shut(mem'[Volumes]))
  BY <1>0, <1>2, <1>4, ClosedIsShut, SameClosedNext
<1>6. CASE Mix
  <2>1. Mix'
    BY <1>1, <1>6
  <2> QED BY <1>1, <1>4, <2>1 DEF ClosedStage, WholeOK
<1>7. CASE ~Mix /\ ~Closing
  BY <1>1, <1>4, <1>5, <1>7 DEF ClosedStage, WholeOK
<1>8. CASE ~Mix /\ Closing
  <2> DEFINE f == mem[Volumes]
             g == mem'[Volumes]
  <2>1. /\ Driver[3].part = "loop" /\ Driver[3].rows = NodeRows
        /\ \A iy : LoopInto(Driver[3], 0, Volumes, iy) = VolumeFlux(Volumes, iy)
        /\ \A k \in DOMAIN Driver : Volumes \in Into(0, Driver[k]) <=> k = 3
        /\ \A k \in DOMAIN Driver : Predicted \notin Into(0, Driver[k])
    BY <1>8, VolumeCall
  <2>2. Still /\ DOMAIN f = 0 .. Size("facey") - 1 /\ Predicted = "predicted_v"
    BY <1>2, <1>8 DEF WholeOK, FaceKind, Closing, Predicted
  <2>3. /\ pc = 3 /\ 0 \notin todo => Shut(f)
        /\ pc > 3 => Shut(f)
    BY <1>5, <1>8 DEF ClosedStage
  <2>4. /\ pc \in Nat \ {0} /\ (pc \in DOMAIN Driver => todo \subseteq Driver[pc].rows)
        /\ RowsAfter = IF pc + 1 \in DOMAIN Driver THEN Driver[pc + 1].rows ELSE {}
    BY DEF TodoOK, RowsAfter
  <2>5. (Calls("loop") => pc \in DOMAIN Driver /\ Driver[pc].part = "loop")
        /\ (Calls("boundary") => pc \in DOMAIN Driver /\ Driver[pc].part = "boundary")
    BY DEF Calls
  <2>6. mem'[Predicted] = mem[Predicted]
    <3>1. Bank(0)'[Predicted] = Bank(0)[Predicted]
      BY <1>3, <2>1, <2>5 DEF BankStep, Idle, NoRow, RowInto, EdgeOver
    <3> QED BY <1>0, <3>1
  <2>7. Still'
    BY <1>1, <2>2, <2>6 DEF Still, NodeAt, Zero
  <2>8. 0 \in NodeRows /\ (pc + 1 = 3 => 0 \in RowsAfter)
    <3>1. 0 \in NodeRows /\ 3 \in DOMAIN Driver
      BY <1>8, DriverIs DEF NodeRows, WideGrid
    <3> QED BY <2>1, <2>4, <3>1
  <2>9. ASSUME pc = 3, NEW iy \in todo, iy = 0 \/ 0 \notin todo
        PROVE  Shut(Stored(f, VolumeFlux(Volumes, iy)))
    <3>1. iy \in NodeRows
      <4>1. 3 \in DOMAIN Driver
        BY <1>8, DriverIs
      <4> QED BY <2>1, <2>4, <2>9, <4>1
    <3>2. iy = 0 \/ Shut(f)
      BY <2>3, <2>9
    <3> HIDE DEF f
    <3> QED BY <1>8, <2>2, <3>1, <3>2, VolumeRowKeeps
  <2>10. /\ pc' = 3 /\ 0 \notin todo' => Shut(g)
         /\ pc' > 3 => Shut(g)
    <3> DEFINE row(iy) == Stored(f, VolumeFlux(Volumes, iy))
    <3>0. \A iy \in todo : pc = 3 /\ (iy = 0 \/ 0 \notin todo) => Shut(row(iy))
      BY <2>9
    <3>1. CASE Idle(0, Volumes)
      <4>1. pc' = pc /\ todo' = todo /\ g = f
        BY <1>0, <3>1 DEF Idle
      <4> QED BY <2>3, <4>1
    <3>2. CASE Calls("loop") /\ NoRow(0, Volumes)
      <4>1. todo = {} /\ pc' = pc + 1 /\ todo' = RowsAfter /\ g = f
        BY <1>0, <3>2 DEF NoRow
      <4> HIDE DEF f, g
      <4>2. pc' = 3 => 0 \in todo'
        BY <2>8, <4>1
      <4>3. pc' > 3 => Shut(f)
        BY <2>3, <2>4, <4>1
      <4> QED BY <4>1, <4>2, <4>3
    <3>3. CASE Calls("loop") /\ RowInto(0, Volumes)
      <4>1. PICK iy \in todo :
              /\ pc' = IF todo = {iy} THEN pc + 1 ELSE pc
              /\ todo' = IF todo = {iy} THEN RowsAfter ELSE todo \ {iy}
              /\ g = IF Volumes \in Into(0, Driver[pc]) THEN Stored(f, LoopInto(Driver[pc], 0, Volumes, iy)) ELSE f
        BY <1>0, <3>3 DEF RowInto
      <4>2. pc \in DOMAIN Driver
        BY <2>5, <3>3
      <4>3. g = IF pc = 3 THEN row(iy) ELSE f
        BY <2>1, <4>1, <4>2
      <4> HIDE DEF f, g, row
      <4>4. CASE pc = 3
        BY <2>4, <3>0, <4>1, <4>3, <4>4
      <4>5. CASE pc # 3
        BY <2>3, <2>4, <2>8, <4>1, <4>3, <4>5
      <4> QED BY <4>4, <4>5
    <3>4. CASE Calls("boundary") /\ EdgeOver(0, Volumes)
      <4>1. pc # 3 /\ pc \in DOMAIN Driver
        BY <2>1, <2>5, <3>4
      <4>2. /\ pc' = pc + 1 /\ todo' = RowsAfter
            /\ g = IF Volumes \in Into(0, Driver[pc]) THEN Stored(f, EdgeInto(Driver[pc], 0, Volumes)) ELSE f
        BY <1>0, <3>4 DEF EdgeOver
      <4>3. g = f
        BY <2>1, <4>1, <4>2
      <4> HIDE DEF f, g
      <4> QED BY <2>3, <2>4, <2>8, <4>1, <4>2, <4>3
    <3> QED BY <1>3, <3>1, <3>2, <3>3, <3>4 DEF BankStep
  <2>11. ClosedStage'
    BY <1>5, <1>8, <2>10 DEF ClosedStage
  <2> QED BY <1>1, <1>4, <2>7, <2>11 DEF WholeOK
<1> QED BY <1>6, <1>7, <1>8
-----------------------------------------------------------------------------
\* The inductive invariant: how far each array of fluxes has come.
Holds(h, S) == \A a \in S : a \in DOMAIN Bank(h) /\ DOMAIN Bank(h)[a] = 0 .. Size(FaceKind) - 1

FluxesHeld ==
  /\ Mix => Holds(0, {Masses, Energies, Concentrations})
  /\ ~Mix => \A m \in Both : Holds(m, {Volumes, Masses, Energies})

FluxStages ==
  /\ Mix => /\ Stage(0, Masses, 5, 6)
            /\ Stage(0, Energies, 10, 11)
            /\ Stage(0, Concentrations, 15, 16)
  /\ ~Mix => \A m \in Both : OverSeam(m) = {} =>
               /\ Stage(m, Volumes, 5, 6)
               /\ Stage(m, Masses, 9 + m, 11 + m)
               /\ Stage(m, Energies, 20 + m, 22 + m)

SweepInv ==
  /\ WideGrid
  /\ TodoOK
  /\ DrainedOK
  /\ DOMAIN materials = Both
  /\ WholeOK
  /\ FluxesHeld
  /\ ClosedStage
  /\ FluxStages

LEMMA DomainsFilled ==
  \A inputs, zeroed, arrays : \A a \in arrays :
     DOMAIN FilledOr(inputs, zeroed, arrays)[a] = 0 .. Size(KindOf(a)) - 1
<1> TAKE inputs, zeroed, arrays
<1> TAKE a \in arrays
<1>1. FilledOr(inputs, zeroed, arrays)[a] =
        IF a \in inputs THEN Filled(a)
        ELSE [i \in 0 .. Size(KindOf(a)) - 1 |-> IF a \in zeroed THEN Zero ELSE Garbage]
  BY DEF FilledOr
<1>2. DOMAIN Filled(a) = 0 .. Size(KindOf(a)) - 1
  BY DEF Filled
<1>3. DOMAIN [i \in 0 .. Size(KindOf(a)) - 1 |-> IF a \in zeroed THEN Zero ELSE Garbage] = 0 .. Size(KindOf(a)) - 1
  OBVIOUS
<1> QED BY <1>1, <1>2, <1>3

LEMMA InitSettings ==
  ASSUME Init
  PROVE  WideGrid /\ TodoOK /\ DrainedOK /\ DOMAIN materials = Both /\ pc = 1
<1>1. WideGrid
  BY ShapesAssumption DEF Init, GridInit, WideGrid
<1>2. TodoOK
  BY DriverIs DEF Init, TodoOK
<1>3. drained = {} \/ (drained \in Drains /\ OneWay(drained))
  BY DEF Init
<1>4. DrainedOK
  BY <1>3, DrainsAssumption DEF DrainedOK, OneWay, Both
<1> QED BY <1>1, <1>2, <1>4 DEF Init

LEMMA InitArrays ==
  ASSUME Init
  PROVE  WholeOK /\ FluxesHeld
<1>1. /\ mem = FilledOr(Inputs, Zeroed, Inputs \cup Zeroed \cup Filling)
      /\ materials = [m \in Both |-> FilledOr(OwnInputs, {}, OwnArrays)]
  BY DEF Init, GridInit, FilledOr
<1>2. /\ DOMAIN mem = Inputs \cup Zeroed \cup Filling
      /\ \A m \in Both : DOMAIN materials[m] = OwnArrays
  BY <1>1 DEF FilledOr
<1>3. /\ \A a \in DOMAIN mem : DOMAIN mem[a] = 0 .. Size(KindOf(a)) - 1
      /\ \A m \in Both : \A a \in OwnArrays : DOMAIN materials[m][a] = 0 .. Size(KindOf(a)) - 1
  BY <1>1, <1>2, DomainsFilled
<1>4. Volumes \in DOMAIN mem /\ Masses \in DOMAIN mem /\ Predicted \in DOMAIN mem
      /\ (Mix => Energies \in DOMAIN mem /\ Concentrations \in DOMAIN mem)
      /\ (~Mix => Volumes \in OwnArrays /\ Masses \in OwnArrays /\ Energies \in OwnArrays)
  BY <1>2 DEF Inputs, Filling, OwnArrays, OwnFilling
<1>5. \A a \in Carried : KindOf(a) = FaceKind
  BY NamesApart
<1>6. \A a \in Carried : a \in DOMAIN mem => DOMAIN mem[a] = 0 .. Size(FaceKind) - 1
  <2> TAKE a \in Carried
  <2>1. KindOf(a) = FaceKind
    BY <1>5
  <2> QED BY <1>3, <2>1
<1>7. \A m \in Both : \A a \in Carried : a \in OwnArrays => DOMAIN materials[m][a] = 0 .. Size(FaceKind) - 1
  <2> TAKE m \in Both
  <2> TAKE a \in Carried
  <2>1. KindOf(a) = FaceKind
    BY <1>5
  <2> QED BY <1>3, <2>1
<1>8. Closing => Still
  <2> SUFFICES ASSUME Closing PROVE Still
    OBVIOUS
  <2>1. Predicted \in Inputs /\ Predicted = "predicted_v"
    BY DEF Inputs, Predicted, Closing
  <2>2. mem["predicted_v"] = Filled("predicted_v")
    BY <1>1, <2>1 DEF FilledOr
  <2> QED BY <2>2, StillNodes, InitSettings
<1>9. Volumes \in Carried /\ Masses \in Carried /\ Energies \in Carried /\ Concentrations \in Carried
  BY DEF Carried
<1>10. WholeOK
  BY <1>4, <1>6, <1>8, <1>9 DEF WholeOK
<1>11. FluxesHeld
  <2>1. ASSUME Mix PROVE Holds(0, {Masses, Energies, Concentrations})
    BY <1>4, <1>6, <1>9, <2>1, BothBanks DEF Holds
  <2>2. ASSUME ~Mix, NEW m \in Both PROVE Holds(m, {Volumes, Masses, Energies})
    BY <1>2, <1>4, <1>7, <1>9, <2>2, BothBanks DEF Holds
  <2> QED BY <2>1, <2>2 DEF FluxesHeld
<1> QED BY <1>10, <1>11

LEMMA LaterStages ==
  \A h, a, first, last : first \in Nat /\ last \in Nat /\ pc = 1 /\ first > 1 /\ last > first => Stage(h, a, first, last)
  BY DEF Stage

LEMMA SweepInit == Init => SweepInv
<1> SUFFICES ASSUME Init PROVE SweepInv
  OBVIOUS
<1>1. WideGrid /\ TodoOK /\ DrainedOK /\ DOMAIN materials = Both /\ pc = 1
  BY InitSettings
<1>2. ClosedStage
  BY <1>1 DEF ClosedStage
<1>3. FluxStages
  <2>1. Stage(0, Masses, 5, 6) /\ Stage(0, Energies, 10, 11) /\ Stage(0, Concentrations, 15, 16)
    BY <1>1, LaterStages
  <2>2. ASSUME NEW m \in Both
        PROVE  /\ Stage(m, Volumes, 5, 6)
               /\ Stage(m, Masses, 9 + m, 11 + m)
               /\ Stage(m, Energies, 20 + m, 22 + m)
    <3>1. /\ 9 + m \in Nat /\ 11 + m \in Nat /\ 9 + m > 1 /\ 11 + m > 9 + m
          /\ 20 + m \in Nat /\ 22 + m \in Nat /\ 20 + m > 1 /\ 22 + m > 20 + m
      BY DEF Both
    <3>2. Stage(m, Volumes, 5, 6)
      BY <1>1, LaterStages
    <3> QED BY <1>1, <3>1, <3>2, LaterStages DEF Stage
  <2> QED BY <2>1, <2>2 DEF FluxStages
<1> QED BY <1>1, <1>2, <1>3, InitArrays DEF SweepInv
-----------------------------------------------------------------------------
\* The settings of the sweep, after a step.
LEMMA SameSettingsNext ==
  ASSUME Settings
  PROVE  /\ WideGrid' = WideGrid /\ DrainedOK' = DrainedOK /\ Mix' = Mix
         /\ Volumes' = Volumes /\ Masses' = Masses /\ Energies' = Energies
         /\ Concentrations' = Concentrations
         /\ FaceKind' = FaceKind /\ Size(FaceKind)' = Size(FaceKind)
         /\ \A m \in Both : OverSeam(m)' = OverSeam(m)
<1>1. nx' = nx /\ ny' = ny /\ drained' = drained /\ InX' = InX /\ Mix' = Mix
      /\ WallsX' = WallsX /\ WallsY' = WallsY
  BY DEF Settings, InX, Mix, WallsX, WallsY
<1>2. \A p : NextPlace(p)' = NextPlace(p)
  BY <1>1 DEF NextPlace
<1>3. DrainedOK' = DrainedOK
  BY <1>1, <1>2 DEF DrainedOK, OneWay, Both
<1>4. \A m \in Both : OverSeam(m)' = OverSeam(m)
  BY <1>1 DEF OverSeam
<1>5. Volumes' = Volumes /\ Masses' = Masses /\ Energies' = Energies /\ Concentrations' = Concentrations
  BY <1>1 DEF Volumes, Masses, Energies, Concentrations
<1>6. FaceKind' = FaceKind /\ Size(FaceKind)' = Size(FaceKind)
  BY <1>1 DEF FaceKind, Size, LastX, LastY, StaggeredX, StaggeredY
<1> QED BY <1>1, <1>3, <1>4, <1>5, <1>6 DEF WideGrid

LEMMA HeldNext ==
  ASSUME DOMAIN materials = Both, [Next]_allvars, NEW h \in Banks, NEW S, Holds(h, S)
  PROVE  Holds(h, S)'
<1>1. Size(FaceKind)' = Size(FaceKind)
  BY StepSettings, SameSettingsNext
<1>2. SizesKept(h)
  BY StepsOfBanks
<1>3. \A a \in S : a \in DOMAIN Bank(h) /\ DOMAIN Bank(h)[a] = 0 .. Size(FaceKind) - 1
  BY DEF Holds
<1>4. \A a \in S : a \in DOMAIN Bank(h)' /\ DOMAIN Bank(h)'[a] = 0 .. Size(FaceKind) - 1
  BY <1>2, <1>3 DEF SizesKept
<1> QED BY <1>1, <1>4 DEF Holds

LEMMA MixNext ==
  ASSUME SweepInv, [Next]_allvars, Mix
  PROVE  /\ Stage(0, Masses, 5, 6)' /\ Stage(0, Energies, 10, 11)'
         /\ Stage(0, Concentrations, 15, 16)'
<1>1. /\ WideGrid /\ TodoOK /\ DOMAIN materials = Both
      /\ Holds(0, {Masses, Energies, Concentrations})
      /\ Stage(0, Masses, 5, 6) /\ Stage(0, Energies, 10, 11) /\ Stage(0, Concentrations, 15, 16)
  BY DEF SweepInv, FluxesHeld, FluxStages
<1>2. Sized(0, {Masses, Energies, Concentrations})
      /\ Masses \in DOMAIN Bank(0) /\ Energies \in DOMAIN Bank(0) /\ Concentrations \in DOMAIN Bank(0)
  BY <1>1 DEF Holds, Sized
<1>3. DOMAIN Driver = 1 .. Len(Driver) /\ Len(Driver) \in Nat
  <2>1. DOMAIN Driver = 1 .. 26 /\ Len(Driver) = 26
    BY DriverIs
  <2> QED BY <2>1
<1>4. 0 \in Banks
  BY DEF Banks
<1>5. Turns(0, Masses, 5, 6, 6) /\ Turns(0, Energies, 10, 11, 11) /\ Turns(0, Concentrations, 15, 16, 16)
  BY <1>2, MixTurns
<1>6. PICK a, b, c : a = Masses /\ b = Energies /\ c = Concentrations
  OBVIOUS
<1>7. Masses' = a /\ Energies' = b /\ Concentrations' = c
  BY <1>6, StepSettings, SameSettingsNext
<1>8. Stage(0, a, 5, 6)'
  <2>1. Fits(0, a, 5, 6)
    BY <1>3, <1>5, <1>6, TurnsFit
  <2> QED BY <1>1, <1>2, <1>4, <1>6, <2>1, StageNext
<1>9. Stage(0, b, 10, 11)'
  <2>1. Fits(0, b, 10, 11)
    BY <1>3, <1>5, <1>6, TurnsFit
  <2> QED BY <1>1, <1>2, <1>4, <1>6, <2>1, StageNext
<1>10. Stage(0, c, 15, 16)'
  <2>1. Fits(0, c, 15, 16)
    BY <1>3, <1>5, <1>6, TurnsFit
  <2> QED BY <1>1, <1>2, <1>4, <1>6, <2>1, StageNext
<1> QED BY <1>7, <1>8, <1>9, <1>10

LEMMA InterfaceNext ==
  ASSUME SweepInv, [Next]_allvars, ~Mix, NEW m \in Both, OverSeam(m) = {}
  PROVE  /\ Stage(m, Volumes, 5, 6)' /\ Stage(m, Masses, 9 + m, 11 + m)'
         /\ Stage(m, Energies, 20 + m, 22 + m)'
<1>1. /\ WideGrid /\ TodoOK /\ DrainedOK /\ DOMAIN materials = Both /\ ClosedStage
      /\ Holds(m, {Volumes, Masses, Energies})
      /\ Stage(m, Volumes, 5, 6) /\ Stage(m, Masses, 9 + m, 11 + m) /\ Stage(m, Energies, 20 + m, 22 + m)
  BY DEF SweepInv, FluxesHeld, FluxStages
<1>2. /\ Sized(m, {Volumes, Masses}) /\ Sized(m, {Energies})
      /\ Volumes \in DOMAIN Bank(m) /\ Masses \in DOMAIN Bank(m) /\ Energies \in DOMAIN Bank(m)
  BY <1>1 DEF Holds, Sized
<1>3. DOMAIN Driver = 1 .. Len(Driver) /\ Len(Driver) \in Nat
  <2>1. DOMAIN Driver = 1 .. 35 /\ Len(Driver) = 35
    BY DriverIs
  <2> QED BY <2>1
<1>4. m \in Banks
  BY DEF Banks
<1>5. Turns(m, Volumes, 5, 6, 7)
  <2>1. pc = 6 => FirstClosed
    BY <1>1 DEF ClosedStage
  <2> QED BY <1>1, <1>2, <2>1, VolumeTurns
<1>6. Turns(m, Masses, 9 + m, 11 + m, 14)
  <2>1. pc = 14 => Full(m, Volumes)
    BY <1>1 DEF Stage
  <2> QED BY <1>1, <1>2, <2>1, MassTurns
<1>7. Turns(m, Energies, 20 + m, 22 + m, 22 + m)
  BY <1>2, EnergyTurns
<1>8. PICK a, b, c : a = Volumes /\ b = Masses /\ c = Energies
  OBVIOUS
<1>9. Volumes' = a /\ Masses' = b /\ Energies' = c
  BY <1>8, StepSettings, SameSettingsNext
<1>10. Stage(m, a, 5, 6)'
  <2>1. Fits(m, a, 5, 6)
    BY <1>3, <1>5, <1>8, TurnsFit
  <2> QED BY <1>1, <1>2, <1>4, <1>8, <2>1, StageNext
<1>11. Stage(m, b, 9 + m, 11 + m)'
  <2>1. Fits(m, b, 9 + m, 11 + m)
    BY <1>3, <1>6, <1>8, TurnsFit
  <2> QED BY <1>1, <1>2, <1>4, <1>8, <2>1, StageNext
<1>12. Stage(m, c, 20 + m, 22 + m)'
  <2>1. Fits(m, c, 20 + m, 22 + m)
    BY <1>3, <1>7, <1>8, TurnsFit
  <2> QED BY <1>1, <1>2, <1>4, <1>8, <2>1, StageNext
<1> QED BY <1>9, <1>10, <1>11, <1>12

LEMMA SweepStep == SweepInv /\ [Next]_allvars => SweepInv'
<1> SUFFICES ASSUME SweepInv, [Next]_allvars PROVE SweepInv'
  OBVIOUS
<1>1. /\ WideGrid /\ TodoOK /\ DrainedOK /\ DOMAIN materials = Both
      /\ WholeOK /\ FluxesHeld /\ ClosedStage
  BY DEF SweepInv
<1>2. /\ Mix' = Mix /\ WideGrid' /\ DrainedOK'
      /\ Volumes' = Volumes /\ Masses' = Masses /\ Energies' = Energies /\ Concentrations' = Concentrations
      /\ \A m \in Both : OverSeam(m)' = OverSeam(m)
  BY <1>1, StepSettings, SameSettingsNext
<1>3. 0 \in Banks /\ Both \subseteq Banks
  BY DEF Banks
<1>4. DOMAIN materials' = Both
  BY <1>1, <1>3, StepsOfBanks
<1>5. TodoOK'
  <2>1. PICK a : a = Volumes /\ a \in DOMAIN Bank(0)
    BY <1>1, BothBanks DEF WholeOK
  <2> QED BY <1>1, <1>3, <2>1, TodoNext
<1>6. ClosedStage' /\ WholeOK'
  BY <1>1, ClosedNext
<1>7. FluxesHeld'
  <2>1. ASSUME Mix PROVE Holds(0, {Masses, Energies, Concentrations})'
    <3>1. PICK S : S = {Masses, Energies, Concentrations}
      OBVIOUS
    <3>2. Holds(0, S)'
      BY <1>1, <1>3, <2>1, <3>1, HeldNext DEF FluxesHeld
    <3> QED BY <1>2, <3>1, <3>2
  <2>2. ASSUME ~Mix, NEW m \in Both PROVE Holds(m, {Volumes, Masses, Energies})'
    <3>1. PICK S : S = {Volumes, Masses, Energies}
      OBVIOUS
    <3>2. Holds(m, S)'
      BY <1>1, <1>3, <2>2, <3>1, HeldNext DEF FluxesHeld
    <3> QED BY <1>2, <3>1, <3>2
  <2> QED BY <1>2, <2>1, <2>2 DEF FluxesHeld, Both
<1>8. FluxStages'
  BY <1>2, MixNext, InterfaceNext DEF FluxStages, Both
<1> QED BY <1>2, <1>4, <1>5, <1>6, <1>7, <1>8 DEF SweepInv, Both
-----------------------------------------------------------------------------
\* Arrays that are complete when the driver returns conserve what they carry.
LEMMA FullConserved ==
  ASSUME WideGrid, NEW h \in Banks, NEW S, Holds(h, S), NEW a \in S, Full(h, a)
  PROVE  /\ h = 0 => IF InX THEN X!Conserves(a) ELSE Y!Conserves(a)
         /\ h \in Both => IF InX THEN XOf(h)!Conserves(a) ELSE YOf(h)!Conserves(a)
<1> DEFINE f == Bank(h)[a]
<1>1. DOMAIN f = 0 .. Size(FaceKind) - 1 /\ Complete(f, FaceKind)
  BY DEF Holds, Full
<1> HIDE DEF f
<1>2. Conserved(f)
  BY <1>1, CompleteConserved
<1>3. IF InX THEN ConservesX(Bank(h)[a]) ELSE ConservesY(Bank(h)[a])
  BY <1>2 DEF Conserved, f
<1>4. CASE h = 0
  <2>1. Bank(h) = mem /\ h \notin Both
    BY <1>4, BothBanks
  <2>2. (X!Conserves(a) <=> ConservesX(mem[a])) /\ (Y!Conserves(a) <=> ConservesY(mem[a]))
    BY ConservesIn
  <2> QED BY <1>3, <2>1, <2>2
<1>5. CASE h \in Both
  <2>1. Bank(h) = materials[h] /\ h # 0
    BY <1>5, BothBanks
  <2>2. /\ XOf(h)!Conserves(a) <=> ConservesX(materials[h][a])
        /\ YOf(h)!Conserves(a) <=> ConservesY(materials[h][a])
    BY <1>5, ConservesIn
  <2> QED BY <1>3, <2>1, <2>2
<1> QED BY <1>4, <1>5, BothBanks

LEMMA SweepConserves == SweepInv => MaterialsConserved
<1> SUFFICES ASSUME SweepInv, Done PROVE MaterialsConserved
  BY DEF MaterialsConserved
<1>1. WideGrid /\ FluxesHeld /\ FluxStages /\ 0 \in Banks /\ Both \subseteq Banks
  BY DEF SweepInv, Banks
<1>2. CASE Mix
  <2>1. pc = 27
    <3>1. Len(Driver) = 26
      BY <1>2, DriverIs
    <3> QED BY <3>1 DEF Done
  <2>2. Stage(0, Masses, 5, 6) /\ Stage(0, Energies, 10, 11) /\ Stage(0, Concentrations, 15, 16)
    BY <1>1, <1>2 DEF FluxStages
  <2>3. Full(0, Masses) /\ Full(0, Energies) /\ Full(0, Concentrations)
    BY <2>1, <2>2 DEF Stage
  <2>4. Holds(0, {Masses, Energies, Concentrations})
    BY <1>1, <1>2 DEF FluxesHeld
  <2>5. \A a \in {Masses, Energies, Concentrations} : IF InX THEN X!Conserves(a) ELSE Y!Conserves(a)
    BY <1>1, <2>3, <2>4, FullConserved
  <2> QED BY <1>2, <2>5 DEF MaterialsConserved
<1>3. CASE ~Mix
  <2>1. pc = 36
    <3>1. Len(Driver) = 35
      BY <1>3, DriverIs
    <3> QED BY <3>1 DEF Done
  <2>2. ASSUME NEW m \in Both, OverSeam(m) = {}, NEW a \in {Volumes, Masses, Energies}
        PROVE  IF InX THEN XOf(m)!Conserves(a) ELSE YOf(m)!Conserves(a)
    <3>1. Stage(m, Volumes, 5, 6) /\ Stage(m, Masses, 9 + m, 11 + m) /\ Stage(m, Energies, 20 + m, 22 + m)
      BY <1>1, <1>3, <2>2 DEF FluxStages
    <3>2. 11 + m < 36 /\ 22 + m < 36
      BY DEF Both
    <3>3. Full(m, Volumes) /\ Full(m, Masses) /\ Full(m, Energies)
      BY <2>1, <3>1, <3>2 DEF Stage, Both
    <3>4. Holds(m, {Volumes, Masses, Energies})
      BY <1>1, <1>3 DEF FluxesHeld
    <3>5. Full(m, a) /\ m \in Banks
      BY <1>1, <2>2, <3>3
    <3> QED BY <1>1, <3>4, <3>5, FullConserved
  <2> QED BY <1>3, <2>2 DEF MaterialsConserved
<1> QED BY <1>2, <1>3

\* What one cell gives of a material its neighbour receives, mass, energy and volume, when the
\* drivers AdProjection2dMultimatMix... and ...MultimatInterface... in x or in y return: on every
\* grid of at least two cells in each direction, under every boundary condition, in whatever order
\* the threads take the rows, and whichever cells give all they have, with the corrections of the
\* checks; but not of a material that a cell on the seam gives all of over it.
THEOREM MaterialsConservedAlways == Spec => []MaterialsConserved
<1>1. Init => SweepInv
  BY SweepInit
<1>2. SweepInv /\ [Next]_allvars => SweepInv'
  BY SweepStep
<1>3. SweepInv => MaterialsConserved
  BY SweepConserves
<1> QED BY <1>1, <1>2, <1>3, PTL DEF Spec
-----------------------------------------------------------------------------
\* The sum of the fluxes v and w of the two materials through the face p, as a value: what
\* TotalMassFlux stores when neither is garbage.
Judged(p, v) ==
  LET q == Fold(FaceKind, p)
  IN IF v = Right(Masses, p) THEN q ELSE IF v \in {Off(q), Derived(q)} THEN Derived(q) ELSE Off(q)

Worst(q, parts) ==
  IF Off(q) \in parts THEN Off(q) ELSE IF Derived(q) \in parts THEN Derived(q) ELSE q

SumOf(p, v, w) ==
  IF v = Zero /\ w = Zero THEN Zero
  ELSE Worst(Fold(FaceKind, p), {Fold(FaceKind, p), Judged(p, v), Judged(p, w)})

\* What goes through the face p of a material, and of both.
Share(m, p) == materials[m][Masses][At(FaceKind, p)]
Total(p)    == mem[Masses][At(FaceKind, p)]
Summed(p)   == Total(p) = SumOf(p, Share(1, p), Share(2, p))

\* The two faces of a seam have the same sum.
LEMMA SumFolds ==
  ASSUME WideGrid, NEW p \in Places(FaceKind), NEW v, NEW w
  PROVE  SumOf(Fold(FaceKind, p), v, w) = SumOf(p, v, w)
<1> DEFINE k == FaceKind
           q == Fold(k, p)
<1>1. k \in FaceKinds /\ KindOf(Masses) = k
  BY NamesApart DEF FaceKind, FaceKinds, Carried
<1>2. CASE q = p
  BY <1>2
<1>3. CASE q # p
  <2>1. ~WallsOf(k) /\ AtEnd(k, p)
    BY <1>1, <1>3, FaceFold
  <2>2. q \in Places(k) /\ Fold(k, q) = q
    BY <1>1, FoldInside DEF FaceKinds, Kinds
  <2>3. ~Held(Masses, p) /\ ~Held(Masses, q)
    <3>1. CASE InX
      BY <2>1, <3>1 DEF WallsOf, FaceKind, Held, Masses, OnWallX
    <3>2. CASE ~InX
      BY <2>1, <3>2 DEF WallsOf, FaceKind, Held, Masses, OnWallY
    <3> QED BY <3>1, <3>2
  <2>4. Right(Masses, p) = q /\ Right(Masses, q) = q
    BY <1>1, <2>2, <2>3 DEF Right
  <2>5. \A u : Judged(q, u) = Judged(p, u)
    BY <2>2, <2>4 DEF Judged
  <2> HIDE DEF q
  <2>6. q = Fold(FaceKind, p)
    BY DEF q
  <2> QED BY <2>2, <2>5, <2>6 DEF SumOf
<1> QED BY <1>2, <1>3 DEF q

\* What the sum reads of a material.
LEMMA SumRights ==
  ASSUME NEW m, NEW a, NEW p
  PROVE  XOf(m)!Right(a, p) = Right(a, p)
<1>1. XOf(m)!WallsX = WallsX /\ XOf(m)!WallsY = WallsY
  BY DEF XOf!WallsX, WallsX, XOf!WallsY, WallsY
<1>2. XOf(m)!Held(a, p) <=> Held(a, p)
  BY <1>1 DEF XOf!Held, Held, XOf!OnWallX, OnWallX, XOf!OnWallY, OnWallY
<1>3. XOf(m)!KindOf(a) = KindOf(a)
  BY DEF XOf!KindOf, KindOf
<1> QED BY <1>2, <1>3, SameGridXOf DEF XOf!Right, Right

LEMMA SumReads ==
  ASSUME WideGrid, NEW m \in Both, NEW p \in Places(FaceKind),
         At(FaceKind, p) \in DOMAIN materials[m][Masses], Share(m, p) # Garbage
  PROVE  XOf(m)!Computed(FaceKind, p, Here({Masses}, At(FaceKind, p))) = Judged(p, Share(m, p))
<1> DEFINE k == FaceKind
           f == At(k, p)
           r == <<Masses, 0, 0, f>>
           v == materials[m][Masses][f]
           q == Fold(k, p)
<1>1. k \in FaceKinds /\ KindOf(Masses) = k
  BY NamesApart DEF FaceKind, FaceKinds, Carried
<1>2. p = <<p[1], p[2]>> /\ p[1] \in Nat /\ p[2] \in Nat
  BY <1>1, FaceCoordinates
<1>3. Here({Masses}, f) = {r}
  BY DEF Here
<1>4. XOf(m)!Neighbour(p, r) = p
  BY <1>2 DEF XOf!Neighbour
<1>5. Masses \notin DOMAIN XOf(m)!Lagged
  BY DEF XOf!Lagged, Masses
<1>6. XOf(m)!Expected(Masses, p) = {Right(Masses, p)}
  BY <1>5, SumRights DEF XOf!Expected
<1>7. XOf(m)!ReadsRight(p, r) <=> v = Right(Masses, p)
  BY <1>4, <1>6 DEF XOf!ReadsRight, Share
<1>8. XOf(m)!ReadsDerived(p, r) <=> v \in {Off(q), Derived(q)}
  <2>1. XOf(m)!KindOf(Masses) = k
    BY <1>1 DEF XOf!KindOf, KindOf
  <2>2. XOf(m)!Fold(k, p) = q
    BY SameGridXOf
  <2>3. XOf(m)!Off(q) = Off(q) /\ XOf(m)!Derived(q) = Derived(q) /\ XOf(m)!Garbage = Garbage
    BY DEF XOf!Off, Off, XOf!Derived, Derived, XOf!Garbage, Garbage
  <2>4. v # Garbage /\ f \in DOMAIN materials[m][Masses]
    BY DEF Share
  <2>5. r[1] = Masses /\ r[4] = f
    OBVIOUS
  <2> HIDE DEF f, v, q, k, r
  <2> QED BY <1>4, <2>1, <2>2, <2>3, <2>4, <2>5 DEF XOf!ReadsDerived, v
<1>9. XOf(m)!Computed(k, p, {r}) =
        IF v = Right(Masses, p) THEN q ELSE IF v \in {Off(q), Derived(q)} THEN Derived(q) ELSE Off(q)
  <2>1. XOf(m)!Fold(k, p) = q
    BY SameGridXOf
  <2>2. XOf(m)!Off(q) = Off(q) /\ XOf(m)!Derived(q) = Derived(q)
    BY DEF XOf!Off, Off, XOf!Derived, Derived
  <2> HIDE DEF f, v, q, k, r
  <2> QED BY <1>7, <1>8, <2>1, <2>2 DEF XOf!Computed
<1> QED BY <1>3, <1>9 DEF Judged, Share

\* The faces of a row, those at its ends too.
RowAt(iy) == {p \in Places(FaceKind) : p[2] = iy}

\* The masses of a material, when the sum is taken.
OwnMasses(m) ==
  /\ Masses \in DOMAIN materials[m] /\ DOMAIN materials[m][Masses] = 0 .. Size(FaceKind) - 1
  /\ Complete(materials[m][Masses], FaceKind)

\* They are no garbage, and the same at the two faces of a seam.
LEMMA SharesBorne ==
  ASSUME WideGrid, NEW m \in Both, OwnMasses(m), NEW p \in Places(FaceKind)
  PROVE  /\ At(FaceKind, p) \in DOMAIN materials[m][Masses]
         /\ Share(m, p) # Garbage /\ Share(m, Fold(FaceKind, p)) = Share(m, p)
<1>1. FaceKind \in FaceKinds /\ FaceKind \in Kinds
  BY DEF FaceKind, FaceKinds, Kinds
<1>2. At(FaceKind, p) \in DOMAIN materials[m][Masses]
  BY <1>1, ElementsInside, WideGridIsGrid DEF OwnMasses
<1>3. Share(m, p) = Zero \/ Share(m, p) \in Borne(Fold(FaceKind, p))
  BY DEF OwnMasses, Complete, FaceFlux, Share
<1>4. Share(m, p) # Garbage
  <2>1. Garbage # Zero
    BY DEF Garbage, Zero
  <2>2. PICK x, y : Fold(FaceKind, p) = <<x, y>>
    BY <1>1 DEF Fold, FaceKinds
  <2>3. Garbage \notin Stamps(<<x, y>>)
    BY StampsTell
  <2> QED BY <1>3, <2>1, <2>2, <2>3 DEF Borne
<1>5. FacesAgree(materials[m][Masses], FaceKind)
  BY <1>1, CompleteAgrees DEF OwnMasses
<1>6. Share(m, Fold(FaceKind, p)) = Share(m, p)
  BY <1>5 DEF FacesAgree, Share
<1> QED BY <1>2, <1>4, <1>6

\* What a row of TotalMassFlux stores.
LEMMA SumIs ==
  ASSUME WideGrid, \A m \in Both : OwnMasses(m), NEW p \in Places(FaceKind)
  PROVE  SumOf(p, Share(1, p), Share(2, p)) =
           IF \E m \in Both : Flows(m, Masses, At(FaceKind, p))
           THEN Value(FaceKind, p, {}, Each(Here({Masses}, At(FaceKind, p)))) ELSE Zero
<1> DEFINE k == FaceKind
           f == At(k, p)
           q == Fold(k, p)
           own == Each(Here({Masses}, f))
           judged(m) == Judged(p, Share(m, p))
<1>1. \A m \in Both : f \in DOMAIN materials[m][Masses] /\ Share(m, p) # Garbage
  BY SharesBorne
<1>2. \A m \in Both : Flows(m, Masses, f) <=> Share(m, p) # Zero
  BY <1>1 DEF Flows, Share
<1>3. (\E m \in Both : Flows(m, Masses, f)) <=> ~(Share(1, p) = Zero /\ Share(2, p) = Zero)
  BY <1>2 DEF Both
<1>4. \A m \in Both : own[m] = Here({Masses}, f)
  BY DEF Each
<1>5. \A m \in Both : XOf(m)!Computed(k, p, own[m]) = judged(m)
  <2> TAKE m \in Both
  <2>1. XOf(m)!Computed(k, p, Here({Masses}, f)) = judged(m)
    BY <1>1, SumReads
  <2> HIDE DEF judged, k, f, own
  <2> QED BY <1>4, <2>1
<1>6. Computed(k, p, {}) = q
  BY DEF Computed
<1>7. {Computed(k, p, {})} \cup {XOf(m)!Computed(k, p, own[m]) : m \in Both} = {q, judged(1), judged(2)}
  <2> HIDE DEF judged, q, k, f, own
  <2>1. {XOf(m)!Computed(k, p, own[m]) : m \in Both} = {judged(m) : m \in Both}
    BY <1>5
  <2>2. {judged(m) : m \in Both} = {judged(1), judged(2)}
    BY DEF Both
  <2> QED BY <1>6, <2>1, <2>2
<1>8. Value(k, p, {}, own) = Worst(q, {q, judged(1), judged(2)})
  <2> HIDE DEF judged, k, f, own
  <2> QED BY <1>7 DEF Value, Worst
<1> QED BY <1>3, <1>8 DEF SumOf

\* A row of the loop gives its faces their sums.
LEMMA SumStores ==
  ASSUME WideGrid, \A m \in Both : OwnMasses(m), DOMAIN mem[Masses] = 0 .. Size(FaceKind) - 1,
         NEW iy \in Rows(CellRows, NodeRows)
  PROVE  Gives(mem[Masses], TotalMassFlux(iy), FaceKind, RowAt(iy),
               [p \in RowAt(iy) |-> SumOf(p, Share(1, p), Share(2, p))])
<1> DEFINE C == IF InX THEN 0 .. nx ELSE Columns
           face(ix) == IF InX THEN FaceXAt(ix, iy, nx) ELSE FaceYAt(ix, iy, nx)
           sum(ix) == IF \E m \in Both : Flows(m, Masses, face(ix))
                      THEN Value(FaceKind, <<ix, iy>>, {}, Each(Here({Masses}, face(ix)))) ELSE Zero
           g == [p \in RowAt(iy) |-> SumOf(p, Share(1, p), Share(2, p))]
<1>1. \A ix \in C : <<ix, iy>> \in RowAt(iy) /\ face(ix) = At(FaceKind, <<ix, iy>>)
  <2>1. CASE InX
    BY <2>1 DEF RowAt, Rows, CellRows, FaceKind, Places, LastX, LastY, StaggeredX, StaggeredY, At, NodeAt, FaceXAt, WideGrid
  <2>2. CASE ~InX
    BY <2>2 DEF RowAt, Rows, NodeRows, Columns, FaceKind, Places, LastX, LastY, StaggeredX, StaggeredY, At, CellAt, FaceYAt, WideGrid
  <2> QED BY <2>1, <2>2
<1>2. \A p \in RowAt(iy) : p[1] \in C /\ p = <<p[1], iy>>
  <2>1. CASE InX
    BY <2>1 DEF RowAt, FaceKind, Places, LastX, LastY, StaggeredX, StaggeredY
  <2>2. CASE ~InX
    BY <2>2 DEF RowAt, Columns, FaceKind, Places, LastX, LastY, StaggeredX, StaggeredY
  <2> QED BY <2>1, <2>2
<1>3. \A ix \in C : sum(ix) = g[<<ix, iy>>]
  <2> TAKE ix \in C
  <2> DEFINE p == <<ix, iy>>
  <2>1. p \in RowAt(iy) /\ p \in Places(FaceKind) /\ face(ix) = At(FaceKind, p)
    BY <1>1 DEF RowAt
  <2> HIDE DEF p, face
  <2>2. SumOf(p, Share(1, p), Share(2, p)) =
          IF \E m \in Both : Flows(m, Masses, face(ix))
          THEN Value(FaceKind, p, {}, Each(Here({Masses}, face(ix)))) ELSE Zero
    BY <2>1, SumIs
  <2> QED BY <2>1, <2>2 DEF p
<1>4. TotalMassFlux(iy) = {<<face(ix), sum(ix)>> : ix \in C}
  BY DEF TotalMassFlux
<1> HIDE DEF C, face, sum, g
<1>5. \A s \in TotalMassFlux(iy) : \E p \in RowAt(iy) : s = <<At(FaceKind, p), g[p]>>
  BY <1>1, <1>3, <1>4
<1>6. \A p \in RowAt(iy) : <<At(FaceKind, p), g[p]>> \in TotalMassFlux(iy)
  BY <1>1, <1>2, <1>3, <1>4
<1>7. RowAt(iy) \subseteq Places(FaceKind)
  BY DEF RowAt
<1> QED BY <1>5, <1>6, <1>7 DEF Gives, g
-----------------------------------------------------------------------------
\* Where the sum stands, when no material is given away whole over the seam: the rows that are
\* done have it, and once all are the two faces of a seam agree.
TotalStage ==
  ~Mix /\ OverSeam(1) \cup OverSeam(2) = {} =>
    /\ pc = 17 => \A p \in Places(FaceKind) : p[2] \notin todo => Summed(p)
    /\ pc > 17 => FacesAgree(mem[Masses], FaceKind)

\* A sum at every face makes the faces of the seams agree.
LEMMA AllSummed ==
  ASSUME WideGrid, \A m \in Both : OwnMasses(m), NEW f,
         \A p \in Places(FaceKind) : f[At(FaceKind, p)] = SumOf(p, Share(1, p), Share(2, p))
  PROVE  FacesAgree(f, FaceKind)
<1> SUFFICES ASSUME NEW p \in Places(FaceKind)
             PROVE  f[At(FaceKind, p)] = f[At(FaceKind, Fold(FaceKind, p))]
  BY DEF FacesAgree
<1> DEFINE q == Fold(FaceKind, p)
<1>1. q \in Places(FaceKind)
  BY FoldInside DEF FaceKind, Kinds
<1>2. Share(1, q) = Share(1, p) /\ Share(2, q) = Share(2, p)
  BY SharesBorne DEF Both
<1>3. SumOf(q, Share(1, p), Share(2, p)) = SumOf(p, Share(1, p), Share(2, p))
  BY SumFolds
<1> HIDE DEF q
<1>4. f[At(FaceKind, q)] = SumOf(q, Share(1, q), Share(2, q))
  BY <1>1
<1> QED BY <1>2, <1>3, <1>4 DEF q

\* The call that takes the sum.
LEMMA SumCall ==
  ASSUME ~Mix
  PROVE  /\ DOMAIN Driver = 1 .. 35
         /\ Driver[17].part = "loop" /\ Driver[17].rows = Rows(CellRows, NodeRows)
         /\ \A iy : LoopInto(Driver[17], 0, Masses, iy) = TotalMassFlux(iy)
         /\ \A k \in DOMAIN Driver : Masses \in Into(0, Driver[k]) <=> k = 17
         /\ \A m \in Both : Masses \notin Into(m, Driver[17])
<1>1. Driver = InterfaceDriver /\ DOMAIN Driver = 1 .. 35
  BY DriverIs
<1>2. Driver[17] = Call("TotalMassFlux", {Masses}, {}, {}, Rows(CellRows, NodeRows))
  BY <1>1, InterfaceIs
<1>3. Driver[17].kernel = "TotalMassFlux" /\ Driver[17].part = "loop" /\ Driver[17].rows = Rows(CellRows, NodeRows)
  BY <1>2, CallFields
<1>4. \A iy : LoopInto(Driver[17], 0, Masses, iy) = TotalMassFlux(iy)
  BY <1>3 DEF LoopInto, LoopStores, Both
<1>5. \A m \in Both : Masses \notin Into(m, Driver[17])
  <2> TAKE m \in Both
  <2>1. Masses \in Into(m, InterfaceDriver[17]) <=> 17 \in {9 + m, 11 + m, 14}
    BY OwnStores
  <2> QED BY <1>1, <2>1 DEF Both
<1>6. \A k \in DOMAIN Driver : Masses \in Into(0, Driver[k]) <=> k = 17
  BY <1>1, WholeStores
<1> QED BY <1>1, <1>3, <1>4, <1>5, <1>6

\* A step leaves the sum of two given values, and where it is stored, as they are.
LEMMA SameSumNext ==
  ASSUME Settings
  PROVE  /\ FaceKind' = FaceKind /\ Masses' = Masses
         /\ Places(FaceKind)' = Places(FaceKind)
         /\ \A p : At(FaceKind, p)' = At(FaceKind, p)
         /\ \A p : Fold(FaceKind, p)' = Fold(FaceKind, p) /\ Right(Masses, p)' = Right(Masses, p)
         /\ \A p, v, w : SumOf(p, v, w)' = SumOf(p, v, w)
<1>1. FaceKind' = FaceKind /\ Masses' = Masses
  BY SameSettingsNext
<1>2. UNCHANGED <<nx, ny, BoundaryConditions>>
  BY DEF Settings
<1>3. \A k : Places(k)' = Places(k)
  BY <1>2, SameGridNext
<1>4. \A a, p : Right(a, p)' = Right(a, p)
  BY <1>2, SameGridNext
<1>5. \A k, p : At(k, p)' = At(k, p)
  BY <1>2, SameGridNext
<1>6. \A k, p : Fold(k, p)' = Fold(k, p)
  BY <1>2 DEF Fold, Folded, WallsX, WallsY, StaggeredX, StaggeredY
<1>7. \A p : Fold(FaceKind, p)' = Fold(FaceKind, p) /\ Right(Masses, p)' = Right(Masses, p)
             /\ At(FaceKind, p)' = At(FaceKind, p)
  BY <1>1, <1>2, <1>4, <1>5, <1>6
<1>8. \A p, v : Judged(p, v)' = Judged(p, v)
  BY <1>7 DEF Judged, Off, Derived
<1>9. \A p, v, w : SumOf(p, v, w)' = SumOf(p, v, w)
  BY <1>7, <1>8 DEF SumOf, Worst, Zero, Off, Derived
<1>10. Places(FaceKind)' = Places(FaceKind)
  BY <1>1, <1>3
<1> QED BY <1>1, <1>7, <1>9, <1>10

\* The masses of the materials when the sum is taken.
LEMMA OwnMassesAre ==
  ASSUME SweepInv, ~Mix, OverSeam(1) \cup OverSeam(2) = {}, pc = 17, NEW m \in Both
  PROVE  OwnMasses(m)
<1>1. Holds(m, {Volumes, Masses, Energies}) /\ Bank(m) = materials[m]
  BY BothBanks DEF SweepInv, FluxesHeld
<1>2. OverSeam(m) = {}
  BY DEF Both
<1>3. Stage(m, Masses, 9 + m, 11 + m)
  BY <1>2 DEF SweepInv, FluxStages
<1>4. 17 > 11 + m
  BY DEF Both
<1>5. Full(m, Masses)
  BY <1>3, <1>4 DEF Stage
<1> QED BY <1>1, <1>5 DEF OwnMasses, Holds, Full

\* A step of the driver keeps the sum where it stands or takes it one row further.
LEMMA TotalNext ==
  ASSUME SweepInv, Holds(0, {Masses}), TotalStage, [Next]_allvars
  PROVE  TotalStage'
<1>0. Settings /\ 0 \in Banks /\ Both \subseteq Banks /\ Bank(0) = mem /\ Bank(0)' = mem'
      /\ \A m \in Both : Bank(m) = materials[m] /\ Bank(m)' = materials'[m]
  BY StepSettings DEF Banks, Bank, Both
<1>1. /\ Mix' = Mix /\ FaceKind' = FaceKind /\ Masses' = Masses /\ Driver' = Driver
      /\ Places(FaceKind)' = Places(FaceKind)
      /\ OverSeam(1)' = OverSeam(1) /\ OverSeam(2)' = OverSeam(2)
      /\ \A p : At(FaceKind, p)' = At(FaceKind, p)
      /\ \A p : Fold(FaceKind, p)' = Fold(FaceKind, p) /\ Right(Masses, p)' = Right(Masses, p)
      /\ \A p, v, w : SumOf(p, v, w)' = SumOf(p, v, w)
  BY <1>0, SameSettingsNext, SameSumNext, SameDriverNext DEF Both
<1> SUFFICES ASSUME ~Mix, OverSeam(1) \cup OverSeam(2) = {}
             PROVE  /\ pc' = 17 => \A p \in Places(FaceKind)' : p[2] \notin todo' => Summed(p)'
                    /\ pc' > 17 => FacesAgree(mem[Masses], FaceKind)'
  BY <1>1 DEF TotalStage
<1> DEFINE k == FaceKind
           f == mem[Masses]
           g == mem'[Masses]
           sum(p) == SumOf(p, Share(1, p), Share(2, p))
           done(h, t) == \A p \in Places(k) : p[2] \notin t => h[At(k, p)] = sum(p)
<1>2. /\ WideGrid /\ TodoOK /\ DOMAIN materials = Both
      /\ Masses \in DOMAIN mem /\ DOMAIN f = 0 .. Size(k) - 1
      /\ \A m \in Both : Masses \in DOMAIN materials[m]
  BY BothBanks DEF SweepInv, Holds, FluxesHeld
<1>3. BankStep(0, Masses) /\ \A m \in Both : BankStep(m, Masses)
  BY <1>0, <1>2, StepsOfBanks
<1>4. /\ DOMAIN Driver = 1 .. 35
      /\ Driver[17].part = "loop" /\ Driver[17].rows = Rows(CellRows, NodeRows)
      /\ \A iy : LoopInto(Driver[17], 0, Masses, iy) = TotalMassFlux(iy)
      /\ \A c \in DOMAIN Driver : Masses \in Into(0, Driver[c]) <=> c = 17
      /\ \A m \in Both : Masses \notin Into(m, Driver[17])
  BY SumCall
<1>5. (pc = 17 => done(f, todo)) /\ (pc > 17 => FacesAgree(f, k))
  BY DEF TotalStage, Summed, Total
<1>6. /\ pc \in Nat \ {0} /\ (pc \in DOMAIN Driver => todo \subseteq Driver[pc].rows)
      /\ RowsAfter = IF pc + 1 \in DOMAIN Driver THEN Driver[pc + 1].rows ELSE {}
  BY <1>2 DEF TodoOK, RowsAfter
<1>7. (Calls("loop") => pc \in DOMAIN Driver /\ Driver[pc].part = "loop")
      /\ (Calls("boundary") => pc \in DOMAIN Driver /\ Driver[pc].part = "boundary")
  BY DEF Calls
<1>8. \A p \in Places(k) : p[2] \in Rows(CellRows, NodeRows)
  BY <1>2 DEF Rows, CellRows, NodeRows, FaceKind, Places, LastX, LastY, StaggeredX, StaggeredY, WideGrid
<1>9. pc = 17 => \A m \in Both : OwnMasses(m) /\ materials'[m][Masses] = materials[m][Masses]
  <2> SUFFICES ASSUME pc = 17, NEW m \in Both
               PROVE  OwnMasses(m) /\ Bank(m)'[Masses] = Bank(m)[Masses]
    BY <1>0
  <2>1. Bank(m)'[Masses] = Bank(m)[Masses]
    BY <1>3, <1>4, <1>7 DEF BankStep, Idle, NoRow, RowInto, EdgeOver
  <2> QED BY <2>1, OwnMassesAre
<1>11. \A h : pc = 17 /\ done(h, {}) => FacesAgree(h, k)
  BY <1>2, <1>9, AllSummed
<1>12. ASSUME pc = 17, NEW iy \in todo
       PROVE  done(Stored(f, TotalMassFlux(iy)), todo \ {iy})
  <2> DEFINE S == RowAt(iy)
             v == [p \in S |-> sum(p)]
             h == Stored(f, TotalMassFlux(iy))
  <2>1. iy \in Rows(CellRows, NodeRows)
    BY <1>4, <1>6, <1>12
  <2>2. Gives(f, TotalMassFlux(iy), k, S, v)
    BY <1>2, <1>9, <1>12, <2>1, SumStores
  <2>3. Grid /\ k \in Kinds
    BY <1>2, WideGridIsGrid DEF FaceKind, Kinds
  <2>4. /\ \A p \in S : h[At(k, p)] = v[p]
        /\ \A p \in Places(k) \ S : h[At(k, p)] = f[At(k, p)]
    <3> HIDE DEF f, S, v, k
    <3> QED BY <2>2, <2>3, GivenPlaces
  <2>5. \A p \in Places(k) : p \in S <=> p[2] = iy
    BY DEF RowAt
  <2>6. \A p \in S : v[p] = sum(p)
    OBVIOUS
  <2> HIDE DEF f, S, v, h, k, sum
  <2>7. done(h, todo \ {iy})
    BY <1>5, <1>12, <2>4, <2>5, <2>6
  <2> QED BY <2>7 DEF h
<1>13. pc' = pc \/ (pc' = pc + 1 /\ todo' = RowsAfter)
  BY <1>3 DEF BankStep, Idle, NoRow, RowInto, EdgeOver
<1>14. (pc' = 17 => done(g, todo')) /\ (pc' > 17 => FacesAgree(g, k))
  <2> DEFINE row(iy) == Stored(f, TotalMassFlux(iy))
  <2>0. \A iy \in todo : pc = 17 => done(row(iy), todo \ {iy})
    BY <1>12
  <2>1. pc + 1 = 17 => RowsAfter = Rows(CellRows, NodeRows)
    BY <1>4, <1>6
  <2>2. CASE Idle(0, Masses)
    <3>1. pc' = pc /\ todo' = todo /\ g = f
      BY <1>0, <2>2 DEF Idle
    <3> QED BY <1>5, <3>1
  <2>3. CASE Calls("loop") /\ NoRow(0, Masses)
    <3>1. todo = {} /\ pc' = pc + 1 /\ todo' = RowsAfter /\ g = f
      BY <1>0, <2>3 DEF NoRow
    <3> HIDE DEF f, g, k, sum
    <3>2. pc' = 17 => done(g, todo')
      BY <1>6, <1>8, <2>1, <3>1
    <3>3. pc' > 17 => FacesAgree(g, k)
      BY <1>5, <1>6, <1>11, <3>1
    <3> QED BY <3>2, <3>3
  <2>4. CASE Calls("loop") /\ RowInto(0, Masses)
    <3>1. PICK iy \in todo :
            /\ pc' = IF todo = {iy} THEN pc + 1 ELSE pc
            /\ todo' = IF todo = {iy} THEN RowsAfter ELSE todo \ {iy}
            /\ g = IF Masses \in Into(0, Driver[pc]) THEN Stored(f, LoopInto(Driver[pc], 0, Masses, iy)) ELSE f
      BY <1>0, <2>4 DEF RowInto
    <3>2. g = IF pc = 17 THEN row(iy) ELSE f
      BY <1>4, <1>7, <2>4, <3>1
    <3> HIDE DEF f, g, k, row, sum
    <3>3. CASE pc = 17
      <4>1. done(g, todo \ {iy})
        BY <2>0, <3>2, <3>3
      <4>2. CASE todo = {iy}
        <5>1. done(g, {})
          BY <4>1, <4>2
        <5>2. FacesAgree(g, k) /\ pc' = 18
          BY <1>11, <3>1, <3>3, <4>2, <5>1
        <5> QED BY <5>2
      <4>3. CASE todo # {iy}
        BY <3>1, <3>3, <4>1, <4>3
      <4> QED BY <4>2, <4>3
    <3>4. CASE pc # 17
      <4>1. g = f
        BY <3>2, <3>4
      <4>2. pc' = 17 => pc + 1 = 17 /\ todo' = RowsAfter
        BY <1>6, <3>1, <3>4
      <4>3. pc' = 17 => done(g, todo')
        BY <1>8, <2>1, <4>2
      <4>4. pc' > 17 => FacesAgree(g, k)
        BY <1>5, <1>6, <3>1, <3>4, <4>1
      <4> QED BY <4>3, <4>4
    <3> QED BY <3>3, <3>4
  <2>5. CASE Calls("boundary") /\ EdgeOver(0, Masses)
    <3>1. pc # 17 /\ pc \in DOMAIN Driver
      BY <1>4, <1>7, <2>5
    <3>2. /\ pc' = pc + 1 /\ todo' = RowsAfter
          /\ g = IF Masses \in Into(0, Driver[pc]) THEN Stored(f, EdgeInto(Driver[pc], 0, Masses)) ELSE f
      BY <1>0, <2>5 DEF EdgeOver
    <3>3. g = f
      BY <1>4, <3>1, <3>2
    <3> HIDE DEF f, g, k, sum
    <3>4. pc' = 17 => done(g, todo')
      BY <1>6, <1>8, <2>1, <3>2
    <3>5. pc' > 17 => FacesAgree(g, k)
      BY <1>5, <1>6, <3>1, <3>2, <3>3
    <3> QED BY <3>4, <3>5
  <2> QED BY <1>3, <2>2, <2>3, <2>4, <2>5 DEF BankStep
<1>15. pc' > 17 => FacesAgree(mem[Masses], FaceKind)'
  BY <1>1, <1>14 DEF FacesAgree
<1>16. ASSUME pc' = 17, NEW p \in Places(k), p[2] \notin todo' PROVE Summed(p)'
  <2>1. pc = 17
    <3>1. CASE pc' # pc
      <4>1. todo' = Rows(CellRows, NodeRows)
        BY <1>4, <1>6, <1>13, <1>16, <3>1
      <4> QED BY <1>8, <1>16, <4>1
    <3> QED BY <1>16, <3>1
  <2>2. g[At(k, p)] = sum(p)
    BY <1>14, <1>16
  <2>3. Share(1, p)' = Share(1, p) /\ Share(2, p)' = Share(2, p)
    BY <1>1, <1>9, <2>1 DEF Share, Both
  <2>4. Total(p)' = g[At(k, p)]
    BY <1>1 DEF Total
  <2>5. SumOf(p, Share(1, p), Share(2, p))' = sum(p)
    <3>1. \A m \in Both : Judged(p, Share(m, p))' = Judged(p, Share(m, p))
      <4> TAKE m \in Both
      <4>1. Share(m, p)' = Share(m, p)
        BY <2>3 DEF Both
      <4>2. Fold(FaceKind, p)' = Fold(FaceKind, p) /\ Right(Masses, p)' = Right(Masses, p)
        BY <1>1
      <4> QED BY <4>1, <4>2 DEF Judged, Off, Derived
    <3>2. /\ Judged(p, Share(1, p))' = Judged(p, Share(1, p))
          /\ Judged(p, Share(2, p))' = Judged(p, Share(2, p))
      BY <3>1 DEF Both
    <3>3. Fold(FaceKind, p)' = Fold(FaceKind, p)
      BY <1>1
    <3> QED BY <2>3, <3>2, <3>3 DEF SumOf, Worst, Zero, Off, Derived
  <2> QED BY <2>2, <2>4, <2>5 DEF Summed
<1> QED BY <1>1, <1>15, <1>16
-----------------------------------------------------------------------------
\* The inductive invariant of the dual cells.
DualInv == SweepInv /\ Holds(0, {Masses}) /\ TotalStage

LEMMA DualInit == Init => DualInv
<1> SUFFICES ASSUME Init PROVE DualInv
  OBVIOUS
<1>1. SweepInv /\ pc = 1
  BY SweepInit, InitSettings
<1>2. TotalStage
  BY <1>1 DEF TotalStage
<1>3. Holds(0, {Masses})
  <2>1. mem = FilledOr(Inputs, Zeroed, Inputs \cup Zeroed \cup Filling)
    BY DEF Init, GridInit, FilledOr
  <2>2. DOMAIN mem = Inputs \cup Zeroed \cup Filling /\ Masses \in Inputs \cup Zeroed \cup Filling
    BY <2>1 DEF FilledOr, Filling
  <2>3. DOMAIN mem[Masses] = 0 .. Size(KindOf(Masses)) - 1
    BY <2>1, <2>2, DomainsFilled
  <2>4. KindOf(Masses) = FaceKind
    BY NamesApart DEF Carried
  <2> QED BY <2>2, <2>3, <2>4, BothBanks DEF Holds
<1> QED BY <1>1, <1>2, <1>3 DEF DualInv

LEMMA DualStep == DualInv /\ [Next]_allvars => DualInv'
<1> SUFFICES ASSUME DualInv, [Next]_allvars PROVE DualInv'
  OBVIOUS
<1>1. SweepInv /\ Holds(0, {Masses}) /\ TotalStage /\ DOMAIN materials = Both
  BY DEF DualInv, SweepInv
<1>2. SweepInv'
  BY <1>1, SweepStep
<1>3. TotalStage'
  BY <1>1, TotalNext
<1>4. Holds(0, {Masses})'
  <2>1. PICK S : S = {Masses}
    OBVIOUS
  <2>2. Holds(0, S)'
    BY <1>1, <2>1, HeldNext DEF Banks
  <2>3. Masses' = Masses
    BY StepSettings, SameSettingsNext
  <2> QED BY <2>1, <2>2, <2>3
<1> QED BY <1>2, <1>3, <1>4 DEF DualInv

LEMMA DualBalances == DualInv => DualCellsBalance
<1> SUFFICES ASSUME DualInv, pc \in DOMAIN Driver, Driver[pc].kernel = "ProjectNodal",
                    OverSeam(1) \cup OverSeam(2) = {}
             PROVE  DualCellsBalance
  BY DEF DualCellsBalance
<1>1. WideGrid /\ TodoOK /\ FluxStages /\ TotalStage
  BY DEF DualInv, SweepInv
<1>2. todo \subseteq Inner /\ FacesAgree(mem[Masses], FaceKind)
  <2>1. todo \subseteq Driver[pc].rows
    BY <1>1 DEF TodoOK
  <2>2. CASE Mix
    <3>1. pc \in {20, 21, 24, 25} /\ Driver[pc].rows \subseteq Inner
      BY <2>2, DriverIs, MixIs
    <3>2. Full(0, Masses)
      BY <1>1, <2>2, <3>1 DEF FluxStages, Stage
    <3>3. FacesAgree(mem[Masses], FaceKind)
      BY <1>1, <3>2, CompleteAgrees, BothBanks DEF Full, FaceKind, FaceKinds
    <3> QED BY <2>1, <3>1, <3>3
  <2>3. CASE ~Mix
    <3>1. pc \in {29, 30, 33, 34} /\ Driver[pc].rows \subseteq Inner
      BY <2>3, DriverIs, InterfaceIs
    <3>2. FacesAgree(mem[Masses], FaceKind)
      BY <1>1, <2>3, <3>1 DEF TotalStage
    <3> QED BY <2>1, <3>1, <3>2
  <2> QED BY <2>2, <2>3
<1>3. CASE InX
  <2>1. /\ X!Balanced(UNION {X!InnerStencils(iy) : iy \in todo})
        /\ \A a : ~WallsX => X!Balanced(X!BoundaryStencils(a))
    BY <1>1, <1>2, <1>3, BalancesX DEF Masses, FaceKind
  <2> QED BY <1>3, <2>1 DEF DualCellsBalance
<1>4. CASE ~InX
  <2>1. /\ Y!Balanced(UNION {Y!InnerStencils(iy) : iy \in todo})
        /\ \A a : BoundaryConditions # "Wall" => Y!Balanced(Y!BoundaryStencils(a))
    BY <1>1, <1>2, <1>4, BalancesY DEF Masses, FaceKind
  <2> QED BY <1>4, <2>1 DEF DualCellsBalance
<1> QED BY <1>3, <1>4

\* While a velocity is projected, what the mass of a dual cell gains is what goes through its
\* sides, of both materials together, inside and along the boundaries that are no walls: on every
\* grid of at least two cells in each direction, under every boundary condition, in whatever order
\* the threads take the rows, and whichever cells give all they have but not over the seam, so
\* that the kernels that project the nodes leave a uniform velocity uniform.
THEOREM MaterialDualCellsBalance == Spec => []DualCellsBalance
<1>1. Init => DualInv
  BY DualInit
<1>2. DualInv /\ [Next]_allvars => DualInv'
  BY DualStep
<1>3. DualInv => DualCellsBalance
  BY DualBalances
<1> QED BY <1>1, <1>2, <1>3, PTL DEF Spec
==============================================================================
