------------------------ MODULE CornerFluxes_proofs ------------------------
(***************************************************************************)
(* What the driver of the corner fluxes conserves, for every size of grid, *)
(* any order of the rows, each boundary condition and all directions of    *)
(* the velocities.  Checked by TLAPS.                                      *)
(***************************************************************************)
EXTENDS CornerFluxes, GridArrays_proofs, FiniteSetTheorems

-----------------------------------------------------------------------------
\* The operators of the instances are those of the modules they instantiate.
LEMMA SameGridX ==
  /\ \A a : X!KindOf(a) = KindOf(a)
  /\ \A k : X!Places(k) = Places(k)
  /\ \A k, p : X!At(k, p) = At(k, p) /\ X!Fold(k, p) = Fold(k, p)
  /\ X!WallsX = WallsX /\ X!CellRows = CellRows /\ X!Inner = Inner
  /\ X!Zero = Zero /\ X!Garbage = Garbage
<1>1. \A k : X!StaggeredX(k) = StaggeredX(k) /\ X!StaggeredY(k) = StaggeredY(k)
  BY DEF X!StaggeredX, StaggeredX, X!StaggeredY, StaggeredY
<1>2. \A k : X!LastX(k) = LastX(k) /\ X!LastY(k) = LastY(k)
  BY <1>1 DEF X!LastX, LastX, X!LastY, LastY
<1>3. \A k : X!Places(k) = Places(k)
  BY <1>2 DEF X!Places, Places
<1>4. \A k, p : X!At(k, p) = At(k, p)
  BY <1>1 DEF X!At, At, X!NodeAt, NodeAt, X!CellAt, CellAt
<1>5. X!WallsX = WallsX /\ X!WallsY = WallsY
  BY DEF X!WallsX, WallsX, X!WallsY, WallsY
<1>6. \A k, p : X!Fold(k, p) = Fold(k, p)
  BY <1>1, <1>5 DEF X!Fold, Fold, X!Folded, Folded
<1>7. \A a : X!KindOf(a) = KindOf(a)
  BY DEF X!KindOf, KindOf
<1>8. X!CellRows = CellRows /\ X!Inner = Inner /\ X!Zero = Zero /\ X!Garbage = Garbage
  BY DEF X!CellRows, CellRows, X!Inner, Inner, X!Zero, Zero, X!Garbage, Garbage
<1> QED BY <1>3, <1>4, <1>5, <1>6, <1>7, <1>8

LEMMA SameStoresX ==
  /\ \A f, stores : X!Stored(f, stores) = Stored(f, stores)
  /\ \A k, p, reads : X!Computed(k, p, reads) \in Results(k, p)
  /\ \A nodes : X!Zeros(nodes) = Zeros(nodes)
  /\ X!CornerNodes = CornerNodes
<1>1. \A f, stores : X!Stored(f, stores) = Stored(f, stores)
  BY SameGridX DEF X!Stored, Stored
<1>2. \A k, p, reads : X!Computed(k, p, reads) \in Results(k, p)
  BY SameGridX DEF X!Computed, Results, Stamps, X!Off, Off, X!Derived, Derived
<1>3. \A nodes : X!Zeros(nodes) = Zeros(nodes)
  BY SameGridX DEF X!Zeros, Zeros
<1>4. X!CornerNodes = CornerNodes
  BY DEF X!CornerNodes, CornerNodes
<1> QED BY <1>1, <1>2, <1>3, <1>4

LEMMA SameGridY ==
  /\ \A a : Y!KindOf(a) = KindOf(a)
  /\ \A k : Y!Places(k) = Places(k)
  /\ \A k, p : Y!At(k, p) = At(k, p) /\ Y!Fold(k, p) = Fold(k, p)
  /\ Y!WallsY = WallsY /\ Y!CellRows = CellRows /\ Y!Inner = Inner
  /\ Y!Zero = Zero /\ Y!Garbage = Garbage
<1>1. \A k : Y!StaggeredX(k) = StaggeredX(k) /\ Y!StaggeredY(k) = StaggeredY(k)
  BY DEF Y!StaggeredX, StaggeredX, Y!StaggeredY, StaggeredY
<1>2. \A k : Y!LastX(k) = LastX(k) /\ Y!LastY(k) = LastY(k)
  BY <1>1 DEF Y!LastX, LastX, Y!LastY, LastY
<1>3. \A k : Y!Places(k) = Places(k)
  BY <1>2 DEF Y!Places, Places
<1>4. \A k, p : Y!At(k, p) = At(k, p)
  BY <1>1 DEF Y!At, At, Y!NodeAt, NodeAt, Y!CellAt, CellAt
<1>5. Y!WallsX = WallsX /\ Y!WallsY = WallsY
  BY DEF Y!WallsX, WallsX, Y!WallsY, WallsY
<1>6. \A k, p : Y!Fold(k, p) = Fold(k, p)
  BY <1>1, <1>5 DEF Y!Fold, Fold, Y!Folded, Folded
<1>7. \A a : Y!KindOf(a) = KindOf(a)
  BY DEF Y!KindOf, KindOf
<1>8. Y!CellRows = CellRows /\ Y!Inner = Inner /\ Y!Zero = Zero /\ Y!Garbage = Garbage
  BY DEF Y!CellRows, CellRows, Y!Inner, Inner, Y!Zero, Zero, Y!Garbage, Garbage
<1> QED BY <1>3, <1>4, <1>5, <1>6, <1>7, <1>8

LEMMA SameStoresY ==
  /\ \A f, stores : Y!Stored(f, stores) = Stored(f, stores)
  /\ \A k, p, reads : Y!Computed(k, p, reads) \in Results(k, p)
  /\ \A nodes : Y!Zeros(nodes) = Zeros(nodes)
  /\ Y!CornerNodes = CornerNodes
<1>1. \A f, stores : Y!Stored(f, stores) = Stored(f, stores)
  BY SameGridY DEF Y!Stored, Stored
<1>2. \A k, p, reads : Y!Computed(k, p, reads) \in Results(k, p)
  BY SameGridY DEF Y!Computed, Results, Stamps, Y!Off, Off, Y!Derived, Derived
<1>3. \A nodes : Y!Zeros(nodes) = Zeros(nodes)
  BY SameGridY DEF Y!Zeros, Zeros
<1>4. Y!CornerNodes = CornerNodes
  BY DEF Y!CornerNodes, CornerNodes
<1> QED BY <1>1, <1>2, <1>3, <1>4

LEMMA CompleteConservesX ==
  ASSUME WideGrid, NEW closed, NEW a, DOMAIN mem[a] = 0 .. Size("facex") - 1, CompleteAs(closed, mem[a], "facex")
  PROVE  X!Conserves(a)
<1> SUFFICES ASSUME NEW i \in DOMAIN mem[a], mem[a][i] # Zero
             PROVE  /\ mem[a][i] # Garbage
                    /\ X!Cardinality(X!TakenBefore(a, mem[a][i])) = X!Cardinality(X!TakenAfter(a, mem[a][i]))
  BY SameGridX DEF X!Conserves
<1> DEFINE m == mem[a]
           before == BeforeX(m, m[i])
           after  == AfterX(m, m[i])
<1>1. m[i] # Garbage /\ (\E p : before = {p}) /\ (\E p : after = {p})
  <2>1. DOMAIN m = 0 .. Size("facex") - 1 /\ CompleteAs(closed, m, "facex") /\ i \in DOMAIN m /\ m[i] # Zero
    OBVIOUS
  <2> HIDE DEF m
  <2> QED BY <2>1, TakenOnceX
<1>2. ASSUME NEW c \in Places("cell")
      PROVE  /\ X!CellFaceM1O(X!At("cell", c), c[2], nx) = FaceXAt(c[1], c[2], nx)
             /\ X!CellFaceP1O(X!At("cell", c), c[2], nx) = FaceXAt(c[1] + 1, c[2], nx)
  <2>1. c[1] \in Int /\ c[2] \in Int /\ nx \in Int /\ At("cell", c) = CellAt(c[1], c[2], nx)
    BY DEF Places, LastX, LastY, StaggeredX, StaggeredY, At, WideGrid
  <2>2. /\ CellFaceM1O(CellAt(c[1], c[2], nx), c[2], nx) = FaceXAt(c[1], c[2], nx)
        /\ CellFaceP1O(CellAt(c[1], c[2], nx), c[2], nx) = FaceXAt(c[1] + 1, c[2], nx)
    BY <2>1, CellMaps
  <2>3. X!At("cell", c) = CellAt(c[1], c[2], nx)
    BY <2>1, SameGridX
  <2> QED BY <2>2, <2>3 DEF X!CellFaceM1O, X!CellFaceP1O, CellFaceM1O, CellFaceP1O
<1>3. X!TakenBefore(a, m[i]) = before /\ X!TakenAfter(a, m[i]) = after
  BY <1>2, SameGridX DEF X!TakenBefore, X!TakenAfter, BeforeX, AfterX
<1>4. \A S : X!Cardinality(S) = Cardinality(S)
  BY DEF X!Cardinality, Cardinality
<1> HIDE DEF before, after
<1>5. Cardinality(before) = 1 /\ Cardinality(after) = 1
  BY <1>1, FS_Singleton
<1> QED BY <1>1, <1>3, <1>4, <1>5

LEMMA CompleteConservesY ==
  ASSUME WideGrid, NEW closed, NEW a \in DOMAIN mem, a # "lag_density_y", DOMAIN mem[a] = 0 .. Size("facey") - 1, CompleteAs(closed, mem[a], "facey")
  PROVE  Y!Conserves(a)
<1>0. Shared[a] = mem[a]
  BY DEF Shared
<1> SUFFICES ASSUME NEW i \in DOMAIN mem[a], mem[a][i] # Zero
             PROVE  /\ mem[a][i] # Garbage
                    /\ Y!Cardinality(Y!TakenBefore(a, mem[a][i])) = Y!Cardinality(Y!TakenAfter(a, mem[a][i]))
  BY <1>0, SameGridY DEF Y!Conserves
<1> DEFINE m == mem[a]
           before == BeforeY(m, m[i])
           after  == AfterY(m, m[i])
<1>1. m[i] # Garbage /\ (\E p : before = {p}) /\ (\E p : after = {p})
  <2>1. DOMAIN m = 0 .. Size("facey") - 1 /\ CompleteAs(closed, m, "facey") /\ i \in DOMAIN m /\ m[i] # Zero
    OBVIOUS
  <2> HIDE DEF m
  <2> QED BY <2>1, TakenOnceY
<1>2. ASSUME NEW c \in Places("cell")
      PROVE  /\ Y!CellFaceOM1(Y!At("cell", c), c[2], nx) = FaceYAt(c[1], c[2], nx)
             /\ Y!CellFaceOP1(Y!At("cell", c), c[2], nx) = FaceYAt(c[1], c[2] + 1, nx)
  <2>1. c[1] \in Int /\ c[2] \in Int /\ nx \in Int /\ At("cell", c) = CellAt(c[1], c[2], nx)
    BY DEF Places, LastX, LastY, StaggeredX, StaggeredY, At, WideGrid
  <2>2. /\ CellFaceOM1(CellAt(c[1], c[2], nx), c[2], nx) = FaceYAt(c[1], c[2], nx)
        /\ CellFaceOP1(CellAt(c[1], c[2], nx), c[2], nx) = FaceYAt(c[1], c[2] + 1, nx)
    BY <2>1, CellMaps
  <2>3. Y!At("cell", c) = CellAt(c[1], c[2], nx)
    BY <2>1, SameGridY
  <2> QED BY <2>2, <2>3 DEF Y!CellFaceOM1, Y!CellFaceOP1, CellFaceOM1, CellFaceOP1
<1>3. Y!TakenBefore(a, m[i]) = before /\ Y!TakenAfter(a, m[i]) = after
  BY <1>0, <1>2, SameGridY DEF Y!TakenBefore, Y!TakenAfter, BeforeY, AfterY
<1>4. \A S : Y!Cardinality(S) = Cardinality(S)
  BY DEF Y!Cardinality, Cardinality
<1> HIDE DEF before, after
<1>5. Cardinality(before) = 1 /\ Cardinality(after) = 1
  BY <1>1, FS_Singleton
<1> QED BY <1>1, <1>3, <1>4, <1>5
-----------------------------------------------------------------------------
\* The rows of an array of fluxes, and its ends, are given what belongs to them.
FacesX == {"mass_flux_x", "energy_flux_x"}
FacesY == {"mass_flux_y", "energy_flux_y"}

LEMMA FaceKindsOf ==
  /\ \A a \in FacesX : KindOf(a) = "facex"
  /\ \A a \in FacesY : KindOf(a) = "facey"
  BY DEF FacesX, FacesY, KindOf

\* What the kernels read for a face.
CrossReadsX(a, s) ==
  X!FluxReads(FluxOf(a), s) \cup
  {<<"volume_fluxes_x", 0, 0, s.face>>,
   <<"predicted_v", 0, 0, FaceXNodeM1(s.face, s.at[2], nx)>>,
   <<"predicted_v", 0, 1, FaceXNodeP1(s.face, s.at[2], nx)>>}
CrossReadsY(a, s) ==
  Y!FluxReads(FluxOf(a), s) \cup
  {<<"volume_fluxes_y", 0, 0, s.face>>,
   <<"predicted_u", 0, 0, FaceYNodeM1(s.face, s.at[2], nx)>>,
   <<"predicted_u", 1, 0, FaceYNodeP1(s.face, s.at[2], nx)>>}

LEMMA FluxesXAre ==
  \A a, S : FluxesX(a, S) =
              UNION {{<<f, Computed("facex", s.at, CrossReadsX(a, s))>> : f \in s.to} : s \in S}
  BY DEF FluxesX, CrossReadsX

LEMMA FluxesYAre ==
  \A a, S : FluxesY(a, S) =
              UNION {{<<f, Y!Computed("facey", s.at, CrossReadsY(a, s))>> : f \in s.to} : s \in S}
  BY DEF FluxesY, CrossReadsY

LEMMA CrossRowX ==
  ASSUME WideGrid, NEW a \in FacesX, DOMAIN mem[a] = 0 .. Size("facex") - 1,
         NEW iy \in CellRows, NEW rows, FluxesOn(mem[a], "facex", FacesOf("facex", rows))
  PROVE  FluxesOn(Stored(mem[a], FluxOrder2XCornerFluxes(a, iy)), "facex", FacesOf("facex", rows \cup {iy}))
<1> DEFINE C == 1 .. nx - 1
           crossing(ix) ==
             X!Crossing(<<ix, iy>>, {X!FaceXAt(ix, iy, nx)},
                        X!FaceXCellM1(X!FaceXAt(ix, iy, nx), iy, nx),
                        X!FaceXCellP1(X!FaceXAt(ix, iy, nx), iy, nx), X!FaceXAt(ix, iy, nx))
           value(ix) == Computed("facex", <<ix, iy>>, CrossReadsX(a, crossing(ix)))
           v == [ix \in C |-> value(ix)]
           stores == FluxOrder2XCornerFluxes(a, iy)
<1>1. stores = {<<FaceXAt(ix, iy, nx), v[ix]>> : ix \in C}
  <2>1. stores = FluxesX(a, {crossing(ix) : ix \in C})
    BY DEF FluxOrder2XCornerFluxes, X!InnerFaces
  <2>2. \A ix : /\ crossing(ix).to = {FaceXAt(ix, iy, nx)}
                /\ crossing(ix).at = <<ix, iy>>
    BY DEF X!Crossing, X!FaceXAt, FaceXAt
  <2> DEFINE result(ix) == Computed("facex", crossing(ix).at, CrossReadsX(a, crossing(ix)))
             one(ix)  == {<<f, result(ix)>> : f \in crossing(ix).to}
             pair(ix) == <<FaceXAt(ix, iy, nx), v[ix]>>
  <2> HIDE DEF crossing, C
  <2>3. FluxesX(a, {crossing(ix) : ix \in C}) = UNION {one(ix) : ix \in C}
    BY FluxesXAre
  <2>4. \A ix \in C : result(ix) = v[ix]
    BY <2>2
  <2> HIDE DEF v, stores, result
  <2>5. \A ix \in C : one(ix) = {pair(ix)}
    BY <2>2, <2>4
  <2> HIDE DEF one, pair
  <2>6. UNION {one(ix) : ix \in C} = {pair(ix) : ix \in C}
    BY <2>5
  <2> QED BY <2>1, <2>3, <2>6 DEF pair
<1>2. \A ix \in C : v[ix] \in Borne(Fold("facex", <<ix, iy>>))
  BY ComputedResults DEF Results, Borne
<1> HIDE DEF v, stores
<1>3. FluxesOn(Stored(mem[a], stores), "facex", FacesOf("facex", rows \cup {iy}))
  BY <1>1, <1>2, RowOfFacesX
<1> QED BY <1>3 DEF stores

LEMMA CrossEdgeX ==
  ASSUME WideGrid, NEW a \in FacesX, DOMAIN mem[a] = 0 .. Size("facex") - 1,
         FluxesOn(mem[a], "facex", FacesOf("facex", CellRows))
  PROVE  CompleteAs(BoundaryConditions = "Wall", Stored(mem[a], FluxOrder2XCornerFluxesBoundary(a)), "facex")
<1> DEFINE C == CellRows
           closed == BoundaryConditions = "Wall"
           crossing(iy) ==
             X!Crossing(<<0, iy>>, {X!FirstFace(iy), X!LastFace(iy)},
                        X!FaceXCellM1(X!LastFace(iy), iy, nx),
                        X!FaceXCellP1(X!FirstFace(iy), iy, nx), X!FirstFace(iy))
           value(iy) == IF closed THEN Zero
                        ELSE Computed("facex", <<0, iy>>, CrossReadsX(a, crossing(iy)))
           v == [iy \in C |-> value(iy)]
           pairs(iy) == {<<FaceXAt(0, iy, nx), v[iy]>>, <<FaceXAt(nx, iy, nx), v[iy]>>}
           stores == FluxOrder2XCornerFluxesBoundary(a)
<1>1. \A iy \in C : /\ FaceXAt(0, iy, nx) = X!FirstFace(iy)
                     /\ FaceXAt(nx, iy, nx) = X!LastFace(iy)
  BY DEF FaceXAt, X!FirstFace, X!LastFace, CellRows, WideGrid
<1>2. stores = UNION {pairs(iy) : iy \in C}
  <2>1. CASE closed
    <3>1. stores = UNION {{<<X!FirstFace(iy), Zero>>, <<X!LastFace(iy), Zero>>} : iy \in C}
      BY <2>1, SameGridX
         DEF FluxOrder2XCornerFluxesBoundary, FluxOrder2XCornerFluxesBoundaryWall,
             X!ReconstructFluxOrder2XWallBoundary
    <3>2. \A iy \in C : pairs(iy) = {<<X!FirstFace(iy), Zero>>, <<X!LastFace(iy), Zero>>}
      BY <1>1, <2>1
    <3> QED BY <3>1, <3>2
  <2>2. CASE ~closed
    <3> DEFINE result(iy) == Computed("facex", crossing(iy).at, CrossReadsX(a, crossing(iy)))
               two(iy) == {<<f, result(iy)>> : f \in crossing(iy).to}
    <3>1. stores = FluxesX(a, {crossing(iy) : iy \in C})
      BY <2>2, SameGridX
         DEF FluxOrder2XCornerFluxesBoundary, FluxOrder2XCornerFluxesPeriodicBoundary, X!SeamFaces
    <3>2. \A iy : /\ crossing(iy).to = {X!FirstFace(iy), X!LastFace(iy)}
                  /\ crossing(iy).at = <<0, iy>>
      BY DEF X!Crossing
    <3> HIDE DEF crossing, C
    <3>3. FluxesX(a, {crossing(iy) : iy \in C}) = UNION {two(iy) : iy \in C}
      BY FluxesXAre
    <3>4. \A iy \in C : result(iy) = v[iy]
      BY <2>2, <3>2
    <3> HIDE DEF result, v
    <3>5. \A iy \in C : two(iy) = pairs(iy)
      BY <1>1, <3>2, <3>4
    <3> HIDE DEF two, pairs
    <3> QED BY <3>1, <3>3, <3>5
  <2> QED BY <2>1, <2>2
<1>3. \A iy \in C : IF closed THEN v[iy] = Zero ELSE v[iy] \in Borne(<<0, iy>>)
  <2> TAKE iy \in C
  <2>1. Fold("facex", <<0, iy>>) = <<0, iy>>
    <3>1. <<0, iy>> \in Places("facex")
      BY DEF Places, LastX, LastY, StaggeredX, StaggeredY, WideGrid, CellRows
    <3> QED BY <3>1, FaceFold DEF FaceKinds, AtEnd, WallsOf, WideGrid
  <2> QED BY <2>1, ComputedResults DEF Results, Borne
<1> HIDE DEF v, stores, closed
<1>4. CompleteAs(closed, Stored(mem[a], stores), "facex")
  BY <1>2, <1>3, EdgeOfFacesX
<1> QED BY <1>4 DEF stores, closed

LEMMA CrossRowY ==
  ASSUME WideGrid, NEW a \in FacesY, DOMAIN mem[a] = 0 .. Size("facey") - 1,
         NEW iy \in Inner, NEW rows, FluxesOn(mem[a], "facey", FacesOf("facey", rows))
  PROVE  FluxesOn(Stored(mem[a], FluxOrder2YCornerFluxes(a, iy)), "facey", FacesOf("facey", rows \cup {iy}))
<1> DEFINE C == 0 .. nx - 1
           crossing(ix) ==
             Y!Crossing(<<ix, iy>>, {Y!FaceYAt(ix, iy, nx)},
                        Y!FaceYCellM1(Y!FaceYAt(ix, iy, nx), iy, nx),
                        Y!FaceYCellP1(Y!FaceYAt(ix, iy, nx), iy, nx), Y!FaceYAt(ix, iy, nx))
           value(ix) == Y!Computed("facey", <<ix, iy>>, CrossReadsY(a, crossing(ix)))
           v == [ix \in C |-> value(ix)]
           stores == FluxOrder2YCornerFluxes(a, iy)
<1>1. stores = {<<FaceYAt(ix, iy, nx), v[ix]>> : ix \in C}
  <2>1. stores = FluxesY(a, {crossing(ix) : ix \in C})
    BY DEF FluxOrder2YCornerFluxes, Y!InnerFaces
  <2>2. \A ix : /\ crossing(ix).to = {FaceYAt(ix, iy, nx)}
                /\ crossing(ix).at = <<ix, iy>>
    BY DEF Y!Crossing, Y!FaceYAt, FaceYAt
  <2> DEFINE result(ix) == Y!Computed("facey", crossing(ix).at, CrossReadsY(a, crossing(ix)))
             one(ix)  == {<<f, result(ix)>> : f \in crossing(ix).to}
             pair(ix) == <<FaceYAt(ix, iy, nx), v[ix]>>
  <2> HIDE DEF crossing, C
  <2>3. FluxesY(a, {crossing(ix) : ix \in C}) = UNION {one(ix) : ix \in C}
    BY FluxesYAre
  <2>4. \A ix \in C : result(ix) = v[ix]
    BY <2>2
  <2> HIDE DEF v, stores, result
  <2>5. \A ix \in C : one(ix) = {pair(ix)}
    BY <2>2, <2>4
  <2> HIDE DEF one, pair
  <2>6. UNION {one(ix) : ix \in C} = {pair(ix) : ix \in C}
    BY <2>5
  <2> QED BY <2>1, <2>3, <2>6 DEF pair
<1>2. \A ix \in C : v[ix] \in Borne(Fold("facey", <<ix, iy>>))
  BY SameStoresY DEF Results, Borne
<1> HIDE DEF v, stores
<1>3. FluxesOn(Stored(mem[a], stores), "facey", FacesOf("facey", rows \cup {iy}))
  BY <1>1, <1>2, RowOfFacesY
<1> QED BY <1>3 DEF stores

LEMMA CrossEdgeY ==
  ASSUME WideGrid, NEW a \in FacesY, DOMAIN mem[a] = 0 .. Size("facey") - 1,
         FluxesOn(mem[a], "facey", FacesOf("facey", Inner))
  PROVE  CompleteAs(BoundaryConditions = "Wall", Stored(mem[a], FluxOrder2YCornerFluxesBoundary(a)), "facey")
<1> DEFINE C == 0 .. nx - 1
           closed == BoundaryConditions = "Wall"
           crossing(ix) ==
             Y!Crossing(<<ix, 0>>, {Y!FirstFace(ix), Y!LastFace(ix)},
                        Y!FaceYCellM1(Y!LastFace(ix), ny, nx),
                        Y!FaceYCellP1(Y!FirstFace(ix), 0, nx), Y!FirstFace(ix))
           value(ix) == IF closed THEN Zero
                        ELSE Y!Computed("facey", <<ix, 0>>, CrossReadsY(a, crossing(ix)))
           v == [ix \in C |-> value(ix)]
           pairs(ix) == {<<FaceYAt(ix, 0, nx), v[ix]>>, <<FaceYAt(ix, ny, nx), v[ix]>>}
           stores == FluxOrder2YCornerFluxesBoundary(a)
<1>1. \A ix \in C : /\ FaceYAt(ix, 0, nx) = Y!FirstFace(ix)
                     /\ FaceYAt(ix, ny, nx) = Y!LastFace(ix)
  BY DEF FaceYAt, Y!FirstFace, Y!LastFace, WideGrid
<1>2. stores = UNION {pairs(ix) : ix \in C}
  <2>1. CASE closed
    <3>1. stores = UNION {{<<Y!FirstFace(ix), Zero>>, <<Y!LastFace(ix), Zero>>} : ix \in C}
      BY <2>1, SameGridY
         DEF FluxOrder2YCornerFluxesBoundary, FluxOrder2YCornerFluxesBoundaryWall,
             Y!ReconstructFluxOrder2YWallBoundary
    <3>2. \A ix \in C : pairs(ix) = {<<Y!FirstFace(ix), Zero>>, <<Y!LastFace(ix), Zero>>}
      BY <1>1, <2>1
    <3> QED BY <3>1, <3>2
  <2>2. CASE ~closed
    <3> DEFINE result(ix) == Y!Computed("facey", crossing(ix).at, CrossReadsY(a, crossing(ix)))
               two(ix) == {<<f, result(ix)>> : f \in crossing(ix).to}
    <3>1. stores = FluxesY(a, {crossing(ix) : ix \in C})
      BY <2>2, SameGridY
         DEF FluxOrder2YCornerFluxesBoundary, FluxOrder2YCornerFluxesPeriodicBoundary, Y!SeamFaces
    <3>2. \A ix : /\ crossing(ix).to = {Y!FirstFace(ix), Y!LastFace(ix)}
                  /\ crossing(ix).at = <<ix, 0>>
      BY DEF Y!Crossing
    <3> HIDE DEF crossing, C
    <3>3. FluxesY(a, {crossing(ix) : ix \in C}) = UNION {two(ix) : ix \in C}
      BY FluxesYAre
    <3>4. \A ix \in C : result(ix) = v[ix]
      BY <2>2, <3>2
    <3> HIDE DEF result, v
    <3>5. \A ix \in C : two(ix) = pairs(ix)
      BY <1>1, <3>2, <3>4
    <3> HIDE DEF two, pairs
    <3> QED BY <3>1, <3>3, <3>5
  <2> QED BY <2>1, <2>2
<1>3. \A ix \in C : IF closed THEN v[ix] = Zero ELSE v[ix] \in Borne(<<ix, 0>>)
  <2> TAKE ix \in C
  <2>1. Fold("facey", <<ix, 0>>) = <<ix, 0>>
    <3>1. <<ix, 0>> \in Places("facey")
      BY DEF Places, LastX, LastY, StaggeredX, StaggeredY, WideGrid
    <3> QED BY <3>1, FaceFold DEF FaceKinds, AtEnd, WallsOf, WideGrid
  <2> QED BY <2>1, SameStoresY DEF Results, Borne
<1> HIDE DEF v, stores, closed
<1>4. CompleteAs(closed, Stored(mem[a], stores), "facey")
  BY <1>2, <1>3, EdgeOfFacesY
<1> QED BY <1>4 DEF stores, closed

-----------------------------------------------------------------------------
\* The calls of the driver, one after another.
LEMMA DriverCalls ==
  /\ DOMAIN Driver = 1 .. 49 /\ Len(Driver) = 49
  /\ Driver[1] = Loop({"volume_fluxes_corner", "sign_x_corner_fluxes", "sign_y_corner_fluxes"})
  /\ Driver[2] = Loop({"volume_fluxes_x"})
  /\ Driver[3] = Loop({"volume_fluxes_y"})
  /\ Driver[4] = Loop({"lag_volume", "lag_density"})
  /\ Driver[5] = Loop({"density_gradient"})
  /\ Driver[6] = Loop({"density_gradient_y"})
  /\ Driver[7] = Loop({"density_gradient_diag", "density_gradient_antidiag"})
  /\ Driver[8] = Boundary({"density_gradient"})
  /\ Driver[9] = Boundary({"density_gradient_y"})
  /\ Driver[10] = Boundary({"density_gradient_diag", "density_gradient_antidiag"})
  /\ Driver[11] = Loop({"mass_flux_x", "reconstructed_density_faces_x"})
  /\ Driver[12] = Loop({"mass_flux_y", "reconstructed_density_faces_y"})
  /\ Driver[13] = Boundary({"mass_flux_x", "reconstructed_density_faces_x"})
  /\ Driver[14] = Boundary({"mass_flux_y", "reconstructed_density_faces_y"})
  /\ Driver[15] = Loop({"mass_corner_fluxes"})
  /\ Driver[16] = Boundary({"mass_corner_fluxes"})
  /\ Driver[17] = Loop({"out_mass"})
  /\ Driver[18] = Scatter("out_mass")
  /\ Driver[19] = Seam("out_mass")
  /\ Driver[20] = Loop({"energy_gradient"})
  /\ Driver[21] = Loop({"energy_gradient_y"})
  /\ Driver[22] = Boundary({"energy_gradient"})
  /\ Driver[23] = Boundary({"energy_gradient_y"})
  /\ Driver[24] = Loop({"energy_flux_x", "reconstructed_energy_faces_x"})
  /\ Driver[25] = Loop({"energy_flux_y", "reconstructed_energy_faces_y"})
  /\ Driver[26] = Boundary({"energy_flux_x", "reconstructed_energy_faces_x"})
  /\ Driver[27] = Boundary({"energy_flux_y", "reconstructed_energy_faces_y"})
  /\ Driver[28] = Loop({"energy_flux_corner"})
  /\ Driver[29] = Boundary({"energy_flux_corner"})
  /\ Driver[30] = Loop({"out_e"})
  /\ Driver[31] = Scatter("out_e")
  /\ Driver[32] = Seam("out_e")
  /\ Driver[33] = Loop({"gradient_u"})
  /\ Driver[34] = Loop({"gradient_u_y"})
  /\ Driver[35] = Boundary({"gradient_u"})
  /\ Driver[36] = Boundary({"gradient_u_y"})
  /\ Driver[37] = Loop({"out_u"})
  /\ Driver[38] = Boundary({"out_u"})
  /\ Driver[39] = Scatter("out_u")
  /\ Driver[40] = Seam("out_u")
  /\ Driver[41] = Loop({"gradient_v"})
  /\ Driver[42] = Loop({"gradient_v_y"})
  /\ Driver[43] = Boundary({"gradient_v"})
  /\ Driver[44] = Boundary({"gradient_v_y"})
  /\ Driver[45] = Loop({"out_v"})
  /\ Driver[46] = Boundary({"out_v"})
  /\ Driver[47] = Scatter("out_v")
  /\ Driver[48] = Seam("out_v")
  /\ Driver[49] = Loop({"out_rho"})
  BY DEF Driver, MassCalls, EnergyCalls, VelocityCalls

LEMMA CallFields ==
  /\ \A outs : /\ Loop(outs).part = "loop" /\ Loop(outs).outs = outs
               /\ Boundary(outs).part = "boundary" /\ Boundary(outs).outs = outs
  /\ \A a : /\ Scatter(a).part = "scatter" /\ Scatter(a).outs = {a}
            /\ Seam(a).part = "seam" /\ Seam(a).outs = {a}
  BY DEF Loop, Boundary, Scatter, Seam

\* What the calls are.
LEMMA CallParts ==
  ASSUME NEW n \in 1 .. 49
  PROVE  /\ Driver[n].part = "boundary" <=> n \in {8, 9, 10, 13, 14, 16, 22, 23, 26, 27, 29, 35, 36, 38, 43, 44, 46}
         /\ Driver[n].part = "scatter" <=> n \in {18, 31, 39, 47}
         /\ Driver[n].part = "seam" <=> n \in {19, 32, 40, 48}
         /\ Driver[n].part \in {"loop", "boundary", "scatter", "seam"}
<1>1. CASE n \in 1 .. 17
  BY <1>1, CallFields, DriverCalls
<1>2. CASE n \in 18 .. 32
  BY <1>2, CallFields, DriverCalls
<1>3. CASE n \in 33 .. 49
  BY <1>3, CallFields, DriverCalls
<1> QED BY <1>1, <1>2, <1>3

\* The calls that store into an array.
LEMMA StoringCalls ==
  ASSUME NEW n \in 1 .. 49
  PROVE  /\ "mass_flux_x" \in Driver[n].outs <=> n \in {11, 13}
         /\ "mass_flux_y" \in Driver[n].outs <=> n \in {12, 14}
         /\ "energy_flux_x" \in Driver[n].outs <=> n \in {24, 26}
         /\ "energy_flux_y" \in Driver[n].outs <=> n \in {25, 27}
         /\ "mass_corner_fluxes" \in Driver[n].outs <=> n \in {15, 16}
         /\ "energy_flux_corner" \in Driver[n].outs <=> n \in {28, 29}
         /\ "out_mass" \in Driver[n].outs <=> n \in {17, 18, 19}
         /\ "out_e" \in Driver[n].outs <=> n \in {30, 31, 32}
         /\ "out_u" \in Driver[n].outs <=> n \in {37, 38, 39, 40}
         /\ "out_v" \in Driver[n].outs <=> n \in {45, 46, 47, 48}
         /\ "predicted_u" \notin Driver[n].outs /\ "predicted_v" \notin Driver[n].outs
         /\ "u_lag" \notin Driver[n].outs /\ "v_lag" \notin Driver[n].outs
<1>1. CASE n \in 1 .. 17
  BY <1>1, CallFields, DriverCalls
<1>2. CASE n \in 18 .. 32
  BY <1>2, CallFields, DriverCalls
<1>3. CASE n \in 33 .. 49
  BY <1>3, CallFields, DriverCalls
<1> QED BY <1>1, <1>2, <1>3

\* The calls that give the nodal corner fluxes to the cells and to the dual cells.
LEMMA GivingCalls ==
  ASSUME NEW i \in 1 .. 49, Driver[i].part \in {"scatter", "seam"}
  PROVE  /\ "out_mass" \in Driver[i].outs => i \in {18, 18 + 1}
         /\ "out_e" \in Driver[i].outs => i \in {31, 31 + 1}
         /\ "out_u" \in Driver[i].outs => i \in {39, 39 + 1}
         /\ "out_v" \in Driver[i].outs => i \in {47, 47 + 1}
<1>1. i \in {18, 19, 31, 32, 39, 40, 47, 48}
  BY CallParts
<1>2. /\ "out_mass" \in Driver[i].outs => i \in {18, 19}
      /\ "out_e" \in Driver[i].outs => i \in {31, 32}
  BY <1>1, StoringCalls
<1>3. /\ "out_u" \in Driver[i].outs => i \in {39, 40}
      /\ "out_v" \in Driver[i].outs => i \in {47, 48}
  BY <1>1, StoringCalls
<1> QED BY <1>2, <1>3

LEMMA SameRows == Direct!CellRows = CellRows /\ Direct!NodeRows = NodeRows /\ Direct!Inner = Inner
  BY DEF Direct!CellRows, CellRows, Direct!NodeRows, NodeRows, Direct!Inner, Inner

\* The rows that a loop takes, as far as they matter here.
LEMMA RowsOfCalls ==
  /\ RowsFor(Driver, 11, Rows) = CellRows /\ RowsFor(Driver, 24, Rows) = CellRows
  /\ \A n \in {12, 25, 15, 28, 18, 31, 39, 47} : RowsFor(Driver, n, Rows) = Inner
  /\ \A n \in {19, 32, 40, 48} : RowsFor(Driver, n, Rows) = {}
<1>1. /\ Rows(Loop({"mass_flux_x", "reconstructed_density_faces_x"})) = CellRows
      /\ Rows(Loop({"energy_flux_x", "reconstructed_energy_faces_x"})) = CellRows
      /\ Rows(Loop({"mass_flux_y", "reconstructed_density_faces_y"})) = Inner
      /\ Rows(Loop({"energy_flux_y", "reconstructed_energy_faces_y"})) = Inner
      /\ Rows(Loop({"mass_corner_fluxes"})) = Inner /\ Rows(Loop({"energy_flux_corner"})) = Inner
      /\ \A a : Rows(Scatter(a)) = Inner /\ Rows(Seam(a)) = {}
  BY SameRows DEF Rows, Direct!Rows, Loop, Scatter, Seam, Diagonals, FluxArrays
<1> QED BY <1>1, DriverCalls DEF RowsFor

\* A step of the call that runs: which arrays it may store into, and what follows.
Step(outs) ==
  /\ pc \in 1 .. 49 /\ outs = Driver[pc].outs /\ Keeps(outs) /\ flow' = flow
  /\ \/ pc' = pc + 1 /\ todo' = RowsFor(Driver, pc + 1, Rows)
     \/ pc' = pc /\ todo' \subseteq todo

LEMMA ScatterStep ==
  ASSUME NEW a, Calls("scatter", a), NEW entries, NEW stores, Scattered(a, entries, stores),
         NEW iy \in todo, RowDone(iy, pc + 1, {})
  PROVE  Step(Driver[pc].outs)
<1>1. pc \in 1 .. 49 /\ Driver[pc].part = "scatter" /\ Driver[pc].outs = {a}
  BY DriverCalls DEF Calls
<1>2. RowsFor(Driver, pc + 1, Rows) = {}
  <2>1. pc \in {18, 31, 39, 47}
    BY <1>1, CallParts
  <2> QED BY <2>1, RowsOfCalls
<1>3. Keeps({a}) /\ flow' = flow
  BY StoredKeeps DEF Scattered, RowDone, Keeps, SameSize
<1> QED BY <1>1, <1>2, <1>3 DEF RowDone, Step

LEMMA SeamStep ==
  ASSUME NEW a, Calls("seam", a), NEW entries, NEW stores,
         Scattered(a, entries, stores) \/ UNCHANGED <<mem, flow, ledger>>, SeamReturns
  PROVE  Step(Driver[pc].outs)
<1>1. pc \in 1 .. 49 /\ Driver[pc].outs = {a}
  BY DriverCalls DEF Calls
<1>2. Keeps({a}) /\ flow' = flow
  BY StoredKeeps DEF Scattered, SeamReturns, Keeps, SameSize
<1> QED BY <1>1, <1>2 DEF SeamReturns, Step

LEMMA Steps == Next => \E outs : Step(outs)
<1> SUFFICES ASSUME Next PROVE Step(Driver[pc].outs)
  OBVIOUS
<1>1. DOMAIN Driver = 1 .. 49
  BY DriverCalls
<1>2. CASE Row
  BY <1>1, <1>2, StoredKeeps DEF Row, LoopRow, RowOf, RowDone, Step, Keeps, SameSize
<1>3. CASE Edge
  BY <1>1, <1>3, StoredKeeps DEF Edge, BoundaryCall, BoundaryOf, Step, Keeps, SameSize
<1>4. CASE ProjectCells
  <2>1. PICK a \in {"out_mass", "out_e"} : ProjectCellsCornerFluxes(a)
    BY <1>4 DEF ProjectCells
  <2> QED BY <2>1, ScatterStep DEF ProjectCellsCornerFluxes
<1>5. CASE ProjectNodes
  <2>1. PICK a \in {"out_u", "out_v"} : ProjectNodalIntensiveVariableCornerFluxes(a)
    BY <1>5 DEF ProjectNodes
  <2> QED BY <2>1, ScatterStep DEF ProjectNodalIntensiveVariableCornerFluxes
<1>6. CASE SeamCells
  <2>1. PICK a \in {"out_mass", "out_e"} : ProjectCellsCornerFluxesBoundary(a)
    BY <1>6 DEF SeamCells
  <2>2. PICK entries, stores : Scattered(a, entries, stores) \/ UNCHANGED <<mem, flow, ledger>>
    BY <2>1 DEF ProjectCellsCornerFluxesBoundary
  <2> QED BY <2>1, <2>2, SeamStep DEF ProjectCellsCornerFluxesBoundary
<1>7. CASE SeamNodes
  <2>1. PICK a \in {"out_u", "out_v"} : ProjectNodalIntensiveVariableCornerFluxesBoundary(a)
    BY <1>7 DEF SeamNodes
  <2>2. PICK entries, stores : Scattered(a, entries, stores) \/ UNCHANGED <<mem, flow, ledger>>
    BY <2>1 DEF ProjectNodalIntensiveVariableCornerFluxesBoundary
  <2> QED BY <2>1, <2>2, SeamStep DEF ProjectNodalIntensiveVariableCornerFluxesBoundary
<1> QED BY <1>2, <1>3, <1>4, <1>5, <1>6, <1>7 DEF Next

\* What a loop, and what a boundary kernel, does to an array that it stores.
LEMMA LoopSteps ==
  ASSUME Next, pc \in 1 .. 49, Driver[pc].part = "loop", NEW a \in Driver[pc].outs, a \in DOMAIN mem
  PROVE  \/ todo = {} /\ pc' = pc + 1 /\ mem'[a] = mem[a]
         \/ \E iy \in todo :
              /\ pc' = IF todo = {iy} THEN pc + 1 ELSE pc
              /\ todo # {iy} => todo' = todo \ {iy}
              /\ mem'[a] = Stored(mem[a], LoopStores(a, iy))
<1>1. /\ \A b : ~Calls("scatter", b) /\ ~Calls("seam", b)
      /\ ~Edge
  BY DEF Calls, Edge, BoundaryCall
<1>2. Row
  BY <1>1 DEF Next, ProjectCells, ProjectNodes, SeamCells, SeamNodes, ProjectCellsCornerFluxes,
              ProjectNodalIntensiveVariableCornerFluxes, ProjectCellsCornerFluxesBoundary,
              ProjectNodalIntensiveVariableCornerFluxesBoundary
<1> QED BY <1>2 DEF Row, LoopRow, RowOf, RowDone

LEMMA EdgeSteps ==
  ASSUME Next, pc \in 1 .. 49, Driver[pc].part = "boundary", NEW a \in Driver[pc].outs, a \in DOMAIN mem
  PROVE  pc' = pc + 1 /\ mem'[a] = Stored(mem[a], BoundaryStores(a))
<1>1. /\ \A b : ~Calls("scatter", b) /\ ~Calls("seam", b)
      /\ ~Row
  BY DEF Calls, Row, LoopRow
<1>2. Edge
  BY <1>1 DEF Next, ProjectCells, ProjectNodes, SeamCells, SeamNodes, ProjectCellsCornerFluxes,
              ProjectNodalIntensiveVariableCornerFluxes, ProjectCellsCornerFluxesBoundary,
              ProjectNodalIntensiveVariableCornerFluxesBoundary
<1> QED BY <1>2 DEF Edge, BoundaryCall, BoundaryOf
-----------------------------------------------------------------------------
\* The frame of the inductive invariants: the arrays have the sizes of their kinds.
SizesInv ==
  /\ WideGrid /\ pc \in 1 .. 50
  /\ DOMAIN mem = Arrays /\ \A a \in Arrays : DOMAIN mem[a] = 0 .. Size(KindOf(a)) - 1

LEMMA SizesInitially == Init => SizesInv
<1> SUFFICES ASSUME Init PROVE SizesInv
  OBVIOUS
<1>1. WideGrid
  <2>1. PICK s \in Shapes : nx = s[1] /\ ny = s[2]
    BY DEF Init, GridInit
  <2> QED BY <2>1, ShapesAssumption DEF WideGrid
<1>2. X!Zeroed \subseteq Arrays
  BY DEF X!Zeroed, Arrays, Inputs, Outputs, X!Outputs, Scratch, X!Scratch
<1>3. DOMAIN mem = Arrays
  BY <1>2 DEF Init, GridInit, Arrays
<1>4. \A a \in Arrays : DOMAIN mem[a] = 0 .. Size(KindOf(a)) - 1
  <2> TAKE a \in Arrays
  <2>1. DOMAIN Filled(a) = 0 .. Size(KindOf(a)) - 1
    BY DEF Filled
  <2> QED BY <1>2, <2>1 DEF Init, GridInit, Arrays
<1> QED BY <1>1, <1>3, <1>4 DEF Init, SizesInv

LEMMA SameArrays == Arrays' = Arrays
  BY DEF Arrays, Inputs, X!Inputs, Y!Inputs, Scratch, X!Scratch, Y!Scratch, Outputs, X!Outputs,
         FluxArrays, Diagonals, Faces, X!Zeroed

LEMMA SizesNext == SizesInv /\ [Next]_allvars => SizesInv'
<1> SUFFICES ASSUME SizesInv, [Next]_allvars PROVE SizesInv'
  OBVIOUS
<1>1. CASE UNCHANGED allvars
  <2>1. SameSize /\ UNCHANGED <<mem, pc>>
    BY <1>1 DEF allvars, vars, SameSize
  <2>2. WideGrid' /\ \A k : Size(k)' = Size(k)
    BY <2>1, SameGridNext DEF SameSize, SizesInv
  <2> QED BY <2>1, <2>2, SameArrays DEF SizesInv
<1>2. CASE Next
  <2>1. PICK outs : Step(outs)
    BY <1>2, Steps
  <2>2. SameSize /\ Keeps(outs) /\ pc \in 1 .. 49 /\ (pc' = pc \/ pc' = pc + 1)
    BY <2>1 DEF Step, Keeps
  <2>3. WideGrid' /\ \A k : Size(k)' = Size(k)
    BY <2>2, SameGridNext DEF SameSize, SizesInv
  <2>4. pc' \in 1 .. 50
    BY <2>2
  <2> QED BY <2>2, <2>3, <2>4, SameArrays DEF Keeps, SizesInv
<1> QED BY <1>1, <1>2
-----------------------------------------------------------------------------
\* The fluxes through the faces.  An array that its loop and its boundary kernel have filled
\* is complete; these kernels take every other name of boundary condition for periodic.
Whole(a) == CompleteAs(BoundaryConditions = "Wall", mem[a], KindOf(a))

\* The stages of an array of fluxes that the loop n and the boundary kernel b fill; it is
\* needed until call last.
CrossStage(a, n, b, last) ==
  /\ FluxStage(a, n, n + 1 .. b, {})
  /\ pc \in b + 1 .. last => Whole(a)

LEMMA WholeNext ==
  ASSUME SameSize, NEW a
  PROVE  Whole(a)' <=> CompleteAs(BoundaryConditions = "Wall", mem'[a], KindOf(a))
<1>1. /\ \A k, p : At(k, p)' = At(k, p)
      /\ \A k : Places(k)' = Places(k)
  BY SameGridNext DEF SameSize
<1>2. \A closed, k, p : Base(closed, k, p)' = Base(closed, k, p) /\ AtEnd(k, p)' = AtEnd(k, p)
  BY DEF Base, AtEnd, SameSize
<1> QED BY <1>1, <1>2 DEF Whole, CompleteAs, FluxAs, SameSize

LEMMA CrossKernels ==
  ASSUME SizesInv, NEW a \in FacesX \cup FacesY
  PROVE  /\ a \in DOMAIN mem
         /\ \A iy \in FaceRows(KindOf(a)) : \A rows :
              FluxesOn(mem[a], KindOf(a), FacesOf(KindOf(a), rows)) =>
              FluxesOn(Stored(mem[a], LoopStores(a, iy)), KindOf(a), FacesOf(KindOf(a), rows \cup {iy}))
         /\ FluxesOn(mem[a], KindOf(a), FacesOf(KindOf(a), FaceRows(KindOf(a)))) =>
              CompleteAs(BoundaryConditions = "Wall", Stored(mem[a], BoundaryStores(a)), KindOf(a))
<1>1. FacesX \cup FacesY \subseteq Arrays
  BY DEF FacesX, FacesY, Arrays, Scratch, X!Scratch, Y!Scratch
<1>2. a \in DOMAIN mem /\ WideGrid /\ DOMAIN mem[a] = 0 .. Size(KindOf(a)) - 1
  BY <1>1 DEF SizesInv
<1>3. CASE a \in FacesX
  <2>1. KindOf(a) = "facex" /\ FaceRows("facex") = CellRows
    BY <1>3, FaceKindsOf DEF FaceRows
  <2>2. /\ \A iy : LoopStores(a, iy) = FluxOrder2XCornerFluxes(a, iy)
        /\ BoundaryStores(a) = FluxOrder2XCornerFluxesBoundary(a)
    <3>1. CASE a = "mass_flux_x"
      BY <3>1 DEF LoopStores, BoundaryStores, Diagonals, FluxArrays
    <3>2. CASE a = "energy_flux_x"
      BY <3>2 DEF LoopStores, BoundaryStores, Diagonals, FluxArrays
    <3> QED BY <1>3, <3>1, <3>2 DEF FacesX
  <2>3. DOMAIN mem[a] = 0 .. Size("facex") - 1
    BY <1>2, <2>1
  <2>4. ASSUME NEW iy \in CellRows, NEW rows, FluxesOn(mem[a], "facex", FacesOf("facex", rows))
        PROVE  FluxesOn(Stored(mem[a], LoopStores(a, iy)), "facex", FacesOf("facex", rows \cup {iy}))
    BY <1>2, <1>3, <2>2, <2>3, <2>4, CrossRowX
  <2>5. FluxesOn(mem[a], "facex", FacesOf("facex", CellRows)) =>
          CompleteAs(BoundaryConditions = "Wall", Stored(mem[a], BoundaryStores(a)), "facex")
    BY <1>2, <1>3, <2>2, <2>3, CrossEdgeX
  <2> QED BY <1>2, <2>1, <2>4, <2>5
<1>4. CASE a \in FacesY
  <2>1. KindOf(a) = "facey" /\ FaceRows("facey") = Inner
    BY <1>4, FaceKindsOf DEF FaceRows
  <2>2. /\ \A iy : LoopStores(a, iy) = FluxOrder2YCornerFluxes(a, iy)
        /\ BoundaryStores(a) = FluxOrder2YCornerFluxesBoundary(a)
    <3>1. CASE a = "mass_flux_y"
      BY <3>1 DEF LoopStores, BoundaryStores, Diagonals, FluxArrays
    <3>2. CASE a = "energy_flux_y"
      BY <3>2 DEF LoopStores, BoundaryStores, Diagonals, FluxArrays
    <3> QED BY <1>4, <3>1, <3>2 DEF FacesY
  <2>3. DOMAIN mem[a] = 0 .. Size("facey") - 1
    BY <1>2, <2>1
  <2>4. ASSUME NEW iy \in Inner, NEW rows, FluxesOn(mem[a], "facey", FacesOf("facey", rows))
        PROVE  FluxesOn(Stored(mem[a], LoopStores(a, iy)), "facey", FacesOf("facey", rows \cup {iy}))
    BY <1>2, <1>4, <2>2, <2>3, <2>4, CrossRowY
  <2>5. FluxesOn(mem[a], "facey", FacesOf("facey", Inner)) =>
          CompleteAs(BoundaryConditions = "Wall", Stored(mem[a], BoundaryStores(a)), "facey")
    BY <1>2, <1>4, <2>2, <2>3, CrossEdgeY
  <2> QED BY <1>2, <2>1, <2>4, <2>5
<1> QED BY <1>3, <1>4

LEMMA CrossStageKept ==
  ASSUME SizesInv, Next, NEW a \in FacesX \cup FacesY,
         NEW n \in 1 .. 49, NEW b \in 1 .. 49, NEW last \in Int, n < b,
         \A i \in 1 .. 49 : a \in Driver[i].outs <=> i \in {n, b},
         Driver[n].part = "loop", Driver[b].part = "boundary",
         RowsFor(Driver, n, Rows) = FaceRows(KindOf(a)),
         CrossStage(a, n, b, last)
  PROVE  CrossStage(a, n, b, last)'
<1> DEFINE edges == n + 1 .. b
           k == KindOf(a)
<1>1. PICK outs : Step(outs)
  BY Steps
<1>2. /\ SameSize /\ pc \in 1 .. 49 /\ a \in DOMAIN mem
      /\ a \notin Driver[pc].outs => mem'[a] = mem[a]
  BY <1>1, CrossKernels DEF Step, Keeps
<1>3. \A i \in Int : i \in edges <=> n < i /\ i <= b
  OBVIOUS
<1>4. FluxStage(a, n, edges, {}) /\ (pc \in b + 1 .. last => Whole(a))
  BY DEF CrossStage
<1> SUFFICES FluxStage(a, n, edges, {})' /\ (pc' \in b + 1 .. last => Whole(a)')
  BY DEF CrossStage
<1>5. CASE pc = n
  <2>1. n + 1 # n /\ n + 1 \in edges /\ n \notin edges /\ pc' \in {n, n + 1}
    BY <1>1, <1>3, <1>5 DEF Step
  <2>2. FluxLoop(a, n, n + 1)
    <3> HIDE DEF k
    <3>1. \A iy \in FaceRows(KindOf(a)) : \A rows :
              FluxesOn(mem[a], KindOf(a), FacesOf(KindOf(a), rows)) =>
              FluxesOn(Stored(mem[a], LoopStores(a, iy)), KindOf(a), FacesOf(KindOf(a), rows \cup {iy}))
      BY CrossKernels
    <3>2. \/ todo = {} /\ pc' = n + 1 /\ mem'[a] = mem[a]
          \/ \E iy \in todo :
              /\ pc' = IF todo = {iy} THEN n + 1 ELSE n
              /\ todo # {iy} => todo' = todo \ {iy}
              /\ mem'[a] = Stored(mem[a], LoopStores(a, iy))
      BY <1>2, <1>5, LoopSteps
    <3>3. CASE todo = {} /\ pc' = n + 1 /\ mem'[a] = mem[a]
      BY <1>5, <3>3 DEF FluxLoop
    <3>4. CASE ~(todo = {} /\ pc' = n + 1 /\ mem'[a] = mem[a])
      <4>1. PICK iy \in todo : /\ pc' = IF todo = {iy} THEN n + 1 ELSE n
                               /\ todo # {iy} => todo' = todo \ {iy}
                               /\ mem'[a] = Stored(mem[a], LoopStores(a, iy))
        BY <3>2, <3>4
      <4>2. iy \in FaceRows(KindOf(a)) =>
              \A rows : FluxesOn(mem[a], KindOf(a), FacesOf(KindOf(a), rows)) =>
                        FluxesOn(mem'[a], KindOf(a), FacesOf(KindOf(a), rows \cup {iy}))
        BY <3>1, <4>1
      <4> QED BY <1>5, <2>1, <4>1, <4>2 DEF FluxLoop
    <3> QED BY <3>3, <3>4
  <2>3. FluxStage(a, n, edges, {})'
    <3> HIDE DEF edges
    <3>1. n \notin {} /\ n + 1 \notin {}
      OBVIOUS
    <3> QED BY <1>2, <1>4, <2>1, <2>2, <3>1, StageLoop
  <2>4. pc' \notin b + 1 .. last
    BY <2>1
  <2> QED BY <2>3, <2>4
<1>6. CASE pc = b
  <2>1. pc' = b + 1 /\ mem'[a] = Stored(mem[a], BoundaryStores(a))
    BY <1>2, <1>6, EdgeSteps
  <2>2. FluxesOn(mem[a], k, FacesOf(k, FaceRows(k)))
    <3>1. b \in edges
      BY <1>3
    <3> QED BY <1>4, <1>6, <3>1, RowsTogether DEF FluxStage, RowGiven
  <2>3. Whole(a)'
    BY <1>2, <2>1, <2>2, CrossKernels, WholeNext
  <2>4. b + 1 # n /\ b + 1 \notin edges
    BY <1>3
  <2> HIDE DEF edges
  <2> QED BY <2>1, <2>3, <2>4 DEF FluxStage
<1>7. CASE pc \notin {n, b}
  <2>1. mem'[a] = mem[a]
    BY <1>2, <1>7
  <2>2. \/ pc' = pc + 1 /\ todo' = RowsFor(Driver, pc + 1, Rows)
        \/ pc' = pc
    BY <1>1 DEF Step
  <2>3. pc' = n => pc # n /\ todo' = FaceRows(KindOf(a))
    <3>1. pc' = n => pc + 1 = n
      BY <1>7, <2>2
    <3> QED BY <1>7, <2>2, <3>1
  <2>4. (pc' \in edges => pc \in edges) /\ (pc' \in b + 1 .. last => pc \in b + 1 .. last)
    BY <1>2, <1>3, <1>7, <2>2
  <2>5. Whole(a)' <=> Whole(a)
    BY <1>2, <2>1, WholeNext DEF Whole
  <2>6. FluxStage(a, n, edges, {})'
    <3> HIDE DEF edges
    <3>1. pc' \in {} => pc \in {}
      OBVIOUS
    <3> QED BY <1>2, <1>4, <2>1, <2>3, <2>4, <3>1, StageAside
  <2> QED BY <1>4, <2>4, <2>5, <2>6
<1> QED BY <1>5, <1>6, <1>7

CrossFluxes ==
  /\ CrossStage("mass_flux_x", 11, 13, 17)   /\ CrossStage("mass_flux_y", 12, 14, 17)
  /\ CrossStage("energy_flux_x", 24, 26, 30) /\ CrossStage("energy_flux_y", 25, 27, 30)

LEMMA CrossFluxesInitially == Init => CrossFluxes
  BY DEF Init, CrossFluxes, CrossStage, FluxStage

LEMMA CrossFluxesNext == SizesInv /\ CrossFluxes /\ [Next]_allvars => CrossFluxes'
<1> SUFFICES ASSUME SizesInv, CrossFluxes, [Next]_allvars PROVE CrossFluxes'
  OBVIOUS
<1>1. CASE UNCHANGED allvars
  <2>1. SameSize /\ UNCHANGED <<mem, pc, todo>>
    BY <1>1 DEF allvars, vars, SameSize
  <2>2. \A f, n, b, last : CrossStage(f, n, b, last) => CrossStage(f, n, b, last)'
    <3> TAKE f, n, b, last
    <3>1. /\ FaceRows(KindOf(f))' = FaceRows(KindOf(f))
          /\ \A iy : RowGiven(f, iy)' <=> RowGiven(f, iy)
          /\ Whole(f)' <=> Whole(f)
      BY <2>1, SameFacesNext, WholeNext DEF RowGiven, Whole
    <3> QED BY <2>1, <3>1 DEF FluxStage, CrossStage
  <2> QED BY <2>2 DEF CrossFluxes
<1>2. CASE Next
  <2>1. /\ {"mass_flux_x", "energy_flux_x"} \subseteq FacesX \cup FacesY
        /\ {"mass_flux_y", "energy_flux_y"} \subseteq FacesX \cup FacesY
        /\ FaceRows(KindOf("mass_flux_x")) = CellRows /\ FaceRows(KindOf("energy_flux_x")) = CellRows
        /\ FaceRows(KindOf("mass_flux_y")) = Inner /\ FaceRows(KindOf("energy_flux_y")) = Inner
    BY FaceKindsOf DEF FacesX, FacesY, FaceRows
  <2>2. /\ \A n \in {11, 12, 24, 25} : n \in 1 .. 49 /\ Driver[n].part = "loop"
        /\ \A b \in {13, 14, 26, 27} : b \in 1 .. 49 /\ Driver[b].part = "boundary"
    BY CallFields, DriverCalls
  <2>3. CrossStage("mass_flux_x", 11, 13, 17)'
    <3>1. \A i \in 1 .. 49 : "mass_flux_x" \in Driver[i].outs <=> i \in {11, 13}
      BY StoringCalls
    <3>2. CrossStage("mass_flux_x", 11, 13, 17) /\ 17 \in Int /\ 11 < 13
      BY DEF CrossFluxes
    <3> QED BY <1>2, <2>1, <2>2, <3>1, <3>2, RowsOfCalls, CrossStageKept, ZenonT(40)
  <2>4. CrossStage("mass_flux_y", 12, 14, 17)'
    <3>1. \A i \in 1 .. 49 : "mass_flux_y" \in Driver[i].outs <=> i \in {12, 14}
      BY StoringCalls
    <3>2. CrossStage("mass_flux_y", 12, 14, 17) /\ 17 \in Int /\ 12 < 14
      BY DEF CrossFluxes
    <3> QED BY <1>2, <2>1, <2>2, <3>1, <3>2, RowsOfCalls, CrossStageKept, ZenonT(40)
  <2>5. CrossStage("energy_flux_x", 24, 26, 30)'
    <3>1. \A i \in 1 .. 49 : "energy_flux_x" \in Driver[i].outs <=> i \in {24, 26}
      BY StoringCalls
    <3>2. CrossStage("energy_flux_x", 24, 26, 30) /\ 30 \in Int /\ 24 < 26
      BY DEF CrossFluxes
    <3> QED BY <1>2, <2>1, <2>2, <3>1, <3>2, RowsOfCalls, CrossStageKept, ZenonT(40)
  <2>6. CrossStage("energy_flux_y", 25, 27, 30)'
    <3>1. \A i \in 1 .. 49 : "energy_flux_y" \in Driver[i].outs <=> i \in {25, 27}
      BY StoringCalls
    <3>2. CrossStage("energy_flux_y", 25, 27, 30) /\ 30 \in Int /\ 25 < 27
      BY DEF CrossFluxes
    <3> QED BY <1>2, <2>1, <2>2, <3>1, <3>2, RowsOfCalls, CrossStageKept, ZenonT(40)
  <2> QED BY <2>3, <2>4, <2>5, <2>6 DEF CrossFluxes
<1> QED BY <1>1, <1>2

\* When a balance over the faces begins, in ProjectMass or MassProjectIntensiveVariable of
\* the direct projection, the fluxes it reads conserve what they carry: what the kernels of
\* kernel_direct_projection_corner_fluxes_2d.c have stored enters a cell and leaves exactly
\* one other, or is 0.
THEOREM FaceFluxesAlwaysCross == Spec => []FaceFluxesCross
<1>1. Init => SizesInv /\ CrossFluxes
  BY SizesInitially, CrossFluxesInitially
<1>2. (SizesInv /\ CrossFluxes) /\ [Next]_allvars => (SizesInv /\ CrossFluxes)'
  BY SizesNext, CrossFluxesNext
<1>3. SizesInv /\ CrossFluxes => FaceFluxesCross
  <2> SUFFICES ASSUME SizesInv, CrossFluxes PROVE FaceFluxesCross
    OBVIOUS
  <2>1. /\ Calls("loop", "out_mass") => pc = 17
        /\ Calls("loop", "out_e") => pc = 30
    BY CallParts, StoringCalls, DriverCalls DEF Calls
  <2>2. /\ pc = 17 => Whole("mass_flux_x") /\ Whole("mass_flux_y")
        /\ pc = 30 => Whole("energy_flux_x") /\ Whole("energy_flux_y")
    BY DEF CrossFluxes, CrossStage
  <2>3. /\ \A a \in FacesX : a \in DOMAIN mem /\ DOMAIN mem[a] = 0 .. Size("facex") - 1
        /\ \A a \in FacesY : a \in DOMAIN mem /\ DOMAIN mem[a] = 0 .. Size("facey") - 1
        /\ \A a \in FacesY : a # "lag_density_y"
    BY CrossKernels, FaceKindsOf DEF SizesInv, FacesY
  <2>4. \A a \in FacesX : Whole(a) => X!Conserves(a)
    BY <2>3, FaceKindsOf, CompleteConservesX DEF Whole, SizesInv
  <2>5. \A a \in FacesY : Whole(a) => Y!Conserves(a)
    BY <2>3, FaceKindsOf, CompleteConservesY DEF Whole, SizesInv
  <2> QED BY <2>1, <2>2, <2>4, <2>5 DEF FaceFluxesCross, FacesX, FacesY
<1> QED BY <1>1, <1>2, <1>3, PTL DEF Spec
-----------------------------------------------------------------------------
\* The corners.  A node is seen at the place of which it is the twin, around both seams; the
\* corner of a place is the one that the kernels have for it.
Origins == (0 .. nx - 1) \X (0 .. ny - 1)
InnerOrigins(rows) == (1 .. nx - 1) \X rows
EdgeOrigins == {p \in Origins : p[1] = 0 \/ p[2] = 0}

Wrapped(q) == <<IF q[1] = nx THEN 0 ELSE q[1], IF q[2] = ny THEN 0 ELSE q[2]>>

CornerAt(p) ==
  LET n   == NodeAt(p[1], p[2], nx)
      sym == NodeAt(p[1], ny, nx)
  IN IF p = <<0, 0>> THEN SeamCorner
     ELSE IF p[1] = 0 THEN Corner(p, {n, n + nx}, n, CellsAround(n + nx, n, n + nx, n, p[2], p[2]), p[2] - 1, p[2])
     ELSE IF p[2] = 0 THEN Corner(p, {n, sym}, n, CellsAround(sym, sym, n, n, ny, 0), ny - 1, 0)
     ELSE Corner(p, {n}, n, CellsAround(n, n, n, n, p[2], p[2]), p[2] - 1, p[2])

LEMMA OriginsAre ==
  ASSUME WideGrid, NEW p \in Origins
  PROVE  /\ p = <<p[1], p[2]>> /\ p[1] \in 0 .. nx - 1 /\ p[2] \in 0 .. ny - 1
         /\ p[1] \in Int /\ p[2] \in Int
         /\ p \in Places("node") /\ Wrapped(p) = p /\ Fold("node", p) = p
         /\ At("node", p) = NodeAt(p[1], p[2], nx)
<1>1. p = <<p[1], p[2]>> /\ p[1] \in 0 .. nx - 1 /\ p[2] \in 0 .. ny - 1 /\ p[1] \in Int /\ p[2] \in Int
  BY DEF Origins
<1>2. p \in Places("node") /\ Wrapped(p) = p
  BY <1>1 DEF Places, LastX, LastY, StaggeredX, StaggeredY, Wrapped, WideGrid
<1>3. /\ Folded(p[1], nx, WallsX, StaggeredX("node")) = p[1]
      /\ Folded(p[2], ny, WallsY, StaggeredY("node")) = p[2]
  BY <1>1, FoldedXNear, FoldedYNear
<1>4. Fold("node", p) = p
  BY <1>1, <1>3 DEF Fold
<1>5. At("node", p) = NodeAt(p[1], p[2], nx)
  BY DEF At, StaggeredX
<1> QED BY <1>1, <1>2, <1>4, <1>5

LEMMA InnerAreOrigins ==
  ASSUME WideGrid, NEW rows \in SUBSET Inner
  PROVE  InnerOrigins(rows) \subseteq Origins \ EdgeOrigins
<1> SUFFICES ASSUME NEW x \in 1 .. nx - 1, NEW y \in rows PROVE <<x, y>> \in Origins \ EdgeOrigins
  BY DEF InnerOrigins
<1>1. y \in 1 .. ny - 1
  BY DEF Inner
<1> QED BY <1>1 DEF Origins, EdgeOrigins, WideGrid

\* The corners of a row, and those on the seams, are of these places.
LEMMA InnerCornersAre ==
  ASSUME WideGrid, NEW iy \in Inner
  PROVE  InnerCorners(iy) = {CornerAt(p) : p \in InnerOrigins({iy})}
<1> DEFINE corner(ix) ==
             LET n == NodeAt(ix, iy, nx)
             IN Corner(<<ix, iy>>, {n}, n, CellsAround(n, n, n, n, iy, iy), iy - 1, iy)
<1>1. InnerCorners(iy) = {corner(ix) : ix \in 1 .. nx - 1}
  BY DEF InnerCorners
<1>2. \A ix \in 1 .. nx - 1 : CornerAt(<<ix, iy>>) = corner(ix)
  BY DEF CornerAt, Inner, WideGrid
<1>3. /\ \A p \in InnerOrigins({iy}) : p[1] \in 1 .. nx - 1 /\ p = <<p[1], iy>>
      /\ \A ix \in 1 .. nx - 1 : <<ix, iy>> \in InnerOrigins({iy})
  BY DEF InnerOrigins
<1> HIDE DEF corner
<1> QED BY <1>1, <1>2, <1>3

LEMMA SeamCornersAre ==
  ASSUME WideGrid
  PROVE  SeamCorners = {CornerAt(p) : p \in EdgeOrigins}
<1> DEFINE side(iy) ==
             LET n == NodeAt(0, iy, nx)
                 sym == n + nx
             IN Corner(<<0, iy>>, {n, sym}, n, CellsAround(sym, n, sym, n, iy, iy), iy - 1, iy)
           end(ix) ==
             LET n == NodeAt(ix, 0, nx)
                 sym == NodeAt(ix, ny, nx)
             IN Corner(<<ix, 0>>, {n, sym}, n, CellsAround(sym, sym, n, n, ny, 0), ny - 1, 0)
<1>1. SeamSides = {side(iy) : iy \in Inner} /\ SeamEnds = {end(ix) : ix \in 1 .. nx - 1}
  BY DEF SeamSides, SeamEnds
<1>2. \A iy \in Inner : CornerAt(<<0, iy>>) = side(iy)
  BY DEF CornerAt, Inner, WideGrid
<1>3. \A ix \in 1 .. nx - 1 : CornerAt(<<ix, 0>>) = end(ix)
  BY DEF CornerAt, WideGrid
<1>4. CornerAt(<<0, 0>>) = SeamCorner
  BY DEF CornerAt
<1>5. /\ \A p \in EdgeOrigins : \/ p = <<0, 0>>
                                \/ \E iy \in Inner : p = <<0, iy>>
                                \/ \E ix \in 1 .. nx - 1 : p = <<ix, 0>>
      /\ <<0, 0>> \in EdgeOrigins
      /\ \A iy \in Inner : <<0, iy>> \in EdgeOrigins
      /\ \A ix \in 1 .. nx - 1 : <<ix, 0>> \in EdgeOrigins
  BY DEF EdgeOrigins, Origins, Inner, WideGrid
<1> HIDE DEF side, end
<1>6. \A s : s \in SeamCorners <=> \/ s = SeamCorner
                                   \/ \E iy \in Inner : s = side(iy)
                                   \/ \E ix \in 1 .. nx - 1 : s = end(ix)
  BY <1>1 DEF SeamCorners
<1>7. \A s : s \in {CornerAt(p) : p \in EdgeOrigins} => s \in SeamCorners
  <2> SUFFICES ASSUME NEW p \in EdgeOrigins PROVE CornerAt(p) \in SeamCorners
    OBVIOUS
  <2>1. CASE p = <<0, 0>>
    BY <2>1, <1>4, <1>6
  <2>2. ASSUME NEW iy \in Inner, p = <<0, iy>> PROVE CornerAt(p) \in SeamCorners
    BY <2>2, <1>2, <1>6
  <2>3. ASSUME NEW ix \in 1 .. nx - 1, p = <<ix, 0>> PROVE CornerAt(p) \in SeamCorners
    BY <2>3, <1>3, <1>6
  <2> QED BY <2>1, <2>2, <2>3, <1>5
<1>8. \A s \in SeamCorners : s \in {CornerAt(p) : p \in EdgeOrigins}
  <2> TAKE s \in SeamCorners
  <2>1. CASE s = SeamCorner
    BY <2>1, <1>4, <1>5
  <2>2. ASSUME NEW iy \in Inner, s = side(iy)
        PROVE  s \in {CornerAt(p) : p \in EdgeOrigins}
    <3>1. <<0, iy>> \in EdgeOrigins /\ s = CornerAt(<<0, iy>>)
      BY <2>2, <1>2, <1>5
    <3> QED BY <3>1
  <2>3. ASSUME NEW ix \in 1 .. nx - 1, s = end(ix)
        PROVE  s \in {CornerAt(p) : p \in EdgeOrigins}
    <3>1. <<ix, 0>> \in EdgeOrigins /\ s = CornerAt(<<ix, 0>>)
      BY <2>3, <1>3, <1>5
    <3> QED BY <3>1
  <2> QED BY <2>1, <2>2, <2>3, <1>6
<1> QED BY <1>7, <1>8

\* The cells around a place, around both seams where it is on them.
Before(z, n) == IF z = 0 THEN n - 1 ELSE z - 1

LEMMA QuarterPlaces ==
  ASSUME WideGrid, NEW x \in 0 .. nx - 1, NEW y \in 0 .. ny - 1, x = 0 => ~WallsX, y = 0 => ~WallsY
  PROVE  /\ QuarterPlace(<<x, y>>, 1) = <<Before(x, nx), Before(y, ny)>>
         /\ QuarterPlace(<<x, y>>, 2) = <<x, Before(y, ny)>>
         /\ QuarterPlace(<<x, y>>, 3) = <<Before(x, nx), y>>
         /\ QuarterPlace(<<x, y>>, 4) = <<x, y>>
<1> DEFINE foldx(z) == Folded(z, nx, WallsX, StaggeredX("cell"))
           foldy(z) == Folded(z, ny, WallsY, StaggeredY("cell"))
<1>0. ~StaggeredX("cell") /\ ~StaggeredY("cell") /\ "cell" # "position"
  BY DEF StaggeredX, StaggeredY
<1>1. foldx(x + 0) = x /\ foldy(y + 0) = y
  <2>1. x + 0 = x /\ y + 0 = y
    OBVIOUS
  <2> QED BY <2>1, FoldedXNear, FoldedYNear
<1>2. foldx(x + -1) = Before(x, nx)
  <2>1. CASE x = 0
    <3>1. x + -1 \in Int /\ (x + -1) + 1 = 0
      BY <2>1
    <3>2. foldx(x + -1) = nx - 1
      BY <1>0, <2>1, <3>1, FoldedXNear
    <3> QED BY <2>1, <3>2 DEF Before
  <2>2. CASE x # 0
    <3>1. x + -1 \in 0 .. nx - 1 /\ x + -1 = x - 1 /\ x + -1 \in Int
      BY <2>2 DEF WideGrid
    <3>2. foldx(x + -1) = x + -1
      BY <3>1, FoldedXNear
    <3> QED BY <2>2, <3>1, <3>2 DEF Before
  <2> QED BY <2>1, <2>2
<1>3. foldy(y + -1) = Before(y, ny)
  <2>1. CASE y = 0
    <3>1. y + -1 \in Int /\ (y + -1) + 1 = 0
      BY <2>1
    <3>2. foldy(y + -1) = ny - 1
      BY <1>0, <2>1, <3>1, FoldedYNear
    <3> QED BY <2>1, <3>2 DEF Before
  <2>2. CASE y # 0
    <3>1. y + -1 \in 0 .. ny - 1 /\ y + -1 = y - 1 /\ y + -1 \in Int
      BY <2>2 DEF WideGrid
    <3>2. foldy(y + -1) = y + -1
      BY <3>1, FoldedYNear
    <3> QED BY <2>2, <3>1, <3>2 DEF Before
  <2> QED BY <2>1, <2>2
<1>4. \A dx, dy : Fold("cell", <<x + dx, y + dy>>) = <<foldx(x + dx), foldy(y + dy)>>
  BY <1>0 DEF Fold
<1> HIDE DEF foldx, foldy
<1>5. \A k : QuarterPlace(<<x, y>>, k) = <<foldx(x + Quarter[k][1]), foldy(y + Quarter[k][2])>>
  BY <1>4 DEF QuarterPlace
<1>6. /\ Quarter[1][1] = -1 /\ Quarter[1][2] = -1 /\ Quarter[2][1] = 0 /\ Quarter[2][2] = -1
      /\ Quarter[3][1] = -1 /\ Quarter[3][2] = 0 /\ Quarter[4][1] = 0 /\ Quarter[4][2] = 0
  BY DEF Quarter
<1> QED BY <1>1, <1>2, <1>3, <1>5, <1>6

LEMMA QuarterCells ==
  ASSUME WideGrid, NEW x \in 0 .. nx - 1, NEW y \in 0 .. ny - 1, x = 0 => ~WallsX, y = 0 => ~WallsY
  PROVE  /\ QuarterCell(<<x, y>>, 1) = CellAt(Before(x, nx), Before(y, ny), nx)
         /\ QuarterCell(<<x, y>>, 2) = CellAt(x, Before(y, ny), nx)
         /\ QuarterCell(<<x, y>>, 3) = CellAt(Before(x, nx), y, nx)
         /\ QuarterCell(<<x, y>>, 4) = CellAt(x, y, nx)
<1>1. \A c, d : At("cell", <<c, d>>) = CellAt(c, d, nx)
  BY DEF At, StaggeredX
<1> QED BY <1>1, QuarterPlaces DEF QuarterCell

LEMMA FourCells ==
  ASSUME WideGrid, NEW x1 \in Int, NEW x2 \in Int, NEW y1 \in Int, NEW y2 \in Int,
         NEW sw, NEW se, NEW nw, NEW ne,
         sw = NodeAt(x1 + 1, y1 + 1, nx), se = NodeAt(x2, y1 + 1, nx),
         nw = NodeAt(x1 + 1, y2, nx), ne = NodeAt(x2, y2, nx)
  PROVE  CellsAround(sw, se, nw, ne, y1 + 1, y2) =
           <<CellAt(x1, y1, nx), CellAt(x2, y1, nx), CellAt(x1, y2, nx), CellAt(x2, y2, nx)>>
<1>1. nx \in Int /\ x1 + 1 \in Int /\ y1 + 1 \in Int /\ (x1 + 1) - 1 = x1 /\ (y1 + 1) - 1 = y1
  BY DEF WideGrid
<1>2. /\ NodeCellM1M1(sw, y1 + 1, nx) = CellAt(x1, y1, nx)
      /\ NodeCellP1M1(se, y1 + 1, nx) = CellAt(x2, y1, nx)
      /\ NodeCellM1P1(nw, y2, nx) = CellAt(x1, y2, nx)
      /\ NodeCellP1P1(ne, y2, nx) = CellAt(x2, y2, nx)
  <2>1. NodeCellM1M1(sw, y1 + 1, nx) = CellAt((x1 + 1) - 1, (y1 + 1) - 1, nx)
    BY <1>1, NodeMaps
  <2>2. NodeCellP1M1(se, y1 + 1, nx) = CellAt(x2, (y1 + 1) - 1, nx)
    BY <1>1, NodeMaps
  <2>3. NodeCellM1P1(nw, y2, nx) = CellAt((x1 + 1) - 1, y2, nx)
    BY <1>1, NodeMaps
  <2>4. NodeCellP1P1(ne, y2, nx) = CellAt(x2, y2, nx)
    BY <1>1, NodeMaps
  <2> QED BY <1>1, <2>1, <2>2, <2>3, <2>4
<1> QED BY <1>2 DEF CellsAround

LEMMA CornerNamed ==
  ASSUME WideGrid, NEW p \in Origins
  PROVE  CornerAt(p).at = p /\ CornerAt(p).node = At("node", p)
<1>1. At("node", p) = NodeAt(p[1], p[2], nx) /\ nx \in Int
  BY OriginsAre DEF WideGrid
<1>2. p = <<0, 0>> => NodeAt(p[1], p[2], nx) = 0
  BY <1>1 DEF NodeAt
<1> QED BY <1>1, <1>2 DEF CornerAt, Corner, SeamCorner

\* The corner of a place has the node of the place, its twins and the four cells around it.
LEMMA CornerPlaced ==
  ASSUME WideGrid, NEW p \in Origins, p[1] = 0 => ~WallsX, p[2] = 0 => ~WallsY
  PROVE  /\ CornerAt(p).at = p
         /\ CornerAt(p).node = At("node", p)
         /\ \A k \in 1 .. 4 : CornerAt(p).cells[k] = QuarterCell(p, k)
<1> DEFINE x == p[1]
           y == p[2]
           x1 == Before(x, nx)
           y1 == Before(y, ny)
           n == NodeAt(x, y, nx)
<1>0. p = <<x, y>> /\ x \in 0 .. nx - 1 /\ y \in 0 .. ny - 1 /\ At("node", p) = n /\ x \in Int /\ y \in Int
  BY OriginsAre
<1>1. x1 \in Int /\ y1 \in Int /\ nx \in Int /\ ny \in Int
  BY <1>0 DEF Before, WideGrid
<1>2. CornerAt(p).at = p /\ CornerAt(p).node = At("node", p)
  BY CornerNamed
<1> DEFINE around == <<CellAt(x1, y1, nx), CellAt(x, y1, nx), CellAt(x1, y, nx), CellAt(x, y, nx)>>
<1>3. CornerAt(p).cells = around
  <2>1. CASE p = <<0, 0>>
    <3>1. x = 0 /\ y = 0 /\ x1 = nx - 1 /\ y1 = ny - 1
      BY <2>1 DEF Before
    <3>2. /\ CellAt(nx - 1, ny - 1, nx) = nx * (ny - 1) + nx - 1
          /\ CellAt(0, ny - 1, nx) = nx * (ny - 1)
          /\ CellAt(nx - 1, 0, nx) = nx - 1
          /\ CellAt(0, 0, nx) = 0
      <4>1. nx * (ny - 1) \in Int /\ nx * 0 = 0
        BY <1>1
      <4> HIDE DEF x, y, x1, y1, n
      <4> QED BY <1>1, <4>1 DEF CellAt
    <3>3. CornerAt(p).cells = <<nx * (ny - 1) + nx - 1, nx * (ny - 1), nx - 1, 0>>
      BY <2>1 DEF CornerAt, Corner, SeamCorner
    <3> QED BY <3>1, <3>2, <3>3
  <2>2. CASE p # <<0, 0>> /\ x = 0
    <3>1. x1 = nx - 1 /\ x1 + 1 = nx /\ y # 0 /\ y1 = y - 1 /\ y1 + 1 = y
      BY <1>0, <1>1, <2>2 DEF Before
    <3>2. n + nx = NodeAt(nx, y, nx)
      BY <1>0, <1>1, <2>2 DEF NodeAt
    <3>3. CornerAt(p).cells = CellsAround(n + nx, n, n + nx, n, y, y)
      BY <2>2 DEF CornerAt, Corner
    <3>4. CellsAround(n + nx, n, n + nx, n, y1 + 1, y) = around
      <4> DEFINE sym == n + nx
      <4>1. /\ sym = NodeAt(x1 + 1, y1 + 1, nx) /\ n = NodeAt(x, y1 + 1, nx)
            /\ sym = NodeAt(x1 + 1, y, nx) /\ n = NodeAt(x, y, nx)
        BY <3>1, <3>2
      <4> HIDE DEF x1, y1, x, y, n, sym
      <4>2. CellsAround(sym, n, sym, n, y1 + 1, y) = around
        BY <1>0, <1>1, <4>1, FourCells, SMTT(20)
      <4> QED BY <4>2 DEF sym
    <3> QED BY <3>1, <3>3, <3>4
  <2>3. CASE x # 0 /\ y = 0
    <3>1. x1 = x - 1 /\ x1 + 1 = x /\ y1 = ny - 1 /\ y1 + 1 = ny
      BY <1>0, <1>1, <2>3 DEF Before
    <3>2. CornerAt(p).cells = CellsAround(NodeAt(x, ny, nx), NodeAt(x, ny, nx), n, n, ny, 0)
      <4>1. p # <<0, 0>>
        BY <2>3
      <4> QED BY <2>3, <4>1 DEF CornerAt, Corner
    <3>3. CellsAround(NodeAt(x, ny, nx), NodeAt(x, ny, nx), n, n, y1 + 1, y) = around
      <4> DEFINE sym == NodeAt(x, ny, nx)
      <4>1. /\ sym = NodeAt(x1 + 1, y1 + 1, nx) /\ sym = NodeAt(x, y1 + 1, nx)
            /\ n = NodeAt(x1 + 1, y, nx) /\ n = NodeAt(x, y, nx)
        BY <3>1
      <4> HIDE DEF x1, y1, x, y, n, sym
      <4>2. CellsAround(sym, sym, n, n, y1 + 1, y) = around
        BY <1>0, <1>1, <4>1, FourCells, SMTT(20)
      <4> QED BY <4>2 DEF sym
    <3> QED BY <2>3, <3>1, <3>2, <3>3
  <2>4. CASE x # 0 /\ y # 0
    <3>1. x1 = x - 1 /\ x1 + 1 = x /\ y1 = y - 1 /\ y1 + 1 = y
      BY <1>0, <1>1, <2>4 DEF Before
    <3>2. CornerAt(p).cells = CellsAround(n, n, n, n, y, y)
      <4>1. p # <<0, 0>>
        BY <2>4
      <4> QED BY <2>4, <4>1 DEF CornerAt, Corner
    <3>3. CellsAround(n, n, n, n, y1 + 1, y) = around
      <4>1. /\ n = NodeAt(x1 + 1, y1 + 1, nx) /\ n = NodeAt(x, y1 + 1, nx)
            /\ n = NodeAt(x1 + 1, y, nx) /\ n = NodeAt(x, y, nx)
        BY <3>1
      <4> HIDE DEF x1, y1, x, y, n
      <4> QED BY <1>0, <1>1, <4>1, FourCells, SMTT(20)
    <3> QED BY <3>1, <3>2, <3>3
  <2> QED BY <2>1, <2>2, <2>3, <2>4
<1>4. /\ QuarterCell(p, 1) = CellAt(x1, y1, nx) /\ QuarterCell(p, 2) = CellAt(x, y1, nx)
      /\ QuarterCell(p, 3) = CellAt(x1, y, nx) /\ QuarterCell(p, 4) = CellAt(x, y, nx)
  BY <1>0, QuarterCells
<1>5. \A k \in 1 .. 4 : CornerAt(p).cells[k] = QuarterCell(p, k)
  <2> HIDE DEF x1, y1, x, y
  <2>1. 1 .. 4 = {1, 2, 3, 4}
    OBVIOUS
  <2>2. /\ around[1] = QuarterCell(p, 1) /\ around[2] = QuarterCell(p, 2)
        /\ around[3] = QuarterCell(p, 3) /\ around[4] = QuarterCell(p, 4)
    BY <1>4
  <2> QED BY <1>3, <2>1, <2>2
<1> QED BY <1>0, <1>2, <1>5

\* The nodes that the flux of a corner is stored to are the twins of its place.
LEMMA CornerTo ==
  ASSUME WideGrid, NEW p \in Origins, NEW i
  PROVE  i \in CornerAt(p).to <=> \E q \in Places("node") : Wrapped(q) = p /\ i = At("node", q)
<1> DEFINE x == p[1]
           y == p[2]
<1>0. p = <<x, y>> /\ x \in 0 .. nx - 1 /\ y \in 0 .. ny - 1 /\ nx \in Int /\ ny \in Int
  BY OriginsAre DEF WideGrid
<1>1. \A q \in Places("node") : /\ q = <<q[1], q[2]>> /\ q[1] \in 0 .. nx /\ q[2] \in 0 .. ny
                                 /\ At("node", q) = NodeAt(q[1], q[2], nx)
  BY DEF Places, LastX, LastY, StaggeredX, StaggeredY, At
<1>2. \A c \in 0 .. nx, d \in 0 .. ny : <<c, d>> \in Places("node") /\ At("node", <<c, d>>) = NodeAt(c, d, nx)
  BY DEF Places, LastX, LastY, StaggeredX, StaggeredY, At
<1>3. 0 \in 0 .. nx /\ nx \in 0 .. nx /\ 0 \in 0 .. ny /\ ny \in 0 .. ny /\ x \in 0 .. nx /\ y \in 0 .. ny
  BY <1>0 DEF WideGrid
<1>4. CASE x = 0 /\ y = 0
  <2>1. CornerAt(p).to = CornerNodes
    BY <1>0, <1>4 DEF CornerAt, SeamCorner, Corner
  <2>2. /\ NodeAt(0, 0, nx) = 0 /\ NodeAt(nx, 0, nx) = nx /\ NodeAt(0, ny, nx) = ny * (nx + 1)
        /\ NodeAt(nx, ny, nx) = (nx + 1) * (ny + 1) - 1
    BY <1>0, Products DEF NodeAt
  <2>3. CornerAt(p).to = {NodeAt(0, 0, nx), NodeAt(nx, 0, nx), NodeAt(0, ny, nx), NodeAt(nx, ny, nx)}
    BY <2>1, <2>2 DEF CornerNodes
  <2>4. \A q \in Places("node") : Wrapped(q) = p <=> q \in {<<0, 0>>, <<nx, 0>>, <<0, ny>>, <<nx, ny>>}
    BY <1>0, <1>1, <1>4 DEF Wrapped
  <2> QED BY <1>2, <1>3, <2>3, <2>4
<1>5. CASE x = 0 /\ y # 0
  <2>1. CornerAt(p).to = {NodeAt(0, y, nx), NodeAt(nx, y, nx)}
    <3>1. p # <<0, 0>>
      BY <1>5
    <3>2. NodeAt(0, y, nx) + nx = NodeAt(nx, y, nx)
      BY <1>0, <1>5 DEF NodeAt
    <3> QED BY <1>5, <3>1, <3>2 DEF CornerAt, Corner
  <2>2. \A q \in Places("node") : Wrapped(q) = p <=> q \in {<<0, y>>, <<nx, y>>}
    BY <1>0, <1>1, <1>5 DEF Wrapped
  <2> QED BY <1>2, <1>3, <2>1, <2>2
<1>6. CASE x # 0 /\ y = 0
  <2>1. CornerAt(p).to = {NodeAt(x, 0, nx), NodeAt(x, ny, nx)}
    <3>1. p # <<0, 0>>
      BY <1>6
    <3> QED BY <1>6, <3>1 DEF CornerAt, Corner
  <2>2. \A q \in Places("node") : Wrapped(q) = p <=> q \in {<<x, 0>>, <<x, ny>>}
    BY <1>0, <1>1, <1>6 DEF Wrapped
  <2> QED BY <1>2, <1>3, <2>1, <2>2
<1>7. CASE x # 0 /\ y # 0
  <2>1. CornerAt(p).to = {NodeAt(x, y, nx)}
    <3>1. p # <<0, 0>>
      BY <1>7
    <3> QED BY <1>7, <3>1 DEF CornerAt, Corner
  <2>2. \A q \in Places("node") : Wrapped(q) = p <=> q = <<x, y>>
    BY <1>0, <1>1, <1>7 DEF Wrapped
  <2> QED BY <1>2, <1>3, <2>1, <2>2
<1> QED BY <1>4, <1>5, <1>6, <1>7

LEMMA CornerStoresAre ==
  ASSUME NEW a, NEW corners, NEW s
  PROVE  s \in CornerFluxStores(a, corners) <=>
           \E c \in corners : IF Still(c.node) THEN s = <<c.node, Fold("node", c.at)>>
                              ELSE \E n \in c.to : s = <<n, Computed("node", c.at, CornerReads(a, c))>>
<1> DEFINE of(c) == IF Still(c.node) THEN {<<c.node, Fold("node", c.at)>>}
                    ELSE {<<n, Computed("node", c.at, CornerReads(a, c))>> : n \in c.to}
<1>1. CornerFluxStores(a, corners) = UNION {of(c) : c \in corners}
  BY DEF CornerFluxStores
<1>2. \A c : s \in of(c) <=> IF Still(c.node) THEN s = <<c.node, Fold("node", c.at)>>
                              ELSE \E n \in c.to : s = <<n, Computed("node", c.at, CornerReads(a, c))>>
  OBVIOUS
<1> HIDE DEF of
<1> QED BY <1>1, <1>2

\* The fluxes of the places P, and of no other, are stored; each is that of its place, at the
\* twins of a place too when its node moves.
CornersOn(m, P) ==
  \A q \in Places("node") :
    Wrapped(q) \in P /\ (q = Wrapped(q) \/ Moves(Wrapped(q))) => m[At("node", q)] \in Stamps(Wrapped(q))

\* The flux of a node, stored or not, is that of its place, or none.
OwnFlux(m) == \A q \in Places("node") : m[At("node", q)] \in Stamps(Wrapped(q)) \cup {Zero, Garbage}

OfNodes(m) == DOMAIN m = 0 .. Size("node") - 1

LEMMA NodesGiven ==
  ASSUME WideGrid, NEW S, NEW m, NEW g, NEW stores, Gives(m, stores, "node", S, g)
  PROVE  /\ \A q \in S : Stored(m, stores)[At("node", q)] = g[q]
         /\ \A q \in Places("node") \ S : Stored(m, stores)[At("node", q)] = m[At("node", q)]
<1> DEFINE K == "node"
<1>1. Grid /\ K \in Kinds
  BY WideGridIsGrid DEF Kinds
<1>2. Gives(m, stores, K, S, g)
  OBVIOUS
<1> HIDE DEF K
<1>3. /\ \A q \in S : Stored(m, stores)[At(K, q)] = g[q]
      /\ \A q \in Places(K) \ S : Stored(m, stores)[At(K, q)] = m[At(K, q)]
  BY <1>1, <1>2, GivenPlaces
<1> QED BY <1>3 DEF K

LEMMA CornersStored ==
  ASSUME WideGrid, NEW a, NEW m, OfNodes(m), NEW P \in SUBSET Origins,
         NEW Q \in SUBSET Origins, CornersOn(m, Q)
  PROVE  /\ CornersOn(Stored(m, CornerFluxStores(a, {CornerAt(p) : p \in P})), P \cup Q)
         /\ OwnFlux(m) => OwnFlux(Stored(m, CornerFluxStores(a, {CornerAt(p) : p \in P})))
<1> DEFINE stores == CornerFluxStores(a, {CornerAt(p) : p \in P})
           val(p) == IF Still(At("node", p)) THEN Fold("node", p)
                     ELSE Computed("node", p, CornerReads(a, CornerAt(p)))
           g == [q \in Places("node") |-> val(Wrapped(q))]
           stored(q) == Wrapped(q) \in P /\ (Still(At("node", Wrapped(q))) => q = Wrapped(q))
           S == {q \in Places("node") : stored(q)}
<1>1. \A p \in Origins : p \in Places("node") /\ Wrapped(p) = p /\ Fold("node", p) = p
  BY OriginsAre
<1>2. \A q \in Places("node") : g[q] = val(Wrapped(q))
  OBVIOUS
<1>s. /\ S \subseteq Places("node")
      /\ \A q \in Places("node") : q \in S <=> Wrapped(q) \in P /\ (Still(At("node", Wrapped(q))) => q = Wrapped(q))
  <2>1. S \subseteq Places("node") /\ \A q \in Places("node") : q \in S <=> stored(q)
    <3> HIDE DEF stored
    <3> QED OBVIOUS
  <2> HIDE DEF S
  <2> QED BY <2>1
<1>3. \A p : val(p) \in Results("node", p)
  BY ComputedResults DEF Results, Stamps
<1> HIDE DEF g, S
<1>4. \A s : s \in stores <=>
        \E p \in P : IF Still(At("node", p)) THEN s = <<At("node", p), val(p)>>
                     ELSE \E n \in CornerAt(p).to : s = <<n, val(p)>>
  <2> TAKE s
  <2>1. \A p \in P : CornerAt(p).at = p /\ CornerAt(p).node = At("node", p)
    BY CornerNamed
  <2>2. s \in stores <=>
           \E c \in {CornerAt(p) : p \in P} :
              IF Still(c.node) THEN s = <<c.node, Fold("node", c.at)>>
              ELSE \E n \in c.to : s = <<n, Computed("node", c.at, CornerReads(a, c))>>
    BY CornerStoresAre
  <2> HIDE DEF stores
  <2>3. s \in stores <=>
           \E p \in P :
              IF Still(CornerAt(p).node) THEN s = <<CornerAt(p).node, Fold("node", CornerAt(p).at)>>
              ELSE \E n \in CornerAt(p).to : s = <<n, Computed("node", CornerAt(p).at, CornerReads(a, CornerAt(p)))>>
    BY <2>2
  <2> QED BY <2>1, <2>3
<1> HIDE DEF stores, val
<1>5. \A s \in stores : \E q \in S : s = <<At("node", q), g[q]>>
  <2> TAKE s \in stores
  <2>1. PICK p \in P : IF Still(At("node", p)) THEN s = <<At("node", p), val(p)>>
                       ELSE \E n \in CornerAt(p).to : s = <<n, val(p)>>
    BY <1>4
  <2>2. CASE Still(At("node", p))
    <3>1. p \in S /\ g[p] = val(p)
      BY <1>1, <1>2, <1>s
    <3> QED BY <2>1, <2>2, <3>1
  <2>3. CASE ~Still(At("node", p))
    <3>1. PICK n \in CornerAt(p).to : s = <<n, val(p)>>
      BY <2>1, <2>3
    <3>2. PICK q \in Places("node") : Wrapped(q) = p /\ n = At("node", q)
      BY <3>1, CornerTo
    <3>3. q \in S /\ g[q] = val(p)
      BY <1>2, <1>s, <2>3, <3>2
    <3> QED BY <3>1, <3>2, <3>3
  <2> QED BY <2>1, <2>2, <2>3
<1>6. \A q \in S : <<At("node", q), g[q]>> \in stores
  <2> TAKE q \in S
  <2> DEFINE p == Wrapped(q)
  <2>1. q \in Places("node")
    BY <1>s
  <2>2. p \in P /\ (Still(At("node", p)) => q = p)
    BY <1>s, <2>1
  <2>3. g[q] = val(p)
    BY <1>2, <2>1
  <2>4. ~Still(At("node", p)) => At("node", q) \in CornerAt(p).to
    <3>1. p \in Origins
      BY <2>2
    <3>2. At("node", q) \in CornerAt(p).to <=>
            \E z \in Places("node") : Wrapped(z) = p /\ At("node", q) = At("node", z)
      <4> HIDE DEF p
      <4> QED BY <3>1, CornerTo
    <3> QED BY <2>1, <3>2
  <2> HIDE DEF p
  <2>5. CASE Still(At("node", p))
    BY <1>4, <2>2, <2>3, <2>5
  <2>6. CASE ~Still(At("node", p))
    BY <1>4, <2>2, <2>3, <2>4, <2>6
  <2> QED BY <2>5, <2>6
<1>7. Gives(m, stores, "node", S, g)
  BY <1>5, <1>6, <1>s DEF Gives, OfNodes
<1>8. /\ \A q \in S : Stored(m, stores)[At("node", q)] = g[q]
      /\ \A q \in Places("node") \ S : Stored(m, stores)[At("node", q)] = m[At("node", q)]
  <2> HIDE DEF stored
  <2> QED BY <1>7, NodesGiven
<1>9. \A p \in Origins : val(p) \in Stamps(p)
  BY <1>1, <1>3 DEF Results
<1>10. CornersOn(Stored(m, stores), P \cup Q)
  <2> SUFFICES ASSUME NEW q \in Places("node"), Wrapped(q) \in P \cup Q,
                      q = Wrapped(q) \/ Moves(Wrapped(q))
               PROVE  Stored(m, stores)[At("node", q)] \in Stamps(Wrapped(q))
    BY DEF CornersOn
  <2>1. CASE Wrapped(q) \in P
    <3>1. q \in S
      BY <1>s, <2>1 DEF Moves
    <3>2. Stored(m, stores)[At("node", q)] = val(Wrapped(q))
      BY <1>2, <1>8, <3>1
    <3> QED BY <1>9, <2>1, <3>2
  <2>2. CASE Wrapped(q) \notin P
    <3>1. q \in Places("node") \ S
      BY <1>s, <2>2
    <3>2. m[At("node", q)] \in Stamps(Wrapped(q))
      BY <2>2 DEF CornersOn
    <3> QED BY <1>8, <3>1, <3>2
  <2> QED BY <2>1, <2>2
<1>11. ASSUME OwnFlux(m) PROVE OwnFlux(Stored(m, stores))
  <2> SUFFICES ASSUME NEW q \in Places("node")
               PROVE  Stored(m, stores)[At("node", q)] \in Stamps(Wrapped(q)) \cup {Zero, Garbage}
    BY DEF OwnFlux
  <2>1. CASE q \in S
    <3>1. Stored(m, stores)[At("node", q)] = val(Wrapped(q)) /\ Wrapped(q) \in Origins
      BY <1>2, <1>8, <1>s, <2>1
    <3> QED BY <1>9, <3>1
  <2>2. CASE q \notin S
    BY <1>8, <1>11, <2>2 DEF OwnFlux
  <2> QED BY <2>1, <2>2
<1> QED BY <1>10, <1>11 DEF stores

\* The kernel of a wall stores nothing inside, and 0 to each node of the walls.
EdgesZero(m) == \A q \in Places("node") : OnEdge(q) => m[At("node", q)] = Zero

LEMMA WallKeepsInner ==
  ASSUME WideGrid, NEW m, OfNodes(m), CornersOn(m, InnerOrigins(Inner))
  PROVE  /\ CornersOn(Stored(m, FluxOrder2DiagCornerBoundaryWall), InnerOrigins(Inner))
         /\ EdgesZero(Stored(m, FluxOrder2DiagCornerBoundaryWall))
         /\ OwnFlux(m) => OwnFlux(Stored(m, FluxOrder2DiagCornerBoundaryWall))
<1> DEFINE stores == Zeros(CornerNodes \cup Sides \cup Ends)
           S == {q \in Places("node") : OnEdge(q)}
           g == [q \in S |-> Zero]
<1>1. \A n \in CornerNodes \cup Sides \cup Ends : \E q \in S : n = At("node", q)
  <2>0. /\ nx \in Int /\ ny \in Int
        /\ \A c \in 0 .. nx, d \in 0 .. ny :
             <<c, d>> \in Places("node") /\ At("node", <<c, d>>) = NodeAt(c, d, nx)
    BY DEF Places, LastX, LastY, StaggeredX, StaggeredY, At, WideGrid
  <2>1. /\ NodeAt(0, 0, nx) = 0 /\ NodeAt(nx, 0, nx) = nx /\ NodeAt(0, ny, nx) = ny * (nx + 1)
        /\ NodeAt(nx, ny, nx) = (nx + 1) * (ny + 1) - 1
    BY <2>0, Products DEF NodeAt
  <2>2. \A n \in CornerNodes \cup Sides \cup Ends :
          \E c \in 0 .. nx, d \in 0 .. ny : n = NodeAt(c, d, nx) /\ (c \in {0, nx} \/ d \in {0, ny})
    <3> TAKE n \in CornerNodes \cup Sides \cup Ends
    <3>1. 0 \in 0 .. nx /\ nx \in 0 .. nx /\ 0 \in 0 .. ny /\ ny \in 0 .. ny
      BY DEF WideGrid
    <3>2. CASE n \in CornerNodes
      BY <2>1, <3>1, <3>2 DEF CornerNodes
    <3>3. CASE n \in Sides
      <4>1. PICK c \in {0, nx}, d \in Inner : n = NodeAt(c, d, nx)
        BY <3>3 DEF Sides
      <4>2. c \in 0 .. nx /\ d \in 0 .. ny
        BY <3>1 DEF Inner, WideGrid
      <4> QED BY <4>1, <4>2
    <3>4. CASE n \in Ends
      <4>1. PICK c \in 1 .. nx - 1, d \in {0, ny} : n = NodeAt(c, d, nx)
        BY <3>4 DEF Ends
      <4>2. c \in 0 .. nx /\ d \in 0 .. ny
        BY <3>1 DEF WideGrid
      <4> QED BY <4>1, <4>2
    <3> QED BY <3>2, <3>3, <3>4
  <2> TAKE n \in CornerNodes \cup Sides \cup Ends
  <2>3. PICK c \in 0 .. nx, d \in 0 .. ny : n = NodeAt(c, d, nx) /\ (c \in {0, nx} \/ d \in {0, ny})
    BY <2>2
  <2>4. <<c, d>> \in S
    BY <2>0, <2>3 DEF OnEdge
  <2> QED BY <2>0, <2>3, <2>4
<1>2. \A q \in S : At("node", q) \in CornerNodes \cup Sides \cup Ends
  <2> TAKE q \in S
  <2>1. /\ q = <<q[1], q[2]>> /\ q[1] \in 0 .. nx /\ q[2] \in 0 .. ny /\ nx \in Int /\ ny \in Int
        /\ q[1] \in {0, nx} \/ q[2] \in {0, ny}
        /\ At("node", q) = NodeAt(q[1], q[2], nx)
    BY DEF Places, LastX, LastY, StaggeredX, StaggeredY, At, OnEdge, WideGrid
  <2>2. CASE q[1] \in {0, nx} /\ q[2] \in {0, ny}
    <3>1. /\ NodeAt(0, 0, nx) = 0 /\ NodeAt(nx, 0, nx) = nx /\ NodeAt(0, ny, nx) = ny * (nx + 1)
          /\ NodeAt(nx, ny, nx) = (nx + 1) * (ny + 1) - 1
      BY <2>1, Products DEF NodeAt
    <3> QED BY <2>1, <2>2, <3>1 DEF CornerNodes
  <2>3. CASE q[1] \in {0, nx} /\ q[2] \notin {0, ny}
    <3>1. q[2] \in Inner
      BY <2>1, <2>3 DEF Inner
    <3> QED BY <2>1, <2>3, <3>1 DEF Sides
  <2>4. CASE q[1] \notin {0, nx}
    <3>1. q[1] \in 1 .. nx - 1 /\ q[2] \in {0, ny}
      BY <2>1, <2>4
    <3> QED BY <2>1, <3>1 DEF Ends
  <2> QED BY <2>2, <2>3, <2>4
<1>3. \A q \in Places("node") : Wrapped(q) \in InnerOrigins(Inner) => q \notin S /\ Wrapped(q) = q
  <2> SUFFICES ASSUME NEW q \in Places("node"), Wrapped(q) \in InnerOrigins(Inner)
               PROVE  ~OnEdge(q) /\ Wrapped(q) = q
    OBVIOUS
  <2>1. Wrapped(q)[1] # 0 /\ Wrapped(q)[2] # 0 /\ q = <<q[1], q[2]>>
    BY DEF InnerOrigins, Inner, Places
  <2> QED BY <2>1 DEF Wrapped, OnEdge
<1> HIDE DEF S
<1>4. Gives(m, stores, "node", S, g)
  <2>1. \A s \in stores : \E q \in S : s = <<At("node", q), g[q]>>
    BY <1>1 DEF Zeros
  <2>2. \A q \in S : <<At("node", q), g[q]>> \in stores
    BY <1>2 DEF Zeros
  <2>3. S \subseteq Places("node")
    BY DEF S
  <2> QED BY <2>1, <2>2, <2>3 DEF Gives, OfNodes
<1> HIDE DEF stores
<1>5. /\ \A q \in S : Stored(m, stores)[At("node", q)] = Zero
      /\ \A q \in Places("node") \ S : Stored(m, stores)[At("node", q)] = m[At("node", q)]
  BY <1>4, NodesGiven
<1>6. EdgesZero(Stored(m, stores))
  BY <1>5 DEF EdgesZero, S
<1>7. CornersOn(Stored(m, stores), InnerOrigins(Inner))
  <2> SUFFICES ASSUME NEW q \in Places("node"), Wrapped(q) \in InnerOrigins(Inner)
               PROVE  Stored(m, stores)[At("node", q)] \in Stamps(Wrapped(q))
    BY DEF CornersOn
  <2> QED BY <1>3, <1>5 DEF CornersOn
<1>8. OwnFlux(m) => OwnFlux(Stored(m, stores))
  BY <1>5 DEF OwnFlux
<1> QED BY <1>6, <1>7, <1>8 DEF stores, FluxOrder2DiagCornerBoundaryWall
-----------------------------------------------------------------------------
\* How far a loop over the rows of nodes, and then the seam if it is done, have come.
Reached(n, seam, at, left) ==
  IF at < n THEN {}
  ELSE IF at = n THEN InnerOrigins(Inner \ left)
  ELSE IF at = n + 1 \/ ~seam THEN InnerOrigins(Inner)
  ELSE Origins

LEMMA ReachedNext ==
  ASSUME SameSize
  PROVE  /\ \A n, seam, at, left : Reached(n, seam, at, left)' = Reached(n, seam, at, left)
         /\ \A p : CornerAt(p)' = CornerAt(p)
         /\ Origins' = Origins /\ EdgeOrigins' = EdgeOrigins
<1>1. Inner' = Inner /\ Origins' = Origins /\ EdgeOrigins' = EdgeOrigins
  BY DEF Inner, Origins, EdgeOrigins, SameSize
<1>2. \A rows : InnerOrigins(rows)' = InnerOrigins(rows)
  BY DEF InnerOrigins, SameSize
<1>3. \A n, seam, at, left : Reached(n, seam, at, left)' = Reached(n, seam, at, left)
  BY <1>1, <1>2 DEF Reached
<1>4. SeamCorner' = SeamCorner
  BY DEF SeamCorner, CornerNodes, SameSize
<1>5. \A p : CornerAt(p)' = CornerAt(p)
  BY <1>4 DEF CornerAt, CellsAround, SameSize
<1> QED BY <1>1, <1>3, <1>5

LEMMA ReachedInside ==
  ASSUME WideGrid, NEW n, NEW seam, NEW at, NEW left
  PROVE  Reached(n, seam, at, left) \subseteq Origins
<1>1. \A rows \in SUBSET Inner : InnerOrigins(rows) \subseteq Origins
  BY InnerAreOrigins
<1> QED BY <1>1 DEF Reached

LEMMA RowReached ==
  ASSUME NEW left, left \subseteq Inner, NEW iy \in left
  PROVE  /\ InnerOrigins(Inner \ left) \cup InnerOrigins({iy}) = InnerOrigins(Inner \ (left \ {iy}))
         /\ left = {iy} => InnerOrigins(Inner \ left) \cup InnerOrigins({iy}) = InnerOrigins(Inner)
         /\ InnerOrigins(Inner \ Inner) = {}
  BY DEF InnerOrigins

LEMMA SeamReached ==
  ASSUME WideGrid
  PROVE  InnerOrigins(Inner) \cup EdgeOrigins = Origins
<1>1. InnerOrigins(Inner) \subseteq Origins
  BY InnerAreOrigins
<1>2. ASSUME NEW p \in Origins, p \notin EdgeOrigins PROVE p \in InnerOrigins(Inner)
  BY <1>2 DEF Origins, EdgeOrigins, InnerOrigins, Inner
<1> QED BY <1>1, <1>2 DEF EdgeOrigins
-----------------------------------------------------------------------------
\* The signs: no call stores to the velocities they are taken from.
SameSigns == SameSize /\ flow' = flow /\ \A a \in {"predicted_u", "predicted_v"} : mem'[a] = mem[a]

LEMMA InputSigns ==
  ASSUME NEW a \in {"predicted_u", "predicted_v"}
  PROVE  a \in Inputs /\ KindOf(a) = "node"
<1>1. a \in Inputs
  BY DEF Inputs, X!Inputs, Y!Inputs
<1>2. KindOf(a) = "node"
  <2>1. CASE a = "predicted_u"
    BY <2>1 DEF KindOf
  <2>2. CASE a = "predicted_v"
    BY <2>2 DEF KindOf
  <2> QED BY <2>1, <2>2
<1> QED BY <1>1, <1>2

LEMMA SignsKept == SizesInv /\ Next => SameSigns
<1> SUFFICES ASSUME SizesInv, Next PROVE SameSigns
  OBVIOUS
<1>1. PICK outs : Step(outs)
  BY Steps
<1>2. "predicted_u" \notin outs /\ "predicted_v" \notin outs
  BY <1>1, StoringCalls DEF Step
<1>3. "predicted_u" \in DOMAIN mem /\ "predicted_v" \in DOMAIN mem
  BY InputSigns DEF SizesInv, Arrays
<1> QED BY <1>1, <1>2, <1>3 DEF Step, Keeps, SameSigns

LEMMA SignsNext ==
  ASSUME SameSigns
  PROVE  /\ \A n : Still(n)' <=> Still(n)
         /\ \A p : Giving(CornerAt(p))' = Giving(CornerAt(p))
         /\ \A p : Moves(p)' <=> Moves(p)
<1>1. \A n : /\ Sign("predicted_u", n)' = Sign("predicted_u", n)
             /\ Sign("predicted_v", n)' = Sign("predicted_v", n)
  BY DEF SameSigns, Sign
<1>2. \A n : Still(n)' <=> Still(n)
  BY <1>1 DEF Still
<1>3. \A p : CornerAt(p)' = CornerAt(p)
  BY ReachedNext DEF SameSigns
<1>4. \A p : Giving(CornerAt(p))' = Giving(CornerAt(p))
  BY <1>1, <1>3 DEF Giving
<1>5. \A k, p : At(k, p)' = At(k, p)
  BY SameGridNext DEF SameSigns, SameSize
<1> QED BY <1>2, <1>4, <1>5 DEF Moves

\* No node of a wall moves along a diagonal.
WallsStill == BoundaryConditions = "Wall" => \A p \in Places("node") : OnEdge(p) => ~Moves(p)

LEMMA WallsStillInitially == Init => WallsStill
<1> SUFFICES ASSUME Init, BoundaryConditions = "Wall", NEW p \in Places("node"), OnEdge(p)
             PROVE  Still(At("node", p))
  BY DEF WallsStill, Moves
<1>1. Grid
  BY SizesInitially, WideGridIsGrid DEF SizesInv
<1>2. \A a \in {"predicted_u", "predicted_v"} : mem[a] = Filled(a) /\ KindOf(a) = "node"
  BY InputSigns DEF Init, GridInit
<1>3. \A a \in {"predicted_u", "predicted_v"} : mem[a][At("node", p)] = Right(a, p)
  <2> TAKE a \in {"predicted_u", "predicted_v"}
  <2>1. KindOf(a) \in Kinds /\ p \in Places(KindOf(a))
    BY <1>2 DEF Kinds
  <2>2. Filled(a)[At(KindOf(a), p)] = Right(a, p)
    BY <1>1, <2>1, FilledRight
  <2> QED BY <1>2, <2>2
<1>4. Held("predicted_u", p) \/ Held("predicted_v", p)
  BY DEF OnEdge, Held, OnWallX, OnWallY, WallsX, WallsY
<1>5. mem["predicted_u"][At("node", p)] = Zero \/ mem["predicted_v"][At("node", p)] = Zero
  BY <1>3, <1>4 DEF Right
<1> QED BY <1>5 DEF Still, Sign

LEMMA WallsStillNext == WallsStill /\ SameSigns => WallsStill'
<1> SUFFICES ASSUME WallsStill, SameSigns PROVE WallsStill'
  OBVIOUS
<1>1. /\ \A p : Moves(p)' <=> Moves(p)
      /\ Places("node")' = Places("node") /\ BoundaryConditions' = BoundaryConditions
      /\ \A p : OnEdge(p)' <=> OnEdge(p)
  BY SignsNext, SameGridNext DEF SameSigns, SameSize, OnEdge
<1> QED BY <1>1 DEF WallsStill
-----------------------------------------------------------------------------
\* The fluxes of the corners: those that the loop n, and the boundary kernel but at walls,
\* have stored are those of their places; the one of the walls has stored 0.
CornerStage(a, n) ==
  /\ pc = n => todo \subseteq Inner
  /\ CornersOn(mem[a], Reached(n, BoundaryConditions # "Wall", pc, todo))
  /\ pc > n + 1 /\ BoundaryConditions = "Wall" => EdgesZero(mem[a])

LEMMA CornerKernels ==
  ASSUME SizesInv, NEW a \in FluxArrays
  PROVE  /\ a \in DOMAIN mem /\ OfNodes(mem[a])
         /\ \A iy : LoopStores(a, iy) = CornerFluxStores(a, InnerCorners(iy))
         /\ BoundaryStores(a) = IF BoundaryConditions = "Wall" THEN FluxOrder2DiagCornerBoundaryWall
                                ELSE CornerFluxStores(a, SeamCorners)
<1>1. /\ \A iy : LoopStores(a, iy) = FluxOrder2DiagCorner(a, iy)
      /\ BoundaryStores(a) = FluxOrder2DiagCornerBoundary(a)
      /\ KindOf(a) = "node"
  <2>1. CASE a = "mass_corner_fluxes"
    BY <2>1 DEF LoopStores, BoundaryStores, Diagonals, FluxArrays, KindOf
  <2>2. CASE a = "energy_flux_corner"
    BY <2>2 DEF LoopStores, BoundaryStores, Diagonals, FluxArrays, KindOf
  <2> QED BY <2>1, <2>2 DEF FluxArrays
<1>2. a \in Arrays
  BY DEF Arrays, Scratch
<1> QED BY <1>1, <1>2 DEF SizesInv, OfNodes, FluxOrder2DiagCorner, FluxOrder2DiagCornerBoundary,
                          FluxOrder2DiagCornerPeriodicBoundary

LEMMA CornerStageNext ==
  ASSUME SameSigns, NEW a, NEW n
  PROVE  CornerStage(a, n)' <=>
           /\ pc' = n => todo' \subseteq Inner
           /\ CornersOn(mem'[a], Reached(n, BoundaryConditions # "Wall", pc', todo'))
           /\ pc' > n + 1 /\ BoundaryConditions = "Wall" => EdgesZero(mem'[a])
<1>0. SameSize
  BY DEF SameSigns
<1>1. /\ \A p : At("node", p)' = At("node", p) /\ (OnEdge(p)' <=> OnEdge(p))
      /\ \A q : Wrapped(q)' = Wrapped(q) /\ (Moves(q)' <=> Moves(q))
      /\ Places("node")' = Places("node") /\ BoundaryConditions' = BoundaryConditions
  BY <1>0, SameGridNext, SignsNext DEF SameSize, Wrapped
<1>2. Inner' = Inner /\ Origins' = Origins /\ \A rows : InnerOrigins(rows)' = InnerOrigins(rows)
  BY <1>0 DEF Inner, Origins, InnerOrigins, SameSize
<1>3. Reached(n, BoundaryConditions # "Wall", pc, todo)' = Reached(n, BoundaryConditions # "Wall", pc', todo')
  BY <1>0, <1>2 DEF Reached, InnerOrigins, SameSize
<1>4. CornersOn(mem[a], Reached(n, BoundaryConditions # "Wall", pc, todo))' <=>
        CornersOn(mem'[a], Reached(n, BoundaryConditions # "Wall", pc', todo'))
  BY <1>1, <1>3 DEF CornersOn
<1>5. EdgesZero(mem[a])' <=> EdgesZero(mem'[a])
  BY <1>1 DEF EdgesZero
<1> QED BY <1>1, <1>2, <1>4, <1>5 DEF CornerStage

LEMMA CornerStageKept ==
  ASSUME SizesInv, Next, NEW a \in FluxArrays, NEW n \in 1 .. 48,
         \A i \in 1 .. 49 : a \in Driver[i].outs <=> i \in {n, n + 1},
         Driver[n].part = "loop", Driver[n + 1].part = "boundary",
         RowsFor(Driver, n, Rows) = Inner,
         CornerStage(a, n)
  PROVE  CornerStage(a, n)'
<1> DEFINE seam == BoundaryConditions # "Wall"
<1>1. PICK outs : Step(outs)
  BY Steps
<1>2. /\ SameSize /\ pc \in 1 .. 49 /\ WideGrid
      /\ a \notin Driver[pc].outs => mem'[a] = mem[a]
  BY <1>1, CornerKernels DEF Step, Keeps, SizesInv
<1>3. /\ pc = n => todo \subseteq Inner
      /\ CornersOn(mem[a], Reached(n, seam, pc, todo))
      /\ pc > n + 1 /\ ~seam => EdgesZero(mem[a])
  BY DEF CornerStage
<1> SUFFICES /\ pc' = n => todo' \subseteq Inner
             /\ CornersOn(mem'[a], Reached(n, seam, pc', todo'))
             /\ pc' > n + 1 /\ ~seam => EdgesZero(mem'[a])
  BY CornerStageNext, SignsKept
<1>4. CASE pc = n
  <2>1. /\ CornersOn(mem[a], InnerOrigins(Inner \ todo)) /\ n \in 1 .. 49 /\ n + 1 # n /\ ~(n + 1 < n)
        /\ ~(n > n + 1) /\ ~(n + 1 > n + 1)
    BY <1>3, <1>4 DEF Reached
  <2>2. \/ todo = {} /\ pc' = n + 1 /\ mem'[a] = mem[a]
        \/ \E iy \in todo :
              /\ pc' = IF todo = {iy} THEN n + 1 ELSE n
              /\ todo # {iy} => todo' = todo \ {iy}
              /\ mem'[a] = Stored(mem[a], LoopStores(a, iy))
    BY <1>4, <2>1, CornerKernels, LoopSteps
  <2>3. CASE todo = {} /\ pc' = n + 1 /\ mem'[a] = mem[a]
    BY <2>1, <2>3 DEF Reached
  <2>4. CASE ~(todo = {} /\ pc' = n + 1 /\ mem'[a] = mem[a])
    <3>1. PICK iy \in todo : /\ pc' = IF todo = {iy} THEN n + 1 ELSE n
                             /\ todo # {iy} => todo' = todo \ {iy}
                             /\ mem'[a] = Stored(mem[a], LoopStores(a, iy))
      BY <2>2, <2>4
    <3>2. iy \in Inner /\ todo \subseteq Inner
      BY <1>3, <1>4
    <3>3. InnerCorners(iy) = {CornerAt(p) : p \in InnerOrigins({iy})}
      BY <1>2, <3>2, InnerCornersAre
    <3>4. mem'[a] = Stored(mem[a], CornerFluxStores(a, {CornerAt(p) : p \in InnerOrigins({iy})}))
      BY <3>1, <3>3, CornerKernels
    <3>5. InnerOrigins({iy}) \in SUBSET Origins /\ InnerOrigins(Inner \ todo) \in SUBSET Origins
      <4>1. {iy} \in SUBSET Inner /\ Inner \ todo \in SUBSET Inner
        BY <3>2
      <4> QED BY <1>2, <4>1, InnerAreOrigins
    <3>6. CornersOn(mem'[a], InnerOrigins({iy}) \cup InnerOrigins(Inner \ todo))
      <4> DEFINE P == InnerOrigins({iy})
                 Q == InnerOrigins(Inner \ todo)
                 m == mem[a]
      <4>1. P \in SUBSET Origins /\ Q \in SUBSET Origins /\ CornersOn(m, Q) /\ OfNodes(m)
        BY <2>1, <3>5, CornerKernels
      <4> HIDE DEF P, Q, m
      <4>2. CornersOn(Stored(m, CornerFluxStores(a, {CornerAt(p) : p \in P})), P \cup Q)
        BY <1>2, <4>1, CornersStored
      <4> QED BY <3>4, <4>2 DEF P, Q, m
    <3>7. /\ InnerOrigins(Inner \ todo) \cup InnerOrigins({iy}) = InnerOrigins(Inner \ (todo \ {iy}))
          /\ todo = {iy} => InnerOrigins(Inner \ todo) \cup InnerOrigins({iy}) = InnerOrigins(Inner)
      BY <3>2, RowReached
    <3>8. InnerOrigins({iy}) \cup InnerOrigins(Inner \ todo) = InnerOrigins(Inner \ todo) \cup InnerOrigins({iy})
      OBVIOUS
    <3>9. CASE todo = {iy}
      <4>1. pc' = n + 1 /\ CornersOn(mem'[a], InnerOrigins(Inner))
        BY <3>1, <3>6, <3>7, <3>8, <3>9
      <4> QED BY <2>1, <4>1 DEF Reached
    <3>10. CASE todo # {iy}
      <4>1. pc' = n /\ todo' = todo \ {iy} /\ CornersOn(mem'[a], InnerOrigins(Inner \ todo'))
        BY <3>1, <3>6, <3>7, <3>8, <3>10
      <4> QED BY <3>2, <4>1 DEF Reached
    <3> QED BY <3>9, <3>10
  <2> QED BY <2>3, <2>4
<1>5. CASE pc = n + 1
  <2>1. pc' = n + 2 /\ mem'[a] = Stored(mem[a], BoundaryStores(a))
    <3>1. n + 1 \in 1 .. 49 /\ a \in Driver[n + 1].outs /\ a \in DOMAIN mem
      BY CornerKernels
    <3>2. pc' = pc + 1 /\ mem'[a] = Stored(mem[a], BoundaryStores(a))
      BY <1>5, <3>1, EdgeSteps
    <3> QED BY <1>5, <3>2
  <2>2. CornersOn(mem[a], InnerOrigins(Inner)) /\ n + 2 # n /\ n + 2 # n + 1 /\ ~(n + 2 < n)
    <3>1. n + 1 # n /\ ~(n + 1 < n)
      OBVIOUS
    <3> QED BY <1>3, <1>5, <3>1 DEF Reached
  <2>3. CASE ~seam
    <3>1. CornersOn(mem'[a], InnerOrigins(Inner)) /\ EdgesZero(mem'[a])
      <4> DEFINE m == mem[a]
      <4>1. OfNodes(m) /\ CornersOn(m, InnerOrigins(Inner))
        BY <2>2, CornerKernels
      <4> HIDE DEF m
      <4>2. /\ CornersOn(Stored(m, FluxOrder2DiagCornerBoundaryWall), InnerOrigins(Inner))
            /\ EdgesZero(Stored(m, FluxOrder2DiagCornerBoundaryWall))
        BY <1>2, <4>1, WallKeepsInner
      <4> QED BY <2>1, <2>3, <4>2, CornerKernels DEF m
    <3> QED BY <2>1, <2>2, <2>3, <3>1 DEF Reached
  <2>4. CASE seam
    <3>1. mem'[a] = Stored(mem[a], CornerFluxStores(a, {CornerAt(p) : p \in EdgeOrigins}))
      BY <1>2, <2>1, <2>4, CornerKernels, SeamCornersAre
    <3>2. EdgeOrigins \in SUBSET Origins /\ InnerOrigins(Inner) \in SUBSET Origins
      <4>1. Inner \in SUBSET Inner
        OBVIOUS
      <4> QED BY <1>2, <4>1, InnerAreOrigins DEF EdgeOrigins
    <3>3. CornersOn(mem'[a], Origins)
      <4> DEFINE P == EdgeOrigins
                 Q == InnerOrigins(Inner)
                 m == mem[a]
      <4>1. P \in SUBSET Origins /\ Q \in SUBSET Origins /\ CornersOn(m, Q) /\ OfNodes(m)
        BY <2>2, <3>2, CornerKernels
      <4>2. Q \cup P = Origins
        BY <1>2, SeamReached
      <4> HIDE DEF P, Q, m
      <4>3. CornersOn(Stored(m, CornerFluxStores(a, {CornerAt(p) : p \in P})), P \cup Q)
        BY <1>2, <4>1, CornersStored
      <4>4. P \cup Q = Q \cup P
        OBVIOUS
      <4> QED BY <3>1, <4>2, <4>3, <4>4 DEF P, m
    <3> QED BY <2>1, <2>2, <2>4, <3>3 DEF Reached
  <2> QED BY <2>3, <2>4
<1>6. CASE pc \notin {n, n + 1}
  <2>1. mem'[a] = mem[a]
    BY <1>2, <1>6
  <2>2. \/ pc' = pc + 1 /\ todo' = RowsFor(Driver, pc + 1, Rows)
        \/ pc' = pc
    BY <1>1 DEF Step
  <2>3. CASE pc > n + 1
    <3>1. ~(pc < n) /\ ~(pc' < n) /\ pc' # n /\ pc' # n + 1
      BY <1>2, <2>2, <2>3
    <3>2. Reached(n, seam, pc', todo') = Reached(n, seam, pc, todo)
      BY <1>6, <3>1 DEF Reached
    <3> QED BY <1>3, <2>1, <2>3, <3>1, <3>2
  <2>4. CASE pc < n /\ pc' < n
    <3>1. Reached(n, seam, pc', todo') = {} /\ ~(pc' > n + 1)
      BY <1>2, <2>2, <2>4 DEF Reached
    <3> QED BY <2>4, <3>1 DEF CornersOn
  <2>5. CASE pc < n /\ pc' = n
    <3>1. todo' = Inner
      BY <1>2, <2>2, <2>5
    <3>2. Reached(n, seam, pc', todo') = {} /\ ~(pc' > n + 1)
      BY <2>5, <3>1 DEF Reached, InnerOrigins
    <3> QED BY <3>1, <3>2 DEF CornersOn
  <2> QED BY <1>2, <1>6, <2>2, <2>3, <2>4, <2>5
<1> QED BY <1>4, <1>5, <1>6
-----------------------------------------------------------------------------
\* The entries of the cells: a node that moves takes its piece from one of its cells and gives
\* it to the opposite one.
From(p) == Giving(CornerAt(p))

Piece(a, p, k, gain) ==
  [of |-> a, at |-> QuarterCell(p, k), from |-> <<At("node", p), Quarter[k]>>, gain |-> gain, flux |-> p]

IsPiece(e, a, p) == Moves(p) /\ (e = Piece(a, p, From(p), -1) \/ e = Piece(a, p, 5 - From(p), 1))

\* Where the cells of a corner are around it.
CellsPlaced(p) == (p[1] = 0 => ~WallsX) /\ (p[2] = 0 => ~WallsY)

LEMMA FromIs == \A p : From(p) \in 1 .. 4 /\ 5 - From(p) \in 1 .. 4
  BY DEF From, Giving

LEMMA TransfersAre ==
  ASSUME WideGrid, NEW a, NEW P \in SUBSET Origins, \A p \in P : CellsPlaced(p),
         CornersOn(mem[Carried(a)], P), NEW e
  PROVE  e \in Transfers(a, {CornerAt(p) : p \in P}) <=> \E p \in P : IsPiece(e, a, p)
<1> DEFINE moving(s) == ~Still(s.node) /\ mem[Carried(a)][s.node] # Zero
           taken(s) == Entry(a, s.cells[Giving(s)], <<s.node, Quarter[Giving(s)]>>, -1, mem[Carried(a)][s.node])
           given(s) == Entry(a, s.cells[Receiving(s)], <<s.node, Quarter[Receiving(s)]>>, 1, mem[Carried(a)][s.node])
           corners == {CornerAt(p) : p \in P}
<1>1. e \in Transfers(a, corners) <=> \E s \in corners : moving(s) /\ (e = taken(s) \/ e = given(s))
  <2>1. Transfers(a, corners) = UNION {{taken(s), given(s)} : s \in {t \in corners : moving(t)}}
    BY DEF Transfers
  <2> HIDE DEF moving, taken, given, corners
  <2> QED BY <2>1
<1>2. ASSUME NEW p \in P
      PROVE  /\ moving(CornerAt(p)) <=> Moves(p)
             /\ taken(CornerAt(p)) = Piece(a, p, From(p), -1)
             /\ given(CornerAt(p)) = Piece(a, p, 5 - From(p), 1)
  <2> DEFINE s == CornerAt(p)
             w == mem[Carried(a)][s.node]
  <2>1. /\ s.node = At("node", p)
        /\ \A k \in 1 .. 4 : s.cells[k] = QuarterCell(p, k)
    BY CornerPlaced DEF CellsPlaced
  <2>2. Giving(s) = From(p) /\ Receiving(s) = 5 - From(p)
    BY DEF From, Receiving
  <2>3. p = <<p[1], p[2]>>
    BY OriginsAre
  <2>4. w \in Stamps(<<p[1], p[2]>>)
    <3>1. p \in Places("node") /\ Wrapped(p) = p
      BY OriginsAre
    <3> QED BY <2>1, <2>3, <3>1 DEF CornersOn
  <2>5. w # Zero /\ Source(w) = p
    BY <2>3, <2>4, StampsTell DEF Source
  <2>6. s.cells[From(p)] = QuarterCell(p, From(p)) /\ s.cells[5 - From(p)] = QuarterCell(p, 5 - From(p))
    BY <2>1, FromIs
  <2>7. moving(s) <=> Moves(p)
    BY <2>1, <2>5 DEF Moves
  <2>8. /\ taken(s) = Entry(a, QuarterCell(p, From(p)), <<At("node", p), Quarter[From(p)]>>, -1, w)
        /\ given(s) = Entry(a, QuarterCell(p, 5 - From(p)), <<At("node", p), Quarter[5 - From(p)]>>, 1, w)
    BY <2>1, <2>2, <2>6
  <2> HIDE DEF taken, given, moving, w
  <2> QED BY <2>5, <2>7, <2>8 DEF Entry, Piece
<1> HIDE DEF moving, taken, given
<1>3. e \in Transfers(a, corners) <=>
        \E p \in P : moving(CornerAt(p)) /\ (e = taken(CornerAt(p)) \/ e = given(CornerAt(p)))
  BY <1>1
<1> QED BY <1>2, <1>3 DEF IsPiece

LEMMA EntriesOf ==
  ASSUME NEW a, NEW around
  PROVE  /\ \A e \in Transfers(a, around) : e.of = a
         /\ \A e \in MomentumEntries(a, around) : e.of = a
<1>1. \A i, from, gain, w : Entry(a, i, from, gain, w).of = a
  BY DEF Entry
<1>2. \A e \in Transfers(a, around) : e.of = a
  <2> DEFINE both(s) == {Entry(a, s.cells[Giving(s)], <<s.node, Quarter[Giving(s)]>>, -1, mem[Carried(a)][s.node]),
                         Entry(a, s.cells[Receiving(s)], <<s.node, Quarter[Receiving(s)]>>, 1, mem[Carried(a)][s.node])}
             moving(s) == ~Still(s.node) /\ mem[Carried(a)][s.node] # Zero
  <2>1. Transfers(a, around) = UNION {both(s) : s \in {t \in around : moving(t)}}
    BY DEF Transfers
  <2>2. \A s : \A x \in both(s) : x.of = a
    BY <1>1
  <2> HIDE DEF both, moving
  <2> QED BY <2>1, <2>2
<1>3. ASSUME NEW e \in MomentumEntries(a, around) PROVE e.of = a
  <2> DEFINE some(s, k) == {Entry(a, n, <<s.nodes[k], Nine[k]>>, gain, mem["mass_corner_fluxes"][s.nodes[k]])
                              : n \in s.to, gain \in Through(s.nodes[k], Nine[k])}
             all(s) == UNION {some(s, k) : k \in {k \in 1 .. 9 : mem["mass_corner_fluxes"][s.nodes[k]] # Zero}}
  <2>1. MomentumEntries(a, around) = UNION {all(s) : s \in around}
    BY DEF MomentumEntries
  <2>2. \A s, k : \A x \in some(s, k) : x.of = a
    BY <1>1
  <2> HIDE DEF some
  <2>3. \A s : \A x \in all(s) : x.of = a
    BY <2>2
  <2> HIDE DEF all
  <2> QED BY <2>1, <2>3
<1> QED BY <1>2, <1>3

\* What a step does to the entries of an array.
LEMMA ScatterSteps ==
  ASSUME Next, NEW a \in {"out_mass", "out_e"}, pc \in 1 .. 49, Driver[pc] = Scatter(a)
  PROVE  \E iy \in todo :
           /\ pc' = IF todo = {iy} THEN pc + 1 ELSE pc
           /\ todo # {iy} => todo' = todo \ {iy}
           /\ ledger' = ledger \cup Transfers(a, InnerCorners(iy))
<1>1. /\ Driver[pc].part = "scatter" /\ Driver[pc].outs = {a}
      /\ \A b : ~Calls("seam", b) /\ (Calls("scatter", b) => b = a)
  BY CallFields DEF Calls
<1>2. ~Row /\ ~Edge
  BY <1>1 DEF Row, LoopRow, Edge, BoundaryCall
<1>3. ~ProjectNodes /\ ~SeamCells /\ ~SeamNodes
  BY <1>1 DEF ProjectNodes, ProjectNodalIntensiveVariableCornerFluxes, SeamCells,
              ProjectCellsCornerFluxesBoundary, SeamNodes, ProjectNodalIntensiveVariableCornerFluxesBoundary
<1>4. PICK b \in {"out_mass", "out_e"} : ProjectCellsCornerFluxes(b)
  BY <1>2, <1>3 DEF Next, ProjectCells
<1>5. b = a
  BY <1>1, <1>4 DEF ProjectCellsCornerFluxes
<1> QED BY <1>4, <1>5 DEF ProjectCellsCornerFluxes, Scattered, RowDone

LEMMA SeamSteps ==
  ASSUME Next, NEW a \in {"out_mass", "out_e"}, pc \in 1 .. 49, Driver[pc] = Seam(a)
  PROVE  /\ pc' = pc + 1
         /\ ledger' = IF BoundaryConditions = "periodic" THEN ledger \cup Transfers(a, SeamCorners) ELSE ledger
<1>1. /\ Driver[pc].part = "seam" /\ Driver[pc].outs = {a}
      /\ \A b : ~Calls("scatter", b) /\ (Calls("seam", b) => b = a)
  BY CallFields DEF Calls
<1>2. ~Row /\ ~Edge
  BY <1>1 DEF Row, LoopRow, Edge, BoundaryCall
<1>3. ~ProjectNodes /\ ~ProjectCells /\ ~SeamNodes
  BY <1>1 DEF ProjectNodes, ProjectNodalIntensiveVariableCornerFluxes, ProjectCells,
              ProjectCellsCornerFluxes, SeamNodes, ProjectNodalIntensiveVariableCornerFluxesBoundary
<1>4. PICK b \in {"out_mass", "out_e"} : ProjectCellsCornerFluxesBoundary(b)
  BY <1>2, <1>3 DEF Next, SeamCells
<1>5. b = a
  BY <1>1, <1>4 DEF ProjectCellsCornerFluxesBoundary
<1> QED BY <1>4, <1>5 DEF ProjectCellsCornerFluxesBoundary, Scattered, SeamReturns

LEMMA OtherSteps ==
  ASSUME Next, NEW a, NEW e, e.of = a, ~Calls("scatter", a), ~Calls("seam", a)
  PROVE  e \in ledger' <=> e \in ledger
<1>1. CASE Row \/ Edge
  BY <1>1 DEF Row, Edge
<1>2. ASSUME NEW b, NEW entries, NEW stores, b # a, \A x \in entries : x.of = b,
             Scattered(b, entries, stores) \/ UNCHANGED <<mem, flow, ledger>>
      PROVE  e \in ledger' <=> e \in ledger
  BY <1>2 DEF Scattered
<1>3. CASE ProjectCells
  <2>1. PICK b \in {"out_mass", "out_e"} : ProjectCellsCornerFluxes(b)
    BY <1>3 DEF ProjectCells
  <2>2. PICK iy \in todo : Scattered(b, Transfers(b, InnerCorners(iy)), ScatterStores(b, InnerCorners(iy)))
    BY <2>1 DEF ProjectCellsCornerFluxes
  <2>3. b # a
    BY <2>1 DEF ProjectCellsCornerFluxes
  <2> QED BY <1>2, <2>2, <2>3, EntriesOf
<1>4. CASE ProjectNodes
  <2>1. PICK b \in {"out_u", "out_v"} : ProjectNodalIntensiveVariableCornerFluxes(b)
    BY <1>4 DEF ProjectNodes
  <2>2. PICK iy \in todo : Scattered(b, MomentumEntries(b, InnerAround(iy)), MomentumStores(b, InnerAround(iy)))
    BY <2>1 DEF ProjectNodalIntensiveVariableCornerFluxes
  <2>3. b # a
    BY <2>1 DEF ProjectNodalIntensiveVariableCornerFluxes
  <2> QED BY <1>2, <2>2, <2>3, EntriesOf
<1>5. CASE SeamCells
  <2>1. PICK b \in {"out_mass", "out_e"} : ProjectCellsCornerFluxesBoundary(b)
    BY <1>5 DEF SeamCells
  <2>2. \/ Scattered(b, Transfers(b, SeamCorners), ScatterStores(b, SeamCorners))
        \/ UNCHANGED <<mem, flow, ledger>>
    BY <2>1 DEF ProjectCellsCornerFluxesBoundary
  <2>3. b # a
    BY <2>1 DEF ProjectCellsCornerFluxesBoundary
  <2> QED BY <1>2, <2>2, <2>3, EntriesOf
<1>6. CASE SeamNodes
  <2>1. PICK b \in {"out_u", "out_v"} : ProjectNodalIntensiveVariableCornerFluxesBoundary(b)
    BY <1>6 DEF SeamNodes
  <2>2. \/ Scattered(b, MomentumEntries(b, SeamAround), MomentumStores(b, SeamAround))
        \/ UNCHANGED <<mem, flow, ledger>>
    BY <2>1 DEF ProjectNodalIntensiveVariableCornerFluxesBoundary
  <2>3. b # a
    BY <2>1 DEF ProjectNodalIntensiveVariableCornerFluxesBoundary
  <2> QED BY <1>2, <2>2, <2>3, EntriesOf
<1> QED BY <1>1, <1>3, <1>4, <1>5, <1>6 DEF Next
-----------------------------------------------------------------------------
\* The entries of an array a: those of the places that the loop n, and the seam if the
\* boundary condition is known to its kernel, have come to.
Accounted(a, n) ==
  /\ pc = n => todo \subseteq Inner
  /\ \A e : e \in ledger /\ e.of = a <=>
              \E p \in Reached(n, BoundaryConditions = "periodic", pc, todo) : IsPiece(e, a, p)

LEMMA PiecesNext ==
  ASSUME SameSigns
  PROVE  \A e, a, p : IsPiece(e, a, p)' <=> IsPiece(e, a, p)
<1>1. \A p : From(p)' = From(p) /\ (Moves(p)' <=> Moves(p))
  BY SignsNext DEF From
<1>2. SameSize
  BY DEF SameSigns
<1>3. \A k, p : At(k, p)' = At(k, p)
  BY <1>2, SameGridNext DEF SameSize
<1>4. \A p, k : QuarterCell(p, k)' = QuarterCell(p, k)
  <2>1. \A k, p : Fold(k, p)' = Fold(k, p)
    BY <1>2 DEF SameSize, Fold, WallsX, WallsY
  <2> QED BY <1>3, <2>1 DEF QuarterCell, QuarterPlace
<1>5. \A a, p, k, gain : Piece(a, p, k, gain)' = Piece(a, p, k, gain)
  BY <1>3, <1>4 DEF Piece
<1> QED BY <1>1, <1>5 DEF IsPiece

LEMMA AccountedNext ==
  ASSUME SameSigns, NEW a, NEW n
  PROVE  Accounted(a, n)' <=>
           /\ pc' = n => todo' \subseteq Inner
           /\ \A e : e \in ledger' /\ e.of = a <=>
                \E p \in Reached(n, BoundaryConditions = "periodic", pc', todo') : IsPiece(e, a, p)
<1>1. SameSize
  BY DEF SameSigns
<1>2. Inner' = Inner /\ Origins' = Origins /\ \A rows : InnerOrigins(rows)' = InnerOrigins(rows)
  BY <1>1 DEF Inner, Origins, InnerOrigins, SameSize
<1>3. Reached(n, BoundaryConditions = "periodic", pc, todo)' = Reached(n, BoundaryConditions = "periodic", pc', todo')
  BY <1>1, <1>2 DEF Reached, InnerOrigins, SameSize
<1> QED BY <1>2, <1>3, PiecesNext DEF Accounted

\* The corners whose entries are made are those of places with four cells around them.
LEMMA ReachedPlaced ==
  ASSUME WideGrid
  PROVE  /\ \A p \in InnerOrigins(Inner) : CellsPlaced(p)
         /\ BoundaryConditions = "periodic" => \A p \in Origins : CellsPlaced(p)
<1>1. \A p \in InnerOrigins(Inner) : p[1] # 0 /\ p[2] # 0
  BY DEF InnerOrigins, Inner
<1>2. BoundaryConditions = "periodic" => ~WallsX /\ ~WallsY
  BY DEF WallsX, WallsY
<1> QED BY <1>1, <1>2 DEF CellsPlaced

LEMMA AccountedKept ==
  ASSUME SizesInv, Next, NEW a \in {"out_mass", "out_e"}, NEW n \in 1 .. 48,
         \A i \in 1 .. 49 : a \in Driver[i].outs /\ Driver[i].part \in {"scatter", "seam"} => i \in {n, n + 1},
         Driver[n] = Scatter(a), Driver[n + 1] = Seam(a),
         RowsFor(Driver, n, Rows) = Inner,
         pc = n => CornersOn(mem[Carried(a)], InnerOrigins(Inner)),
         pc = n + 1 /\ BoundaryConditions = "periodic" => CornersOn(mem[Carried(a)], Origins),
         Accounted(a, n)
  PROVE  Accounted(a, n)'
<1> DEFINE seam == BoundaryConditions = "periodic"
           made(P) == \A e : e \in ledger /\ e.of = a <=> \E p \in P : IsPiece(e, a, p)
           done(P) == \A e : e \in ledger' /\ e.of = a <=> \E p \in P : IsPiece(e, a, p)
<1>1. PICK outs : Step(outs)
  BY Steps
<1>2. SameSize /\ pc \in 1 .. 49 /\ WideGrid /\ SameSigns
  BY <1>1, SignsKept DEF Step, Keeps, SizesInv
<1>3. (pc = n => todo \subseteq Inner) /\ made(Reached(n, seam, pc, todo))
  BY DEF Accounted
<1> SUFFICES (pc' = n => todo' \subseteq Inner) /\ done(Reached(n, seam, pc', todo'))
  BY <1>2, AccountedNext
<1>4. ASSUME NEW P \in SUBSET Origins, NEW Q, \A p \in P : CellsPlaced(p), CornersOn(mem[Carried(a)], P),
             made(Q), ledger' = ledger \cup Transfers(a, {CornerAt(p) : p \in P})
      PROVE  done(Q \cup P)
  <2> SUFFICES ASSUME NEW e PROVE e \in ledger' /\ e.of = a <=> \E p \in Q \cup P : IsPiece(e, a, p)
    OBVIOUS
  <2> DEFINE entries == Transfers(a, {CornerAt(p) : p \in P})
  <2>1. e \in entries <=> \E p \in P : IsPiece(e, a, p)
    BY <1>2, <1>4, TransfersAre
  <2>2. \A p : IsPiece(e, a, p) => e.of = a
    BY DEF IsPiece, Piece
  <2>3. e \in ledger /\ e.of = a <=> \E p \in Q : IsPiece(e, a, p)
    BY <1>4
  <2>4. ledger' = ledger \cup entries
    BY <1>4
  <2> HIDE DEF entries
  <2> QED BY <2>1, <2>2, <2>3, <2>4
<1> HIDE DEF made, done
<1>5. CASE pc = n
  <2>1. /\ made(InnerOrigins(Inner \ todo)) /\ n \in 1 .. 49 /\ n + 1 # n /\ ~(n + 1 < n)
        /\ todo \subseteq Inner /\ CornersOn(mem[Carried(a)], InnerOrigins(Inner))
    BY <1>3, <1>5 DEF Reached
  <2>2. PICK iy \in todo : /\ pc' = IF todo = {iy} THEN n + 1 ELSE n
                           /\ todo # {iy} => todo' = todo \ {iy}
                           /\ ledger' = ledger \cup Transfers(a, InnerCorners(iy))
    BY <1>2, <1>5, ScatterSteps
  <2>3. iy \in Inner
    BY <2>1
  <2>4. ledger' = ledger \cup Transfers(a, {CornerAt(p) : p \in InnerOrigins({iy})})
    BY <1>2, <2>2, <2>3, InnerCornersAre
  <2>5. /\ InnerOrigins({iy}) \in SUBSET Origins /\ InnerOrigins({iy}) \subseteq InnerOrigins(Inner)
        /\ \A p \in InnerOrigins({iy}) : CellsPlaced(p)
    <3>1. {iy} \in SUBSET Inner
      BY <2>3
    <3>2. InnerOrigins({iy}) \subseteq InnerOrigins(Inner)
      BY <2>3 DEF InnerOrigins
    <3> QED BY <1>2, <3>1, <3>2, InnerAreOrigins, ReachedPlaced
  <2>6. CornersOn(mem[Carried(a)], InnerOrigins({iy}))
    BY <2>1, <2>5 DEF CornersOn
  <2>7. done(InnerOrigins(Inner \ todo) \cup InnerOrigins({iy}))
    <3> DEFINE P == InnerOrigins({iy})
               Q == InnerOrigins(Inner \ todo)
    <3>1. /\ P \in SUBSET Origins /\ (\A p \in P : CellsPlaced(p)) /\ CornersOn(mem[Carried(a)], P)
          /\ made(Q) /\ ledger' = ledger \cup Transfers(a, {CornerAt(p) : p \in P})
      BY <2>1, <2>4, <2>5, <2>6
    <3> HIDE DEF P, Q
    <3>2. done(Q \cup P)
      BY <1>4, <3>1
    <3> QED BY <3>2 DEF P, Q
  <2>8. /\ InnerOrigins(Inner \ todo) \cup InnerOrigins({iy}) = InnerOrigins(Inner \ (todo \ {iy}))
        /\ todo = {iy} => InnerOrigins(Inner \ todo) \cup InnerOrigins({iy}) = InnerOrigins(Inner)
    BY <2>1, RowReached
  <2>9. CASE todo = {iy}
    <3>1. pc' = n + 1 /\ done(InnerOrigins(Inner))
      BY <2>2, <2>7, <2>8, <2>9
    <3> QED BY <2>1, <3>1 DEF Reached
  <2>10. CASE todo # {iy}
    <3>1. pc' = n /\ todo' = todo \ {iy} /\ done(InnerOrigins(Inner \ todo'))
      BY <2>2, <2>7, <2>8, <2>10
    <3> QED BY <2>1, <3>1 DEF Reached
  <2> QED BY <2>9, <2>10
<1>6. CASE pc = n + 1
  <2>1. made(InnerOrigins(Inner)) /\ n + 2 # n /\ n + 2 # n + 1 /\ ~(n + 2 < n)
    <3>1. n + 1 # n /\ ~(n + 1 < n)
      OBVIOUS
    <3> QED BY <1>3, <1>6, <3>1 DEF Reached
  <2>2. pc' = n + 2 /\ ledger' = IF seam THEN ledger \cup Transfers(a, SeamCorners) ELSE ledger
    <3>1. pc' = pc + 1 /\ ledger' = IF seam THEN ledger \cup Transfers(a, SeamCorners) ELSE ledger
      BY <1>2, <1>6, SeamSteps
    <3> QED BY <1>6, <3>1
  <2>3. CASE ~seam
    <3>1. done(InnerOrigins(Inner))
      BY <2>1, <2>2, <2>3 DEF made, done
    <3> QED BY <2>1, <2>2, <2>3, <3>1 DEF Reached
  <2>4. CASE seam
    <3> DEFINE P == EdgeOrigins
               Q == InnerOrigins(Inner)
    <3>1. ledger' = ledger \cup Transfers(a, {CornerAt(p) : p \in P})
      BY <1>2, <2>2, <2>4, SeamCornersAre
    <3>2. P \in SUBSET Origins /\ (\A p \in P : CellsPlaced(p)) /\ CornersOn(mem[Carried(a)], P)
      <4>1. EdgeOrigins \subseteq Origins
        BY DEF EdgeOrigins
      <4> QED BY <1>2, <1>6, <2>4, <4>1, ReachedPlaced DEF CornersOn
    <3>3. Q \cup P = Origins /\ made(Q)
      BY <1>2, <2>1, SeamReached
    <3> HIDE DEF P, Q
    <3>4. done(Q \cup P)
      BY <1>4, <3>1, <3>2, <3>3
    <3> QED BY <2>1, <2>2, <2>4, <3>3, <3>4 DEF Reached
  <2> QED BY <2>3, <2>4
<1>7. CASE pc \notin {n, n + 1}
  <2>1. ~Calls("scatter", a) /\ ~Calls("seam", a)
    <3>1. Driver[pc].part \in {"scatter", "seam"} => a \notin Driver[pc].outs
      BY <1>2, <1>7
    <3> QED BY <3>1 DEF Calls
  <2>2. \A e : e.of = a => (e \in ledger' <=> e \in ledger)
    BY <2>1, OtherSteps
  <2>3. \A P : made(P) => done(P)
    BY <2>2 DEF made, done
  <2>4. \/ pc' = pc + 1 /\ todo' = RowsFor(Driver, pc + 1, Rows)
        \/ pc' = pc
    BY <1>1 DEF Step
  <2>5. CASE pc > n + 1
    <3>1. ~(pc < n) /\ ~(pc' < n) /\ pc' # n /\ pc' # n + 1
      BY <1>2, <2>4, <2>5
    <3>2. Reached(n, seam, pc', todo') = Reached(n, seam, pc, todo)
      BY <1>7, <3>1 DEF Reached
    <3> QED BY <1>3, <2>3, <3>1, <3>2
  <2>6. CASE pc < n
    <3>1. Reached(n, seam, pc, todo) = {}
      BY <2>6 DEF Reached
    <3>2. pc' < n \/ (pc' = n /\ todo' = Inner)
      BY <1>2, <2>4, <2>6
    <3>3. Reached(n, seam, pc', todo') = {}
      BY <3>2 DEF Reached, InnerOrigins
    <3>4. pc' = n => todo' \subseteq Inner
      BY <3>2
    <3> QED BY <1>3, <2>3, <3>1, <3>3, <3>4
  <2> QED BY <1>2, <1>7, <2>5, <2>6
<1> QED BY <1>5, <1>6, <1>7
-----------------------------------------------------------------------------
\* The inductive invariant of the corners.
CornersInv ==
  /\ WallsStill
  /\ CornerStage("mass_corner_fluxes", 15) /\ CornerStage("energy_flux_corner", 28)
  /\ Accounted("out_mass", 18) /\ Accounted("out_e", 31)

LEMMA CornersInitially == Init => CornersInv
<1> SUFFICES ASSUME Init PROVE CornersInv
  OBVIOUS
<1>1. pc = 1 /\ ledger = {}
  BY DEF Init
<1>2. \A n \in Int : \A seam : 1 < n => Reached(n, seam, pc, todo) = {}
  BY <1>1 DEF Reached
<1>3. \A n \in Int : \A a : 1 < n => CornerStage(a, n) /\ Accounted(a, n)
  <2> TAKE n \in Int
  <2> TAKE a
  <2> HAVE 1 < n
  <2>1. pc # n /\ ~(pc > n + 1) /\ \A seam : Reached(n, seam, pc, todo) = {}
    BY <1>1, <1>2
  <2>2. CornersOn(mem[a], {})
    BY DEF CornersOn
  <2> QED BY <1>1, <2>1, <2>2 DEF CornerStage, Accounted
<1> QED BY <1>3, WallsStillInitially DEF CornersInv

LEMMA CornersKept ==
  ASSUME SizesInv, CornersInv, Next
  PROVE  CornersInv'
<1>0. SameSigns
  BY SignsKept
<1>1. WallsStill'
  BY <1>0, WallsStillNext DEF CornersInv
<1>2. /\ Driver[15].part = "loop" /\ Driver[16].part = "boundary"
      /\ Driver[28].part = "loop" /\ Driver[29].part = "boundary"
      /\ RowsFor(Driver, 15, Rows) = Inner /\ RowsFor(Driver, 28, Rows) = Inner
      /\ RowsFor(Driver, 18, Rows) = Inner /\ RowsFor(Driver, 31, Rows) = Inner
      /\ Driver[18] = Scatter("out_mass") /\ Driver[19] = Seam("out_mass")
      /\ Driver[31] = Scatter("out_e") /\ Driver[32] = Seam("out_e")
  BY CallFields, DriverCalls, RowsOfCalls
<1>3. CornerStage("mass_corner_fluxes", 15)'
  <2>1. \A i \in 1 .. 49 : "mass_corner_fluxes" \in Driver[i].outs <=> i \in {15, 15 + 1}
    BY StoringCalls
  <2>2. "mass_corner_fluxes" \in FluxArrays /\ 15 + 1 = 16 /\ 15 \in 1 .. 48
    BY DEF FluxArrays
  <2> QED BY <1>2, <2>1, <2>2, CornerStageKept DEF CornersInv
<1>4. CornerStage("energy_flux_corner", 28)'
  <2>1. \A i \in 1 .. 49 : "energy_flux_corner" \in Driver[i].outs <=> i \in {28, 28 + 1}
    BY StoringCalls
  <2>2. "energy_flux_corner" \in FluxArrays /\ 28 + 1 = 29 /\ 28 \in 1 .. 48
    BY DEF FluxArrays
  <2> QED BY <1>2, <2>1, <2>2, CornerStageKept DEF CornersInv
<1>5. /\ Carried("out_mass") = "mass_corner_fluxes" /\ Carried("out_e") = "energy_flux_corner"
  BY DEF Carried
<1>6. ASSUME WideGrid, NEW a, NEW n, NEW k, k \in {n + 3, n + 4}, n \in Int, pc = k, CornerStage(a, n)
      PROVE  /\ CornersOn(mem[a], InnerOrigins(Inner))
             /\ BoundaryConditions = "periodic" => CornersOn(mem[a], Origins)
  <2>1. ~(k < n) /\ k # n /\ k # n + 1
    BY <1>6
  <2>2. CornersOn(mem[a], IF BoundaryConditions # "Wall" THEN Origins ELSE InnerOrigins(Inner))
    BY <1>6, <2>1 DEF CornerStage, Reached
  <2>3. InnerOrigins(Inner) \subseteq Origins
    BY <1>6, InnerAreOrigins
  <2> QED BY <2>2, <2>3 DEF CornersOn
<1>7. Accounted("out_mass", 18)'
  <2>1. \A i \in 1 .. 49 : "out_mass" \in Driver[i].outs /\ Driver[i].part \in {"scatter", "seam"} => i \in {18, 18 + 1}
    BY GivingCalls
  <2>2. 18 \in {15 + 3, 15 + 4} /\ 19 \in {15 + 3, 15 + 4} /\ 18 + 1 = 19 /\ 18 \in 1 .. 48 /\ 15 \in Int
    OBVIOUS
  <2>3. WideGrid /\ CornerStage("mass_corner_fluxes", 15) /\ Accounted("out_mass", 18)
    BY DEF SizesInv, CornersInv
  <2>4. /\ pc = 18 => CornersOn(mem[Carried("out_mass")], InnerOrigins(Inner))
        /\ pc = 19 /\ BoundaryConditions = "periodic" => CornersOn(mem[Carried("out_mass")], Origins)
    BY <1>5, <1>6, <2>2, <2>3
  <2> QED BY <1>2, <2>1, <2>2, <2>3, <2>4, AccountedKept
<1>8. Accounted("out_e", 31)'
  <2>1. \A i \in 1 .. 49 : "out_e" \in Driver[i].outs /\ Driver[i].part \in {"scatter", "seam"} => i \in {31, 31 + 1}
    BY GivingCalls
  <2>2. 31 \in {28 + 3, 28 + 4} /\ 32 \in {28 + 3, 28 + 4} /\ 31 + 1 = 32 /\ 31 \in 1 .. 48 /\ 28 \in Int
    OBVIOUS
  <2>3. WideGrid /\ CornerStage("energy_flux_corner", 28) /\ Accounted("out_e", 31)
    BY DEF SizesInv, CornersInv
  <2>4. /\ pc = 31 => CornersOn(mem[Carried("out_e")], InnerOrigins(Inner))
        /\ pc = 32 /\ BoundaryConditions = "periodic" => CornersOn(mem[Carried("out_e")], Origins)
    BY <1>5, <1>6, <2>2, <2>3
  <2> QED BY <1>2, <2>1, <2>2, <2>3, <2>4, AccountedKept
<1> QED BY <1>1, <1>3, <1>4, <1>7, <1>8 DEF CornersInv

LEMMA CornersNext == SizesInv /\ CornersInv /\ [Next]_allvars => CornersInv'
<1> SUFFICES ASSUME SizesInv, CornersInv, UNCHANGED allvars PROVE CornersInv'
  BY CornersKept
<1>1. SameSigns /\ SameSize /\ UNCHANGED <<mem, pc, todo, ledger>>
  BY DEF SameSigns, SameSize, allvars, vars
<1>2. WallsStill'
  BY <1>1, WallsStillNext DEF CornersInv
<1>3. \A a, n : CornerStage(a, n) => CornerStage(a, n)'
  <2> TAKE a, n
  <2>1. CornerStage(a, n)' <=>
           /\ pc' = n => todo' \subseteq Inner
           /\ CornersOn(mem'[a], Reached(n, BoundaryConditions # "Wall", pc', todo'))
           /\ pc' > n + 1 /\ BoundaryConditions = "Wall" => EdgesZero(mem'[a])
    BY <1>1, CornerStageNext
  <2>2. mem' = mem /\ pc' = pc /\ todo' = todo
    BY <1>1
  <2> QED BY <2>1, <2>2 DEF CornerStage
<1>4. \A a, n : Accounted(a, n) => Accounted(a, n)'
  <2> TAKE a, n
  <2>1. Accounted(a, n)' <=>
           /\ pc' = n => todo' \subseteq Inner
           /\ \A e : e \in ledger' /\ e.of = a <=>
                \E p \in Reached(n, BoundaryConditions = "periodic", pc', todo') : IsPiece(e, a, p)
    BY <1>1, AccountedNext
  <2>2. ledger' = ledger /\ pc' = pc /\ todo' = todo
    BY <1>1
  <2> QED BY <2>1, <2>2 DEF Accounted
<1> QED BY <1>2, <1>3, <1>4 DEF CornersInv
-----------------------------------------------------------------------------
\* What the entries add up to.
LEMMA UpDown ==
  ASSUME WideGrid, NEW p \in Origins, CellsPlaced(p)
  PROVE  /\ QuarterCell(p, From(p)) = At("cell", Upstream(p))
         /\ QuarterCell(p, 5 - From(p)) = At("cell", Downstream(p))
         /\ Upstream(p) \in Places("cell") /\ Downstream(p) \in Places("cell")
<1> DEFINE x == p[1]
           y == p[2]
           goesx == Sign("predicted_u", At("node", p)) = 1
           goesy == Sign("predicted_v", At("node", p)) = 1
           q(k) == <<x + Quarter[k][1], y + Quarter[k][2]>>
<1>1. x \in Int /\ y \in Int /\ p = <<x, y>> /\ x \in 0 .. nx - 1 /\ y \in 0 .. ny - 1
  BY OriginsAre
<1>2. From(p) = IF goesx THEN (IF goesy THEN 1 ELSE 3) ELSE (IF goesy THEN 2 ELSE 4)
  BY CornerNamed DEF From, Giving
<1>3. /\ q(1) = <<x - 1, y - 1>> /\ q(2) = <<x, y - 1>> /\ q(3) = <<x - 1, y>> /\ q(4) = <<x, y>>
  BY <1>1 DEF Quarter
<1>4. /\ Upstream(p) = Fold("cell", <<IF goesx THEN x - 1 ELSE x, IF goesy THEN y - 1 ELSE y>>)
      /\ Downstream(p) = Fold("cell", <<IF goesx THEN x ELSE x - 1, IF goesy THEN y ELSE y - 1>>)
  BY DEF Upstream, Downstream, ComesFrom, LeadsTo
<1>5. \A k : QuarterCell(p, k) = At("cell", Fold("cell", q(k)))
  BY DEF QuarterCell, QuarterPlace
<1> HIDE DEF goesx, goesy, q, x, y
<1>6. Upstream(p) = Fold("cell", q(From(p))) /\ Downstream(p) = Fold("cell", q(5 - From(p)))
  <2>1. CASE goesx /\ goesy
    BY <1>2, <1>3, <1>4, <2>1
  <2>2. CASE goesx /\ ~goesy
    BY <1>2, <1>3, <1>4, <2>2
  <2>3. CASE ~goesx /\ goesy
    BY <1>2, <1>3, <1>4, <2>3
  <2>4. CASE ~goesx /\ ~goesy
    BY <1>2, <1>3, <1>4, <2>4
  <2> QED BY <2>1, <2>2, <2>3, <2>4
<1>7. \A k \in 1 .. 4 : Fold("cell", q(k)) \in Places("cell")
  <2> DEFINE foldx(z) == Folded(z, nx, WallsX, StaggeredX("cell"))
             foldy(z) == Folded(z, ny, WallsY, StaggeredY("cell"))
  <2>0. ~StaggeredX("cell") /\ ~StaggeredY("cell") /\ "cell" # "position"
    BY DEF StaggeredX, StaggeredY
  <2>1. foldx(x) \in 0 .. nx - 1 /\ foldy(y) \in 0 .. ny - 1
    BY <1>1, FoldedXNear, FoldedYNear
  <2>2. foldx(x - 1) \in 0 .. nx - 1
    <3>1. CASE x = 0
      <4>1. x - 1 \in Int /\ (x - 1) + 1 = 0 /\ ~WallsX
        BY <3>1 DEF CellsPlaced, x
      <4>2. foldx(x - 1) = nx - 1
        BY <2>0, <4>1, FoldedXNear
      <4> QED BY <4>2 DEF WideGrid
    <3>2. CASE x # 0
      <4>1. x - 1 \in 0 .. nx - 1
        BY <1>1, <3>2 DEF WideGrid
      <4> QED BY <4>1, FoldedXNear
    <3> QED BY <3>1, <3>2
  <2>3. foldy(y - 1) \in 0 .. ny - 1
    <3>1. CASE y = 0
      <4>1. y - 1 \in Int /\ (y - 1) + 1 = 0 /\ ~WallsY
        BY <3>1 DEF CellsPlaced, y
      <4>2. foldy(y - 1) = ny - 1
        BY <2>0, <4>1, FoldedYNear
      <4> QED BY <4>2 DEF WideGrid
    <3>2. CASE y # 0
      <4>1. y - 1 \in 0 .. ny - 1
        BY <1>1, <3>2 DEF WideGrid
      <4> QED BY <4>1, FoldedYNear
    <3> QED BY <3>1, <3>2
  <2>4. \A c, d : Fold("cell", <<c, d>>) = <<foldx(c), foldy(d)>>
    BY <2>0 DEF Fold
  <2>5. LastX("cell") = nx - 1 /\ LastY("cell") = ny - 1
    BY <2>0 DEF LastX, LastY
  <2> HIDE DEF foldx, foldy
  <2>6. \A c, d : foldx(c) \in 0 .. nx - 1 /\ foldy(d) \in 0 .. ny - 1 => Fold("cell", <<c, d>>) \in Places("cell")
    BY <2>4, <2>5 DEF Places
  <2>7. \A k \in 1 .. 4 : k = 1 \/ k = 2 \/ k = 3 \/ k = 4
    OBVIOUS
  <2> QED BY <1>3, <2>1, <2>2, <2>3, <2>6, <2>7
<1> QED BY <1>5, <1>6, <1>7, FromIs

\* The places that the twins of a node are seen at.
LEMMA FoldedNodes ==
  ASSUME WideGrid, NEW p \in Nodes
  PROVE  /\ BoundaryConditions = "periodic" => p \in Origins
         /\ BoundaryConditions = "Wall" /\ ~OnEdge(p) => p \in InnerOrigins(Inner)
         /\ BoundaryConditions = "Wall" => p \in Places("node")
<1>1. PICK q \in Places("node") : p = Fold("node", q)
  BY DEF Nodes
<1>2. /\ StaggeredX("node") /\ StaggeredY("node") /\ "node" # "position"
      /\ Places("node") = (0 .. nx) \X (0 .. ny) /\ nx \in Int /\ ny \in Int
  BY DEF StaggeredX, StaggeredY, Places, LastX, LastY, WideGrid
<1>3. PICK x \in 0 .. nx, y \in 0 .. ny : q = <<x, y>>
  BY <1>2
<1> DEFINE foldx(z) == Folded(z, nx, WallsX, StaggeredX("node"))
           foldy(z) == Folded(z, ny, WallsY, StaggeredY("node"))
<1>4. p = <<foldx(x), foldy(y)>>
  BY <1>1, <1>2, <1>3 DEF Fold
<1>5. /\ x \in Int /\ y \in Int
      /\ x \in 0 .. nx - 1 \/ x = nx
      /\ y \in 0 .. ny - 1 \/ y = ny
  BY <1>2
<1>6. /\ x \in 0 .. nx - 1 => foldx(x) = x
      /\ x = nx => foldx(x) = IF WallsX THEN nx ELSE 0
  BY <1>2, <1>5, FoldedXNear
<1>7. /\ y \in 0 .. ny - 1 => foldy(y) = y
      /\ y = ny => foldy(y) = IF WallsY THEN ny ELSE 0
  BY <1>2, <1>5, FoldedYNear
<1> HIDE DEF foldx, foldy
<1>8. ASSUME BoundaryConditions = "periodic" PROVE p \in Origins
  <2>1. ~WallsX /\ ~WallsY
    BY <1>8 DEF WallsX, WallsY
  <2>2. foldx(x) \in 0 .. nx - 1 /\ foldy(y) \in 0 .. ny - 1
    BY <1>2, <1>5, <1>6, <1>7, <2>1 DEF WideGrid
  <2> QED BY <1>4, <2>2 DEF Origins
<1>9. ASSUME BoundaryConditions = "Wall"
      PROVE  p \in Places("node") /\ (~OnEdge(p) => p \in InnerOrigins(Inner))
  <2>1. WallsX /\ WallsY
    BY <1>9 DEF WallsX, WallsY
  <2>2. p = <<x, y>>
    BY <1>4, <1>5, <1>6, <1>7, <2>1
  <2>3. x # 0 /\ x # nx /\ y # 0 /\ y # ny => x \in 1 .. nx - 1 /\ y \in 1 .. ny - 1
    BY <1>5
  <2> QED BY <1>1, <1>3, <2>2, <2>3 DEF OnEdge, InnerOrigins, Inner
<1> QED BY <1>8, <1>9

LEMMA SumsAre ==
  ASSUME WideGrid, WallsStill, BoundaryConditions \in {"periodic", "Wall"},
         NEW a, NEW n \in Int, Accounted(a, n), pc \in Int, pc > n + 1,
         NEW p \in Nodes, NEW c \in Places("cell")
  PROVE  Sum(a, At("cell", c), p) =
           (IF Moves(p) /\ c = Downstream(p) THEN 1 ELSE 0) - (IF Moves(p) /\ c = Upstream(p) THEN 1 ELSE 0)
<1> DEFINE R == IF BoundaryConditions = "periodic" THEN Origins ELSE InnerOrigins(Inner)
           i == At("cell", c)
           lost == Piece(a, p, From(p), -1)
           won  == Piece(a, p, 5 - From(p), 1)
           of(gain) == {e \in ledger : e.of = a /\ e.at = i /\ e.flux = p /\ e.gain = gain}
<1>1. \A e : e \in ledger /\ e.of = a <=> \E r \in R : IsPiece(e, a, r)
  <2>1. ~(pc < n) /\ pc # n /\ pc # n + 1
    OBVIOUS
  <2>2. Reached(n, BoundaryConditions = "periodic", pc, todo) = R
    BY <2>1 DEF Reached
  <2> QED BY <2>2 DEF Accounted
<1>2. Moves(p) => p \in R
  <2>1. CASE BoundaryConditions = "periodic"
    BY <2>1, FoldedNodes
  <2>2. CASE BoundaryConditions = "Wall"
    BY <2>2, FoldedNodes DEF WallsStill
  <2> QED BY <2>1, <2>2
<1>3. R \subseteq Origins /\ \A r \in R : CellsPlaced(r)
  <2>1. InnerOrigins(Inner) \subseteq Origins
    <3>1. Inner \in SUBSET Inner
      OBVIOUS
    <3> QED BY <3>1, InnerAreOrigins
  <2> QED BY <2>1, ReachedPlaced
<1> HIDE DEF R
<1>4. \A e : e \in ledger /\ e.of = a /\ e.flux = p <=> Moves(p) /\ (e = lost \/ e = won)
  <2>1. \A r, k, gain : Piece(a, r, k, gain).flux = r /\ Piece(a, r, k, gain).of = a
    BY DEF Piece
  <2> QED BY <1>1, <1>2, <2>1 DEF IsPiece
<1>5. /\ lost.at = QuarterCell(p, From(p)) /\ lost.gain = -1
      /\ won.at = QuarterCell(p, 5 - From(p)) /\ won.gain = 1
  BY DEF Piece
<1> HIDE DEF lost, won
<1>6. of(1) = IF Moves(p) /\ QuarterCell(p, 5 - From(p)) = i THEN {won} ELSE {}
  <2>1. \A e : e \in of(1) <=> Moves(p) /\ e = won /\ won.at = i
    BY <1>4, <1>5
  <2> HIDE DEF of
  <2>2. CASE Moves(p) /\ won.at = i
    BY <1>5, <2>1, <2>2
  <2>3. CASE ~(Moves(p) /\ won.at = i)
    BY <1>5, <2>1, <2>3
  <2> QED BY <2>2, <2>3
<1>7. of(-1) = IF Moves(p) /\ QuarterCell(p, From(p)) = i THEN {lost} ELSE {}
  <2>1. \A e : e \in of(-1) <=> Moves(p) /\ e = lost /\ lost.at = i
    BY <1>4, <1>5
  <2> HIDE DEF of
  <2>2. CASE Moves(p) /\ lost.at = i
    BY <1>5, <2>1, <2>2
  <2>3. CASE ~(Moves(p) /\ lost.at = i)
    BY <1>5, <2>1, <2>3
  <2> QED BY <2>2, <2>3
<1>8. Moves(p) => /\ QuarterCell(p, 5 - From(p)) = i <=> c = Downstream(p)
                  /\ QuarterCell(p, From(p)) = i <=> c = Upstream(p)
  <2> SUFFICES ASSUME Moves(p)
               PROVE  /\ QuarterCell(p, 5 - From(p)) = i <=> c = Downstream(p)
                      /\ QuarterCell(p, From(p)) = i <=> c = Upstream(p)
    OBVIOUS
  <2>1. p \in Origins /\ CellsPlaced(p)
    BY <1>2, <1>3
  <2>2. /\ QuarterCell(p, From(p)) = At("cell", Upstream(p)) /\ Upstream(p) \in Places("cell")
        /\ QuarterCell(p, 5 - From(p)) = At("cell", Downstream(p)) /\ Downstream(p) \in Places("cell")
    BY <2>1, UpDown
  <2>3. \A d \in Places("cell") : At("cell", d) = At("cell", c) => d = c
    <3> DEFINE k == "cell"
    <3>1. Grid /\ k \in Kinds /\ c \in Places(k)
      BY WideGridIsGrid DEF Kinds
    <3> HIDE DEF k
    <3>2. \A d \in Places(k) : At(k, d) = At(k, c) => d = c
      BY <3>1, ElementsApart
    <3> QED BY <3>2 DEF k
  <2> QED BY <2>2, <2>3
<1>9. /\ Cardinality(of(1)) = IF Moves(p) /\ c = Downstream(p) THEN 1 ELSE 0
      /\ Cardinality(of(-1)) = IF Moves(p) /\ c = Upstream(p) THEN 1 ELSE 0
  <2>1. Cardinality({}) = 0 /\ \A e : Cardinality({e}) = 1
    BY FS_EmptySet, FS_Singleton
  <2> HIDE DEF of, i
  <2> QED BY <1>6, <1>7, <1>8, <2>1
<1>10. Sum(a, i, p) = Cardinality(of(1)) - Cardinality(of(-1))
  BY DEF Sum
<1> QED BY <1>9, <1>10

\* When the corners of the mass are done, in ProjectMassCornerFluxes and its boundary kernel,
\* and likewise those of the energy, each node that moves along a diagonal has taken its
\* piece from the cell it comes from and given it to the opposite one, once, the twins on
\* the seams of a periodic grid together; nothing else was added or subtracted.
THEOREM CornerFluxesAlwaysCross == Spec => []CornerFluxesCross
<1>1. Init => SizesInv /\ CornersInv
  BY SizesInitially, CornersInitially
<1>2. (SizesInv /\ CornersInv) /\ [Next]_allvars => (SizesInv /\ CornersInv)'
  BY SizesNext, CornersNext
<1>3. SizesInv /\ CornersInv => CornerFluxesCross
  <2> SUFFICES ASSUME SizesInv, CornersInv, NEW a \in {"out_mass", "out_e"},
                      Returned(Seam(a)), BoundaryConditions \in {"periodic", "Wall"},
                      NEW p \in Nodes, NEW c \in Places("cell")
               PROVE  Sum(a, At("cell", c), p) =
                        (IF Moves(p) /\ c = Downstream(p) THEN 1 ELSE 0)
                        - (IF Moves(p) /\ c = Upstream(p) THEN 1 ELSE 0)
    BY DEF CornerFluxesCross
  <2>1. pc \in Int /\ WideGrid /\ WallsStill
    BY DEF SizesInv, CornersInv
  <2>2. PICK k \in 1 .. 49 : Driver[k] = Seam(a) /\ k < pc
    BY DriverCalls DEF Returned
  <2>3. Driver[k].part = "seam" /\ a \in Driver[k].outs
    BY <2>2, CallFields
  <2>4. CASE a = "out_mass"
    <3>1. k = 19
      BY <2>3, <2>4, CallParts, StoringCalls
    <3>2. pc > 18 + 1 /\ 18 \in Int /\ Accounted(a, 18)
      BY <2>1, <2>2, <2>4, <3>1 DEF CornersInv
    <3> QED BY <2>1, <3>2, SumsAre
  <2>5. CASE a = "out_e"
    <3>1. k = 32
      BY <2>3, <2>5, CallParts, StoringCalls
    <3>2. pc > 31 + 1 /\ 31 \in Int /\ Accounted(a, 31)
      BY <2>1, <2>2, <2>5, <3>1 DEF CornersInv
    <3> QED BY <2>1, <3>2, SumsAre
  <2> QED BY <2>4, <2>5
<1> QED BY <1>1, <1>2, <1>3, PTL DEF Spec
-----------------------------------------------------------------------------
\* The momentum.  What the kernels have for a place: the node, its twins, the nine nodes and
\* the four cells around it.
AroundAt(p) ==
  LET n     == NodeAt(p[1], p[2], nx)
      right == n + nx
      top   == NodeAt(p[1], ny, nx)
  IN IF p = <<0, 0>> THEN CornerAround
     ELSE IF p[1] = 0
     THEN Around(p, {n, right}, n,
            <<NodeNodeM1M1(right, p[2], nx), NodeNodeOM1(right, p[2], nx), NodeNodeP1M1(n, p[2], nx),
              NodeNodeM1O(n, p[2], nx), n, NodeNodeP1O(n, p[2], nx),
              NodeNodeM1P1(right, p[2], nx), NodeNodeOP1(n, p[2], nx), NodeNodeP1P1(n, p[2], nx)>>,
            CellsAround(right, n, right, n, p[2], p[2]))
     ELSE IF p[2] = 0
     THEN Around(p, {n, top}, n,
            <<NodeNodeM1M1(top, ny, nx), NodeNodeOM1(top, ny, nx), NodeNodeP1M1(top, ny, nx),
              NodeNodeM1O(n, 0, nx), n, NodeNodeP1O(n, 0, nx),
              NodeNodeM1P1(n, 0, nx), NodeNodeOP1(n, 0, nx), NodeNodeP1P1(n, 0, nx)>>,
            CellsAround(top, top, n, n, ny, 0))
     ELSE Around(p, {n}, n,
            <<NodeNodeM1M1(n, p[2], nx), NodeNodeOM1(n, p[2], nx), NodeNodeP1M1(n, p[2], nx),
              NodeNodeM1O(n, p[2], nx), n, NodeNodeP1O(n, p[2], nx),
              NodeNodeM1P1(n, p[2], nx), NodeNodeOP1(n, p[2], nx), NodeNodeP1P1(n, p[2], nx)>>,
            CellsAround(n, n, n, n, p[2], p[2]))

LEMMA InnerAroundAre ==
  ASSUME WideGrid, NEW iy \in Inner
  PROVE  InnerAround(iy) = {AroundAt(p) : p \in InnerOrigins({iy})}
<1> DEFINE around(ix) ==
             LET n == NodeAt(ix, iy, nx)
             IN Around(<<ix, iy>>, {n}, n,
                  <<NodeNodeM1M1(n, iy, nx), NodeNodeOM1(n, iy, nx), NodeNodeP1M1(n, iy, nx),
                    NodeNodeM1O(n, iy, nx), n, NodeNodeP1O(n, iy, nx),
                    NodeNodeM1P1(n, iy, nx), NodeNodeOP1(n, iy, nx), NodeNodeP1P1(n, iy, nx)>>,
                  CellsAround(n, n, n, n, iy, iy))
<1>1. InnerAround(iy) = {around(ix) : ix \in 1 .. nx - 1}
  BY DEF InnerAround
<1>2. \A ix \in 1 .. nx - 1 : AroundAt(<<ix, iy>>) = around(ix)
  <2> TAKE ix \in 1 .. nx - 1
  <2>1. <<ix, iy>> # <<0, 0>> /\ ix # 0 /\ iy # 0
    BY DEF Inner, WideGrid
  <2> QED BY <2>1 DEF AroundAt
<1>3. /\ \A p \in InnerOrigins({iy}) : p[1] \in 1 .. nx - 1 /\ p = <<p[1], iy>>
      /\ \A ix \in 1 .. nx - 1 : <<ix, iy>> \in InnerOrigins({iy})
  BY DEF InnerOrigins
<1> HIDE DEF around
<1> QED BY <1>1, <1>2, <1>3

LEMMA SeamAroundAre ==
  ASSUME WideGrid
  PROVE  SeamAround = {AroundAt(p) : p \in EdgeOrigins}
<1> DEFINE side(iy) ==
             LET n == NodeAt(0, iy, nx)
                 sym == n + nx
             IN Around(<<0, iy>>, {n, sym}, n,
                  <<NodeNodeM1M1(sym, iy, nx), NodeNodeOM1(sym, iy, nx), NodeNodeP1M1(n, iy, nx),
                    NodeNodeM1O(n, iy, nx), n, NodeNodeP1O(n, iy, nx),
                    NodeNodeM1P1(sym, iy, nx), NodeNodeOP1(n, iy, nx), NodeNodeP1P1(n, iy, nx)>>,
                  CellsAround(sym, n, sym, n, iy, iy))
           end(ix) ==
             LET n == NodeAt(ix, 0, nx)
                 sym == NodeAt(ix, ny, nx)
             IN Around(<<ix, 0>>, {n, sym}, n,
                  <<NodeNodeM1M1(sym, ny, nx), NodeNodeOM1(sym, ny, nx), NodeNodeP1M1(sym, ny, nx),
                    NodeNodeM1O(n, 0, nx), n, NodeNodeP1O(n, 0, nx),
                    NodeNodeM1P1(n, 0, nx), NodeNodeOP1(n, 0, nx), NodeNodeP1P1(n, 0, nx)>>,
                  CellsAround(sym, sym, n, n, ny, 0))
<1>1. SidesAround = {side(iy) : iy \in Inner} /\ EndsAround = {end(ix) : ix \in 1 .. nx - 1}
  BY DEF SidesAround, EndsAround
<1>2. \A iy \in Inner : AroundAt(<<0, iy>>) = side(iy)
  <2> TAKE iy \in Inner
  <2>1. <<0, iy>> # <<0, 0>>
    BY DEF Inner, WideGrid
  <2> QED BY <2>1 DEF AroundAt
<1>3. \A ix \in 1 .. nx - 1 : AroundAt(<<ix, 0>>) = end(ix)
  <2> TAKE ix \in 1 .. nx - 1
  <2>1. <<ix, 0>> # <<0, 0>> /\ ix # 0
    BY DEF WideGrid
  <2> QED BY <2>1 DEF AroundAt
<1>4. AroundAt(<<0, 0>>) = CornerAround
  BY DEF AroundAt
<1>5. /\ \A p \in EdgeOrigins : \/ p = <<0, 0>>
                                \/ \E iy \in Inner : p = <<0, iy>>
                                \/ \E ix \in 1 .. nx - 1 : p = <<ix, 0>>
      /\ <<0, 0>> \in EdgeOrigins
      /\ \A iy \in Inner : <<0, iy>> \in EdgeOrigins
      /\ \A ix \in 1 .. nx - 1 : <<ix, 0>> \in EdgeOrigins
  BY DEF EdgeOrigins, Origins, Inner, WideGrid
<1> HIDE DEF side, end
<1>6. \A s : s \in SeamAround <=> \/ s = CornerAround
                                  \/ \E iy \in Inner : s = side(iy)
                                  \/ \E ix \in 1 .. nx - 1 : s = end(ix)
  BY <1>1 DEF SeamAround
<1>7. \A s : s \in {AroundAt(p) : p \in EdgeOrigins} => s \in SeamAround
  <2> SUFFICES ASSUME NEW p \in EdgeOrigins PROVE AroundAt(p) \in SeamAround
    OBVIOUS
  <2>1. CASE p = <<0, 0>>
    BY <2>1, <1>4, <1>6
  <2>2. ASSUME NEW iy \in Inner, p = <<0, iy>> PROVE AroundAt(p) \in SeamAround
    BY <2>2, <1>2, <1>6
  <2>3. ASSUME NEW ix \in 1 .. nx - 1, p = <<ix, 0>> PROVE AroundAt(p) \in SeamAround
    BY <2>3, <1>3, <1>6
  <2> QED BY <2>1, <2>2, <2>3, <1>5
<1>8. \A s \in SeamAround : s \in {AroundAt(p) : p \in EdgeOrigins}
  <2> TAKE s \in SeamAround
  <2>1. CASE s = CornerAround
    BY <2>1, <1>4, <1>5
  <2>2. ASSUME NEW iy \in Inner, s = side(iy)
        PROVE  s \in {AroundAt(p) : p \in EdgeOrigins}
    <3>1. <<0, iy>> \in EdgeOrigins /\ s = AroundAt(<<0, iy>>)
      BY <2>2, <1>2, <1>5
    <3> QED BY <3>1
  <2>3. ASSUME NEW ix \in 1 .. nx - 1, s = end(ix)
        PROVE  s \in {AroundAt(p) : p \in EdgeOrigins}
    <3>1. <<ix, 0>> \in EdgeOrigins /\ s = AroundAt(<<ix, 0>>)
      BY <2>3, <1>3, <1>5
    <3> QED BY <3>1
  <2> QED BY <2>1, <2>2, <2>3, <1>6
<1> QED BY <1>7, <1>8

\* The result for a place goes to its node and the twins of it, as the flux of its corner.
LEMMA AroundTo ==
  ASSUME WideGrid, NEW p \in Origins
  PROVE  AroundAt(p).to = CornerAt(p).to
<1>1. CASE p = <<0, 0>>
  BY <1>1 DEF AroundAt, CornerAt, CornerAround, SeamCorner, Around, Corner
<1>2. CASE p # <<0, 0>> /\ p[1] = 0
  BY <1>2 DEF AroundAt, CornerAt, Around, Corner
<1>3. CASE p # <<0, 0>> /\ p[1] # 0 /\ p[2] = 0
  BY <1>3 DEF AroundAt, CornerAt, Around, Corner
<1>4. CASE p # <<0, 0>> /\ p[1] # 0 /\ p[2] # 0
  BY <1>4 DEF AroundAt, CornerAt, Around, Corner
<1> QED BY <1>1, <1>2, <1>3, <1>4

\* The entries that a place makes in the momentum a.
IsShare(e, a, p) ==
  LET s == AroundAt(p)
  IN \E k \in 1 .. 9 : /\ mem["mass_corner_fluxes"][s.nodes[k]] # Zero
                       /\ \E n \in s.to, gain \in Through(s.nodes[k], Nine[k]) :
                            e = Entry(a, n, <<s.nodes[k], Nine[k]>>, gain, mem["mass_corner_fluxes"][s.nodes[k]])

LEMMA SharesAre ==
  ASSUME NEW a, NEW P, NEW e
  PROVE  e \in MomentumEntries(a, {AroundAt(p) : p \in P}) <=> \E p \in P : IsShare(e, a, p)
<1> DEFINE held(s, k) == mem["mass_corner_fluxes"][s.nodes[k]] # Zero
           some(s, k) == {Entry(a, n, <<s.nodes[k], Nine[k]>>, gain, mem["mass_corner_fluxes"][s.nodes[k]])
                            : n \in s.to, gain \in Through(s.nodes[k], Nine[k])}
           all(s) == UNION {some(s, k) : k \in {k \in 1 .. 9 : held(s, k)}}
           shares(s) == \E k \in 1 .. 9 : held(s, k) /\ e \in some(s, k)
<1>1. \A p : IsShare(e, a, p) <=> shares(AroundAt(p))
  BY DEF IsShare
<1>2. \A S : MomentumEntries(a, S) = UNION {all(s) : s \in S}
  BY DEF MomentumEntries
<1> HIDE DEF held, some
<1>3. \A s : e \in all(s) <=> shares(s)
  OBVIOUS
<1> HIDE DEF all, shares
<1>4. e \in MomentumEntries(a, {AroundAt(p) : p \in P}) <=> \E p \in P : e \in all(AroundAt(p))
  <2>1. e \in MomentumEntries(a, {AroundAt(p) : p \in P}) <=> \E s \in {AroundAt(p) : p \in P} : e \in all(s)
    BY <1>2
  <2> QED BY <2>1
<1> QED BY <1>1, <1>3, <1>4

\* They stay the same while no call stores to the fluxes of the corners or the velocities.
LEMMA SharesNext ==
  ASSUME SameSigns, \A b \in {"u_lag", "v_lag", "mass_corner_fluxes"} : mem'[b] = mem[b]
  PROVE  \A e, a, p : IsShare(e, a, p)' <=> IsShare(e, a, p)
<1>1. \A p : AroundAt(p)' = AroundAt(p)
  <2>1. CornerAround' = CornerAround
    BY DEF CornerAround, CornerNodes, SameSigns, SameSize
  <2> QED BY <2>1 DEF AroundAt, CellsAround, SameSigns, SameSize
<1>2. \A n, d : Through(n, d)' = Through(n, d)
  <2>1. \A n : Sign("u_lag", n)' = Sign("u_lag", n) /\ Sign("v_lag", n)' = Sign("v_lag", n)
    BY DEF Sign, SameSigns
  <2> QED BY <2>1 DEF Through
<1>3. mem'["mass_corner_fluxes"] = mem["mass_corner_fluxes"]
  OBVIOUS
<1> QED BY <1>1, <1>2, <1>3 DEF IsShare

\* What a step does to the entries of a velocity.
LEMMA NodeScatterSteps ==
  ASSUME Next, NEW a \in {"out_u", "out_v"}, pc \in 1 .. 49, Driver[pc] = Scatter(a)
  PROVE  \E iy \in todo :
           /\ pc' = IF todo = {iy} THEN pc + 1 ELSE pc
           /\ todo # {iy} => todo' = todo \ {iy}
           /\ ledger' = ledger \cup MomentumEntries(a, InnerAround(iy))
<1>1. /\ Driver[pc].part = "scatter" /\ Driver[pc].outs = {a}
      /\ \A b : ~Calls("seam", b) /\ (Calls("scatter", b) => b = a)
  BY CallFields DEF Calls
<1>2. ~Row /\ ~Edge
  BY <1>1 DEF Row, LoopRow, Edge, BoundaryCall
<1>3. ~ProjectCells /\ ~SeamCells /\ ~SeamNodes
  BY <1>1 DEF ProjectCells, ProjectCellsCornerFluxes, SeamCells,
              ProjectCellsCornerFluxesBoundary, SeamNodes, ProjectNodalIntensiveVariableCornerFluxesBoundary
<1>4. PICK b \in {"out_u", "out_v"} : ProjectNodalIntensiveVariableCornerFluxes(b)
  BY <1>2, <1>3 DEF Next, ProjectNodes
<1>5. b = a
  BY <1>1, <1>4 DEF ProjectNodalIntensiveVariableCornerFluxes
<1> QED BY <1>4, <1>5 DEF ProjectNodalIntensiveVariableCornerFluxes, Scattered, RowDone

LEMMA NodeSeamSteps ==
  ASSUME Next, NEW a \in {"out_u", "out_v"}, pc \in 1 .. 49, Driver[pc] = Seam(a)
  PROVE  /\ pc' = pc + 1
         /\ ledger' = IF BoundaryConditions = "periodic" THEN ledger \cup MomentumEntries(a, SeamAround) ELSE ledger
<1>1. /\ Driver[pc].part = "seam" /\ Driver[pc].outs = {a}
      /\ \A b : ~Calls("scatter", b) /\ (Calls("seam", b) => b = a)
  BY CallFields DEF Calls
<1>2. ~Row /\ ~Edge
  BY <1>1 DEF Row, LoopRow, Edge, BoundaryCall
<1>3. ~ProjectNodes /\ ~ProjectCells /\ ~SeamCells
  BY <1>1 DEF ProjectNodes, ProjectNodalIntensiveVariableCornerFluxes, ProjectCells,
              ProjectCellsCornerFluxes, SeamCells, ProjectCellsCornerFluxesBoundary
<1>4. PICK b \in {"out_u", "out_v"} : ProjectNodalIntensiveVariableCornerFluxesBoundary(b)
  BY <1>2, <1>3 DEF Next, SeamNodes
<1>5. b = a
  BY <1>1, <1>4 DEF ProjectNodalIntensiveVariableCornerFluxesBoundary
<1> QED BY <1>4, <1>5 DEF ProjectNodalIntensiveVariableCornerFluxesBoundary, Scattered, SeamReturns

\* The entries of a momentum a: those of the places that the loop n, and the seam if the
\* boundary condition is known to its kernel, have come to.
Gathered(a, n) ==
  /\ pc = n => todo \subseteq Inner
  /\ \A e : e \in ledger /\ e.of = a <=>
              \E p \in Reached(n, BoundaryConditions = "periodic", pc, todo) : IsShare(e, a, p)

LEMMA ReachedSame ==
  ASSUME SameSize, NEW n, NEW seam
  PROVE  Reached(n, seam, pc, todo)' = Reached(n, seam, pc', todo')
<1>1. Inner' = Inner /\ Origins' = Origins /\ \A rows : InnerOrigins(rows)' = InnerOrigins(rows)
  BY DEF Inner, Origins, InnerOrigins, SameSize
<1> QED BY <1>1 DEF Reached, InnerOrigins, SameSize

LEMMA GatheredKept ==
  ASSUME SizesInv, Next, NEW a \in {"out_u", "out_v"}, NEW n \in 18 .. 48,
         \A i \in 1 .. 49 : a \in Driver[i].outs /\ Driver[i].part \in {"scatter", "seam"} => i \in {n, n + 1},
         Driver[n] = Scatter(a), Driver[n + 1] = Seam(a),
         RowsFor(Driver, n, Rows) = Inner,
         Gathered(a, n)
  PROVE  Gathered(a, n)'
<1> DEFINE seam == BoundaryConditions = "periodic"
           made(P) == \A e : e \in ledger /\ e.of = a <=> \E p \in P : IsShare(e, a, p)
           done(P) == \A e : e \in ledger' /\ e.of = a <=> \E p \in P : IsShare(e, a, p)
           now(P)  == \A e : e \in ledger' /\ e.of = a <=> \E p \in P : IsShare(e, a, p)'
<1>1. PICK outs : Step(outs)
  BY Steps
<1>2. SameSize /\ pc \in 1 .. 49 /\ WideGrid /\ SameSigns
  BY <1>1, SignsKept DEF Step, Keeps, SizesInv
<1>3. (pc = n => todo \subseteq Inner) /\ made(Reached(n, seam, pc, todo))
  BY DEF Gathered
<1>4. ASSUME (pc' = n => todo' \subseteq Inner) /\ now(Reached(n, seam, pc', todo'))
      PROVE  Gathered(a, n)'
  <2>1. Reached(n, seam, pc, todo)' = Reached(n, seam, pc', todo') /\ Inner' = Inner
    BY <1>2, ReachedSame DEF Inner, SameSize
  <2> QED BY <1>4, <2>1 DEF Gathered
<1>5. pc >= n => \A P : done(P) => now(P)
  <2> SUFFICES ASSUME pc >= n PROVE \A P : done(P) => now(P)
    OBVIOUS
  <2>1. \A b \in {"u_lag", "v_lag", "mass_corner_fluxes"} : b \in DOMAIN mem /\ b \notin Driver[pc].outs
    <3>1. pc # 15 /\ pc # 16
      BY <1>2
    <3>2. {"u_lag", "v_lag", "mass_corner_fluxes"} \subseteq Arrays
      BY DEF Arrays, Inputs, X!Inputs, Scratch, FluxArrays
    <3>3. /\ "u_lag" \notin Driver[pc].outs /\ "v_lag" \notin Driver[pc].outs
          /\ "mass_corner_fluxes" \notin Driver[pc].outs
      BY <1>2, <3>1, StoringCalls
    <3>4. DOMAIN mem = Arrays
      BY DEF SizesInv
    <3> QED BY <3>2, <3>3, <3>4
  <2>2. \A b \in {"u_lag", "v_lag", "mass_corner_fluxes"} : mem'[b] = mem[b]
    BY <1>1, <2>1 DEF Step, Keeps
  <2>3. \A e, p : IsShare(e, a, p)' <=> IsShare(e, a, p)
    BY <1>2, <2>2, SharesNext
  <2> QED BY <2>3
<1>6. ASSUME NEW P, NEW Q, made(Q), ledger' = ledger \cup MomentumEntries(a, {AroundAt(p) : p \in P})
      PROVE  done(Q \cup P)
  <2> SUFFICES ASSUME NEW e PROVE e \in ledger' /\ e.of = a <=> \E p \in Q \cup P : IsShare(e, a, p)
    OBVIOUS
  <2> DEFINE entries == MomentumEntries(a, {AroundAt(p) : p \in P})
  <2>1. e \in entries <=> \E p \in P : IsShare(e, a, p)
    BY SharesAre
  <2>2. \A p : IsShare(e, a, p) => e.of = a
    <3>1. \A i, from, gain, w : Entry(a, i, from, gain, w).of = a
      BY DEF Entry
    <3> QED BY <3>1 DEF IsShare
  <2>3. e \in ledger /\ e.of = a <=> \E p \in Q : IsShare(e, a, p)
    BY <1>6
  <2>4. ledger' = ledger \cup entries
    BY <1>6
  <2> HIDE DEF entries
  <2> QED BY <2>1, <2>2, <2>3, <2>4
<1>7. now({}) <=> \A e \in ledger' : e.of # a
  OBVIOUS
<1> HIDE DEF made, done, now
<1>8. CASE pc = n
  <2>1. /\ made(InnerOrigins(Inner \ todo)) /\ n \in 1 .. 49 /\ n + 1 # n /\ ~(n + 1 < n) /\ pc >= n
        /\ todo \subseteq Inner
    BY <1>3, <1>8 DEF Reached
  <2>2. PICK iy \in todo : /\ pc' = IF todo = {iy} THEN n + 1 ELSE n
                           /\ todo # {iy} => todo' = todo \ {iy}
                           /\ ledger' = ledger \cup MomentumEntries(a, InnerAround(iy))
    BY <1>2, <1>8, NodeScatterSteps
  <2>3. ledger' = ledger \cup MomentumEntries(a, {AroundAt(p) : p \in InnerOrigins({iy})})
    BY <1>2, <2>1, <2>2, InnerAroundAre
  <2>4. now(InnerOrigins(Inner \ todo) \cup InnerOrigins({iy}))
    <3> DEFINE P == InnerOrigins({iy})
               Q == InnerOrigins(Inner \ todo)
    <3>1. made(Q) /\ ledger' = ledger \cup MomentumEntries(a, {AroundAt(p) : p \in P})
      BY <2>1, <2>3
    <3> HIDE DEF P, Q
    <3>2. now(Q \cup P)
      BY <1>5, <1>6, <2>1, <3>1
    <3> QED BY <3>2 DEF P, Q
  <2>5. /\ InnerOrigins(Inner \ todo) \cup InnerOrigins({iy}) = InnerOrigins(Inner \ (todo \ {iy}))
        /\ todo = {iy} => InnerOrigins(Inner \ todo) \cup InnerOrigins({iy}) = InnerOrigins(Inner)
    BY <2>1, RowReached
  <2>6. CASE todo = {iy}
    <3>1. pc' = n + 1 /\ now(InnerOrigins(Inner))
      BY <2>2, <2>4, <2>5, <2>6
    <3>2. pc' # n /\ now(Reached(n, seam, pc', todo'))
      BY <2>1, <3>1 DEF Reached
    <3> QED BY <1>4, <3>2
  <2>7. CASE todo # {iy}
    <3>1. pc' = n /\ todo' = todo \ {iy} /\ now(InnerOrigins(Inner \ todo'))
      BY <2>2, <2>4, <2>5, <2>7
    <3>2. todo' \subseteq Inner /\ now(Reached(n, seam, pc', todo'))
      BY <2>1, <3>1 DEF Reached
    <3> QED BY <1>4, <3>2
  <2> QED BY <2>6, <2>7
<1>9. CASE pc = n + 1
  <2>1. made(InnerOrigins(Inner)) /\ n + 2 # n /\ n + 2 # n + 1 /\ ~(n + 2 < n) /\ pc >= n
    <3>1. n + 1 # n /\ ~(n + 1 < n)
      OBVIOUS
    <3> QED BY <1>3, <1>9, <3>1 DEF Reached
  <2>2. pc' = n + 2 /\ ledger' = IF seam THEN ledger \cup MomentumEntries(a, SeamAround) ELSE ledger
    <3>1. pc' = pc + 1 /\ ledger' = IF seam THEN ledger \cup MomentumEntries(a, SeamAround) ELSE ledger
      BY <1>2, <1>9, NodeSeamSteps
    <3> QED BY <1>9, <3>1
  <2>3. CASE ~seam
    <3>1. done(InnerOrigins(Inner))
      BY <2>1, <2>2, <2>3 DEF made, done
    <3>2. now(Reached(n, seam, pc', todo'))
      BY <1>5, <2>1, <2>2, <2>3, <3>1 DEF Reached
    <3> QED BY <1>4, <2>1, <2>2, <3>2
  <2>4. CASE seam
    <3> DEFINE P == EdgeOrigins
               Q == InnerOrigins(Inner)
    <3>1. ledger' = ledger \cup MomentumEntries(a, {AroundAt(p) : p \in P})
      BY <1>2, <2>2, <2>4, SeamAroundAre
    <3>2. Q \cup P = Origins /\ made(Q)
      BY <1>2, <2>1, SeamReached
    <3> HIDE DEF P, Q
    <3>3. now(Origins)
      BY <1>5, <1>6, <2>1, <3>1, <3>2
    <3>4. now(Reached(n, seam, pc', todo'))
      BY <2>1, <2>2, <2>4, <3>3 DEF Reached
    <3> QED BY <1>4, <2>1, <2>2, <3>4
  <2> QED BY <2>3, <2>4
<1>10. CASE pc \notin {n, n + 1}
  <2>1. ~Calls("scatter", a) /\ ~Calls("seam", a)
    <3>1. Driver[pc].part \in {"scatter", "seam"} => a \notin Driver[pc].outs
      BY <1>2, <1>10
    <3> QED BY <3>1 DEF Calls
  <2>2. \A e : e.of = a => (e \in ledger' <=> e \in ledger)
    BY <2>1, OtherSteps
  <2>3. \/ pc' = pc + 1 /\ todo' = RowsFor(Driver, pc + 1, Rows)
        \/ pc' = pc
    BY <1>1 DEF Step
  <2>4. CASE pc > n + 1
    <3>1. ~(pc < n) /\ ~(pc' < n) /\ pc' # n /\ pc' # n + 1 /\ pc >= n
      BY <1>2, <2>3, <2>4
    <3>2. Reached(n, seam, pc', todo') = Reached(n, seam, pc, todo)
      BY <1>10, <3>1 DEF Reached
    <3>3. done(Reached(n, seam, pc', todo'))
      BY <1>3, <2>2, <3>2 DEF made, done
    <3> QED BY <1>4, <1>5, <3>1, <3>3
  <2>5. CASE pc < n
    <3>1. Reached(n, seam, pc, todo) = {}
      BY <2>5 DEF Reached
    <3>2. pc' < n \/ (pc' = n /\ todo' = Inner)
      BY <1>2, <2>3, <2>5
    <3>3. Reached(n, seam, pc', todo') = {}
      BY <3>2 DEF Reached, InnerOrigins
    <3>4. pc' = n => todo' \subseteq Inner
      BY <3>2
    <3>5. \A e \in ledger' : e.of # a
      BY <1>3, <2>2, <3>1 DEF made
    <3>6. now(Reached(n, seam, pc', todo'))
      BY <1>7, <3>3, <3>5
    <3> QED BY <1>4, <3>4, <3>6
  <2> QED BY <1>2, <1>10, <2>4, <2>5
<1> QED BY <1>8, <1>9, <1>10

\* Off the walls the velocities of a node, before and after the acceleration, are those of the
\* place of which it is the twin.
Open(q) == BoundaryConditions = "periodic" \/ (BoundaryConditions = "Wall" /\ ~OnEdge(q))

OneVelocity ==
  /\ flow \in Flows
  /\ \A q \in Places("node") : Open(q) =>
       \A a \in Velocities : mem[a][At("node", q)] = Fold("node", q)

LEMMA VelocityArrays ==
  \A a \in Velocities : a \in Inputs /\ KindOf(a) = "node"
<1> SUFFICES ASSUME NEW a \in Velocities PROVE a \in Inputs /\ KindOf(a) = "node"
  OBVIOUS
<1>1. CASE a = "u_lag"
  BY <1>1 DEF Inputs, X!Inputs, KindOf
<1>2. CASE a = "v_lag"
  BY <1>2 DEF Inputs, X!Inputs, KindOf
<1>3. CASE a \in {"predicted_u", "predicted_v"}
  BY <1>3, InputSigns
<1> QED BY <1>1, <1>2, <1>3 DEF Velocities

LEMMA OneVelocityInitially == Init => OneVelocity
<1> SUFFICES ASSUME Init, NEW q \in Places("node"), Open(q), NEW a \in Velocities
             PROVE  flow \in Flows /\ mem[a][At("node", q)] = Fold("node", q)
  BY DEF OneVelocity, Init
<1>1. flow \in Flows /\ Grid
  BY SizesInitially, WideGridIsGrid DEF SizesInv, Init
<1>2. mem[a] = Filled(a) /\ KindOf(a) = "node"
  BY VelocityArrays DEF Init, GridInit
<1>3. mem[a][At("node", q)] = Right(a, q)
  <2>1. KindOf(a) \in Kinds /\ q \in Places(KindOf(a))
    BY <1>2 DEF Kinds
  <2>2. Filled(a)[At(KindOf(a), q)] = Right(a, q)
    BY <1>1, <2>1, FilledRight
  <2> QED BY <1>2, <2>2
<1>4. ~OnWallX(q) /\ ~OnWallY(q)
  BY DEF Open, OnEdge, OnWallX, OnWallY, WallsX, WallsY
<1>5. ~Held(a, q)
  <2>1. a \in {"u_lag", "v_lag", "predicted_u", "predicted_v"}
    BY DEF Velocities
  <2> QED BY <1>4, <2>1 DEF Held
<1> QED BY <1>1, <1>2, <1>3, <1>5 DEF Right

LEMMA OneVelocityKept ==
  ASSUME OneVelocity, SameSigns, mem'["u_lag"] = mem["u_lag"], mem'["v_lag"] = mem["v_lag"]
  PROVE  OneVelocity'
<1>1. SameSize /\ flow' = flow /\ \A a \in Velocities : mem'[a] = mem[a]
  BY DEF SameSigns, Velocities
<1>2. /\ Places("node")' = Places("node") /\ \A p : At("node", p)' = At("node", p)
      /\ \A q : Open(q)' <=> Open(q)
  BY <1>1, SameGridNext DEF SameSize, Open, OnEdge
<1>3. \A q : Fold("node", q)' = Fold("node", q)
  BY <1>1 DEF SameSize, Fold, WallsX, WallsY
<1> QED BY <1>1, <1>2, <1>3 DEF OneVelocity

LEMMA LagKept ==
  ASSUME SizesInv, Next
  PROVE  mem'["u_lag"] = mem["u_lag"] /\ mem'["v_lag"] = mem["v_lag"]
<1>1. PICK outs : Step(outs)
  BY Steps
<1>2. "u_lag" \notin outs /\ "v_lag" \notin outs
  BY <1>1, StoringCalls DEF Step
<1>3. "u_lag" \in DOMAIN mem /\ "v_lag" \in DOMAIN mem
  BY VelocityArrays DEF SizesInv, Arrays, Velocities
<1> QED BY <1>1, <1>2, <1>3 DEF Step, Keeps

\* No kernel stores the flux of a node to another one.
Carriers == OwnFlux(mem["mass_corner_fluxes"])

LEMMA CarriersInitially == Init => Carriers
<1> SUFFICES ASSUME Init, NEW q \in Places("node")
             PROVE  mem["mass_corner_fluxes"][At("node", q)] = Garbage
  BY DEF Carriers, OwnFlux
<1> DEFINE a == "mass_corner_fluxes"
<1>1. a \in Scratch /\ a \notin Inputs /\ a \notin X!Zeroed /\ KindOf(a) = "node"
  BY DEF Scratch, FluxArrays, Inputs, X!Inputs, Y!Inputs, X!Zeroed, KindOf
<1>2. At("node", q) \in 0 .. Size("node") - 1
  <2> DEFINE K == "node"
  <2>1. Grid /\ K \in Kinds /\ q \in Places(K)
    BY SizesInitially, WideGridIsGrid DEF SizesInv, Kinds
  <2> HIDE DEF K
  <2>2. At(K, q) \in 0 .. Size(K) - 1
    BY <2>1, ElementsInside
  <2> QED BY <2>2 DEF K
<1>3. mem[a] = [i \in 0 .. Size("node") - 1 |-> Garbage]
  <2> HIDE DEF a
  <2> QED BY <1>1 DEF Init, GridInit
<1> QED BY <1>2, <1>3

LEMMA CarriersNext ==
  ASSUME SameSize
  PROVE  Carriers' <=> OwnFlux(mem'["mass_corner_fluxes"])
<1>1. /\ \A p : At("node", p)' = At("node", p) /\ Wrapped(p)' = Wrapped(p)
      /\ Places("node")' = Places("node")
  BY SameGridNext DEF SameSize, Wrapped
<1> QED BY <1>1 DEF Carriers, OwnFlux

LEMMA CarriersKept ==
  ASSUME SizesInv, CornerStage("mass_corner_fluxes", 15), Carriers, Next
  PROVE  Carriers'
<1> DEFINE a == "mass_corner_fluxes"
           m == mem[a]
<1>1. PICK outs : Step(outs)
  BY Steps
<1>2. SameSize /\ pc \in 1 .. 49 /\ WideGrid
  BY <1>1 DEF Step, Keeps, SizesInv
<1>3. /\ a \in FluxArrays /\ OwnFlux(m) /\ a \in DOMAIN mem /\ OfNodes(m)
      /\ \A i \in 1 .. 49 : a \in Driver[i].outs <=> i \in {15, 16}
      /\ Driver[15].part = "loop" /\ Driver[16].part = "boundary"
  <2>1. a \in FluxArrays
    BY DEF FluxArrays
  <2> QED BY <2>1, CornerKernels, StoringCalls, DriverCalls, CallFields DEF Carriers
<1> SUFFICES OwnFlux(mem'[a])
  BY <1>2, CarriersNext
<1>4. ASSUME NEW P \in SUBSET Origins
      PROVE  OwnFlux(Stored(m, CornerFluxStores(a, {CornerAt(p) : p \in P})))
  <2>1. CornersOn(m, {}) /\ {} \in SUBSET Origins
    BY DEF CornersOn
  <2> HIDE DEF m, a
  <2> QED BY <1>2, <1>3, <2>1, CornersStored
<1>5. CASE pc = 15
  <2>1. \/ mem'[a] = m
        \/ \E iy \in todo : mem'[a] = Stored(m, LoopStores(a, iy))
    BY <1>3, <1>5, LoopSteps
  <2>2. CASE mem'[a] = m
    BY <1>3, <2>2
  <2>3. ASSUME NEW iy \in todo, mem'[a] = Stored(m, LoopStores(a, iy))
        PROVE  OwnFlux(mem'[a])
    <3>1. iy \in Inner
      BY <1>5 DEF CornerStage
    <3>2. InnerCorners(iy) = {CornerAt(p) : p \in InnerOrigins({iy})}
      BY <1>2, <3>1, InnerCornersAre
    <3>3. InnerOrigins({iy}) \in SUBSET Origins
      <4>1. {iy} \in SUBSET Inner
        BY <3>1
      <4> QED BY <1>2, <4>1, InnerAreOrigins
    <3> QED BY <1>3, <1>4, <2>3, <3>2, <3>3, CornerKernels
  <2> QED BY <2>1, <2>2, <2>3
<1>6. CASE pc = 16
  <2>1. mem'[a] = Stored(m, BoundaryStores(a))
    BY <1>3, <1>6, EdgeSteps
  <2>2. CASE BoundaryConditions = "Wall"
    <3>1. CornersOn(m, InnerOrigins(Inner))
      BY <1>6 DEF CornerStage, Reached
    <3> QED BY <1>2, <1>3, <2>1, <2>2, <3>1, CornerKernels, WallKeepsInner
  <2>3. CASE BoundaryConditions # "Wall"
    <3>1. EdgeOrigins \in SUBSET Origins
      BY DEF EdgeOrigins
    <3>2. mem'[a] = Stored(m, CornerFluxStores(a, {CornerAt(p) : p \in EdgeOrigins}))
      BY <1>2, <1>3, <2>1, <2>3, CornerKernels, SeamCornersAre
    <3> QED BY <1>4, <3>1, <3>2
  <2> QED BY <2>2, <2>3
<1>7. CASE pc \notin {15, 16}
  <2>1. mem'[a] = m
    BY <1>1, <1>3, <1>7 DEF Step, Keeps
  <2> QED BY <1>3, <2>1
<1> QED BY <1>5, <1>6, <1>7

\* The inductive invariant of the momentum, with that of the corners.
MomentumInv == OneVelocity /\ Carriers /\ Gathered("out_u", 39) /\ Gathered("out_v", 47)

LEMMA MomentumInitially == Init => MomentumInv
<1> SUFFICES ASSUME Init PROVE MomentumInv
  OBVIOUS
<1>1. pc = 1 /\ ledger = {}
  BY DEF Init
<1>2. \A n \in Int : 1 < n => \A a : Gathered(a, n)
  <2> TAKE n \in Int
  <2> HAVE 1 < n
  <2> TAKE a
  <2>1. pc # n /\ \A seam : Reached(n, seam, pc, todo) = {}
    BY <1>1 DEF Reached
  <2> QED BY <1>1, <2>1 DEF Gathered
<1> QED BY <1>2, OneVelocityInitially, CarriersInitially DEF MomentumInv

LEMMA MomentumNext == SizesInv /\ CornersInv /\ MomentumInv /\ [Next]_allvars => MomentumInv'
<1> SUFFICES ASSUME SizesInv, CornersInv, MomentumInv, [Next]_allvars PROVE MomentumInv'
  OBVIOUS
<1>1. CASE Next
  <2>1. OneVelocity'
    BY <1>1, LagKept, SignsKept, OneVelocityKept DEF MomentumInv
  <2>2. /\ RowsFor(Driver, 39, Rows) = Inner /\ RowsFor(Driver, 47, Rows) = Inner
        /\ Driver[39] = Scatter("out_u") /\ Driver[39 + 1] = Seam("out_u")
        /\ Driver[47] = Scatter("out_v") /\ Driver[47 + 1] = Seam("out_v")
    <3>1. 39 + 1 = 40 /\ 47 + 1 = 48
      OBVIOUS
    <3> QED BY <3>1, DriverCalls, RowsOfCalls
  <2>3. /\ \A i \in 1 .. 49 : "out_u" \in Driver[i].outs /\ Driver[i].part \in {"scatter", "seam"} => i \in {39, 39 + 1}
        /\ \A i \in 1 .. 49 : "out_v" \in Driver[i].outs /\ Driver[i].part \in {"scatter", "seam"} => i \in {47, 47 + 1}
    BY GivingCalls
  <2>4. 39 \in 18 .. 48 /\ 47 \in 18 .. 48
    OBVIOUS
  <2>5. Gathered("out_u", 39)'
    BY <1>1, <2>2, <2>3, <2>4, GatheredKept DEF MomentumInv
  <2>6. Gathered("out_v", 47)'
    BY <1>1, <2>2, <2>3, <2>4, GatheredKept DEF MomentumInv
  <2>7. Carriers'
    BY <1>1, CarriersKept DEF CornersInv, MomentumInv
  <2> QED BY <2>1, <2>5, <2>6, <2>7 DEF MomentumInv
<1>2. CASE UNCHANGED allvars
  <2>1. SameSigns /\ SameSize /\ UNCHANGED <<mem, pc, todo, ledger>>
    BY <1>2 DEF SameSigns, SameSize, allvars, vars
  <2>2. OneVelocity'
    BY <2>1, OneVelocityKept DEF MomentumInv
  <2>3. \A e, a, p : IsShare(e, a, p)' <=> IsShare(e, a, p)
    BY <2>1, SharesNext
  <2>4. Inner' = Inner /\ BoundaryConditions' = BoundaryConditions
    BY <2>1 DEF SameSize, Inner
  <2>5. \A a, n : Gathered(a, n) => Gathered(a, n)'
    <3> TAKE a, n
    <3>1. Reached(n, BoundaryConditions = "periodic", pc, todo)' = Reached(n, BoundaryConditions = "periodic", pc', todo')
      BY <2>1 DEF Reached, InnerOrigins, Inner, Origins, SameSize
    <3>2. pc' = pc /\ todo' = todo /\ ledger' = ledger
      BY <2>1
    <3> QED BY <2>3, <2>4, <3>1, <3>2 DEF Gathered
  <2>6. Carriers'
    BY <2>1, CarriersNext DEF MomentumInv, Carriers
  <2> QED BY <2>2, <2>5, <2>6 DEF MomentumInv
<1> QED BY <1>1, <1>2

\* Around a node.  On one axis of n places: the place beside z in direction d, the two
\* directions that a dual cell is entered from, and the cell ahead of a node c.
Beyond(z, d, n) == IF d = -1 THEN Before(z, n) ELSE IF d = 0 THEN z ELSE IF z = n - 1 THEN 0 ELSE z + 1

Towards(s) == IF s = 1 THEN {-1, 0} ELSE {0, 1}

Ahead(s, c, n) == IF s = 1 THEN c ELSE Before(c, n)

\* A node reaches another from one side if, and only if, the cell ahead is beside the other.
LEMMA AheadBeside ==
  ASSUME NEW n \in Nat \ {0, 1}, NEW z \in 0 .. n - 1, NEW c \in 0 .. n - 1, NEW s \in {-1, 1}
  PROVE  /\ (\E d \in Towards(s) : Beyond(z, d, n) = c) <=> Ahead(s, c, n) \in {Before(z, n), z}
         /\ \A d1, d2 \in Towards(s) : Beyond(z, d1, n) = Beyond(z, d2, n) => d1 = d2
         /\ Before(z, n) # z
<1>1. CASE s = 1
  <2>1. Towards(s) = {-1, 0} /\ Ahead(s, c, n) = c
    BY <1>1 DEF Towards, Ahead
  <2>2. Beyond(z, -1, n) = Before(z, n) /\ Beyond(z, 0, n) = z
    BY DEF Beyond
  <2>3. Before(z, n) # z
    BY DEF Before
  <2> QED BY <2>1, <2>2, <2>3
<1>2. CASE s = -1
  <2>1. Towards(s) = {0, 1} /\ Ahead(s, c, n) = Before(c, n)
    BY <1>2 DEF Towards, Ahead
  <2>2. Beyond(z, 0, n) = z /\ Beyond(z, 1, n) = IF z = n - 1 THEN 0 ELSE z + 1
    BY DEF Beyond
  <2>3. Before(z, n) # z /\ z # IF z = n - 1 THEN 0 ELSE z + 1
    BY DEF Before
  <2>4. Before(c, n) = z <=> c = IF z = n - 1 THEN 0 ELSE z + 1
    BY DEF Before
  <2>5. Before(c, n) = Before(z, n) <=> c = z
    BY DEF Before
  <2> QED BY <2>1, <2>2, <2>3, <2>4, <2>5
<1> QED BY <1>1, <1>2

\* The flux of a node that moves in both directions goes through the dual cells on two of its
\* corners: into the one and out of the other.
LEMMA ThroughIs ==
  ASSUME NEW n, NEW su \in {-1, 0, 1}, NEW sv \in {-1, 0, 1},
         Sign("u_lag", n) = su, Sign("v_lag", n) = sv,
         NEW dx \in {-1, 0, 1}, NEW dy \in {-1, 0, 1}, NEW g
  PROVE  g \in Through(n, <<dx, dy>>) <=>
           /\ g \in {-1, 1} /\ su # 0 /\ sv # 0
           /\ dx \in Towards(g * su) /\ dy \in Towards(g * sv)
<1> SUFFICES ASSUME NEW d, d = <<dx, dy>>
             PROVE  g \in Through(n, d) <=>
                      /\ g \in {-1, 1} /\ su # 0 /\ sv # 0
                      /\ dx \in Towards(g * su) /\ dy \in Towards(g * sv)
  OBVIOUS
<1> DEFINE gains == IF su * sv > 0 THEN {<<SW, su>>, <<NE, -su>>}
                    ELSE IF su * sv < 0 THEN {<<SE, sv>>, <<NW, -sv>>} ELSE {}
<1>1. Through(n, d) = {c[2] : c \in {c \in gains : d \in c[1]}}
  BY DEF Through
<1>2. /\ d \in SW <=> dx \in {-1, 0} /\ dy \in {-1, 0}
      /\ d \in SE <=> dx \in {0, 1} /\ dy \in {-1, 0}
      /\ d \in NW <=> dx \in {-1, 0} /\ dy \in {0, 1}
      /\ d \in NE <=> dx \in {0, 1} /\ dy \in {0, 1}
  BY DEF SW, SE, NW, NE
<1>3. ASSUME g \in {-1, 1}, NEW h \in {-1, 1}
      PROVE  Towards(g * h) = IF g = h THEN {-1, 0} ELSE {0, 1}
  <2>1. g * h = IF g = h THEN 1 ELSE -1
    <3>1. CASE g = 1
      BY <3>1
    <3>2. CASE g = -1
      BY <3>2
    <3> QED BY <1>3, <3>1, <3>2
  <2> QED BY <1>3, <2>1 DEF Towards
<1>4. /\ su = 0 \/ sv = 0 => gains = {}
      /\ su = 1 /\ sv = 1 => gains = {<<SW, 1>>, <<NE, -1>>}
      /\ su = -1 /\ sv = -1 => gains = {<<SW, -1>>, <<NE, 1>>}
      /\ su = -1 /\ sv = 1 => gains = {<<SE, 1>>, <<NW, -1>>}
      /\ su = 1 /\ sv = -1 => gains = {<<SE, -1>>, <<NW, 1>>}
  OBVIOUS
<1> HIDE DEF gains
<1>5. g \in Through(n, d) <=> \E c \in gains : d \in c[1] /\ g = c[2]
  BY <1>1
<1>7. CASE su = 0 \/ sv = 0
  BY <1>4, <1>5, <1>7
<1>8. CASE su = 1 /\ sv = 1
  <2>1. g \in Through(n, d) <=> (d \in SW /\ g = 1) \/ (d \in NE /\ g = -1)
    <3>1. gains = {<<SW, 1>>, <<NE, -1>>}
      BY <1>4, <1>8
    <3> QED BY <1>5, <3>1
  <2>2. g \in {-1, 1} => /\ Towards(g * su) = IF g = su THEN {-1, 0} ELSE {0, 1}
                         /\ Towards(g * sv) = IF g = sv THEN {-1, 0} ELSE {0, 1}
    BY <1>3, <1>8
  <2>3. CASE g = 1
    BY <1>2, <1>8, <2>1, <2>2, <2>3
  <2>4. CASE g = -1
    BY <1>2, <1>8, <2>1, <2>2, <2>4
  <2> QED BY <2>1, <2>3, <2>4
<1>9. CASE su = -1 /\ sv = -1
  <2>1. g \in Through(n, d) <=> (d \in SW /\ g = -1) \/ (d \in NE /\ g = 1)
    <3>1. gains = {<<SW, -1>>, <<NE, 1>>}
      BY <1>4, <1>9
    <3> QED BY <1>5, <3>1
  <2>2. g \in {-1, 1} => /\ Towards(g * su) = IF g = su THEN {-1, 0} ELSE {0, 1}
                         /\ Towards(g * sv) = IF g = sv THEN {-1, 0} ELSE {0, 1}
    BY <1>3, <1>9
  <2>3. CASE g = 1
    BY <1>2, <1>9, <2>1, <2>2, <2>3
  <2>4. CASE g = -1
    BY <1>2, <1>9, <2>1, <2>2, <2>4
  <2> QED BY <2>1, <2>3, <2>4
<1>10. CASE su = -1 /\ sv = 1
  <2>1. g \in Through(n, d) <=> (d \in SE /\ g = 1) \/ (d \in NW /\ g = -1)
    <3>1. gains = {<<SE, 1>>, <<NW, -1>>}
      BY <1>4, <1>10
    <3> QED BY <1>5, <3>1
  <2>2. g \in {-1, 1} => /\ Towards(g * su) = IF g = su THEN {-1, 0} ELSE {0, 1}
                         /\ Towards(g * sv) = IF g = sv THEN {-1, 0} ELSE {0, 1}
    BY <1>3, <1>10
  <2>3. CASE g = 1
    BY <1>2, <1>10, <2>1, <2>2, <2>3
  <2>4. CASE g = -1
    BY <1>2, <1>10, <2>1, <2>2, <2>4
  <2> QED BY <2>1, <2>3, <2>4
<1>11. CASE su = 1 /\ sv = -1
  <2>1. g \in Through(n, d) <=> (d \in SE /\ g = -1) \/ (d \in NW /\ g = 1)
    <3>1. gains = {<<SE, -1>>, <<NW, 1>>}
      BY <1>4, <1>11
    <3> QED BY <1>5, <3>1
  <2>2. g \in {-1, 1} => /\ Towards(g * su) = IF g = su THEN {-1, 0} ELSE {0, 1}
                         /\ Towards(g * sv) = IF g = sv THEN {-1, 0} ELSE {0, 1}
    BY <1>3, <1>11
  <2>3. CASE g = 1
    BY <1>2, <1>11, <2>1, <2>2, <2>3
  <2>4. CASE g = -1
    BY <1>2, <1>11, <2>1, <2>2, <2>4
  <2> QED BY <2>1, <2>3, <2>4
<1> QED BY <1>7, <1>8, <1>9, <1>10, <1>11

\* The places of which the fluxes of the corners are known: all but those on walls.
OpenOrigins == {p \in Origins : Open(p)}

LEMMA OpenPlaces ==
  ASSUME WideGrid, BoundaryConditions \in {"periodic", "Wall"}
  PROVE  /\ OpenOrigins = IF BoundaryConditions = "periodic" THEN Origins ELSE InnerOrigins(Inner)
         /\ \A q \in Places("node") : /\ Wrapped(q) \in OpenOrigins <=> Open(q)
                                      /\ Open(q) => Fold("node", q) = Wrapped(q)
<1>1. nx \in Nat \ {0, 1} /\ ny \in Nat \ {0, 1}
  BY DEF WideGrid
<1>2. \A q \in Places("node") : q = <<q[1], q[2]>> /\ q[1] \in 0 .. nx /\ q[2] \in 0 .. ny
  BY DEF Places, LastX, LastY, StaggeredX, StaggeredY
<1>3. OpenOrigins = IF BoundaryConditions = "periodic" THEN Origins ELSE InnerOrigins(Inner)
  <2>1. CASE BoundaryConditions = "periodic"
    BY <2>1 DEF OpenOrigins, Open
  <2>2. CASE BoundaryConditions = "Wall"
    <3>1. \A p \in Origins : Open(p) <=> p \in InnerOrigins(Inner)
      BY <1>1, <2>2 DEF Origins, Open, OnEdge, InnerOrigins, Inner
    <3>2. InnerOrigins(Inner) \subseteq Origins
      <4>1. Inner \in SUBSET Inner
        OBVIOUS
      <4> QED BY <4>1, InnerAreOrigins
    <3> QED BY <2>2, <3>1, <3>2 DEF OpenOrigins
  <2> QED BY <2>1, <2>2
<1>4. ASSUME NEW q \in Places("node") PROVE Wrapped(q) \in OpenOrigins <=> Open(q)
  <2>1. Wrapped(q) \in Origins
    BY <1>1, <1>2 DEF Wrapped, Origins
  <2>2. Open(Wrapped(q)) <=> Open(q)
    BY <1>1, <1>2 DEF Open, OnEdge, Wrapped
  <2> QED BY <2>1, <2>2 DEF OpenOrigins
<1>5. ASSUME NEW q \in Places("node"), Open(q) PROVE Fold("node", q) = Wrapped(q)
  <2>0. StaggeredX("node") /\ StaggeredY("node") /\ "node" # "position" /\ q[1] \in Int /\ q[2] \in Int
    BY <1>2 DEF StaggeredX, StaggeredY
  <2>1. q[1] \in 0 .. nx - 1 => Folded(q[1], nx, WallsX, StaggeredX("node")) = q[1]
    BY <2>0, FoldedXNear
  <2>2. q[2] \in 0 .. ny - 1 => Folded(q[2], ny, WallsY, StaggeredY("node")) = q[2]
    BY <2>0, FoldedYNear
  <2>3. q[1] = nx => Folded(q[1], nx, WallsX, StaggeredX("node")) = IF WallsX THEN nx ELSE 0
    BY <2>0, FoldedXNear
  <2>4. q[2] = ny => Folded(q[2], ny, WallsY, StaggeredY("node")) = IF WallsY THEN ny ELSE 0
    BY <2>0, FoldedYNear
  <2>5. (q[1] = nx => ~WallsX) /\ (q[2] = ny => ~WallsY)
    BY <1>5 DEF Open, OnEdge, WallsX, WallsY
  <2>6. (q[1] \in 0 .. nx - 1 \/ q[1] = nx) /\ (q[2] \in 0 .. ny - 1 \/ q[2] = ny)
    BY <1>1, <1>2
  <2>7. /\ Folded(q[1], nx, WallsX, StaggeredX("node")) = IF q[1] = nx THEN 0 ELSE q[1]
        /\ Folded(q[2], ny, WallsY, StaggeredY("node")) = IF q[2] = ny THEN 0 ELSE q[2]
    BY <2>1, <2>2, <2>3, <2>4, <2>5, <2>6
  <2> QED BY <2>0, <2>7 DEF Fold, Wrapped
<1> QED BY <1>3, <1>4, <1>5

\* The sign of a velocity of a place.
SignOf(w, a) == flow[<<w[1] % 2, w[2] % 2>>][a]

LEMMA SignsOf ==
  ASSUME WideGrid, BoundaryConditions \in {"periodic", "Wall"}, OneVelocity,
         NEW q \in Places("node"), Open(q)
  PROVE  \A a \in Velocities : /\ SignOf(Wrapped(q), a) \in {-1, 0, 1}
                               /\ Sign(a, At("node", q)) = SignOf(Wrapped(q), a)
<1> DEFINE w == Wrapped(q)
<1>1. w = <<w[1], w[2]>> /\ w[1] \in Nat /\ w[2] \in Nat
  <2>1. q[1] \in 0 .. nx /\ q[2] \in 0 .. ny
    BY DEF Places, LastX, LastY, StaggeredX, StaggeredY
  <2> QED BY <2>1 DEF Wrapped, WideGrid
<1>2. \A a \in Velocities : mem[a][At("node", q)] = w
  BY OpenPlaces DEF OneVelocity
<1>3. w \notin {Zero, Garbage}
  BY <1>1, StampsTell DEF Stamps
<1>4. flow[<<w[1] % 2, w[2] % 2>>] \in [Velocities -> {-1, 0, 1}]
  <2>1. w[1] % 2 \in {0, 1} /\ w[2] % 2 \in {0, 1}
    BY <1>1
  <2>2. flow \in [{0, 1} \X {0, 1} -> [Velocities -> {-1, 0, 1}]]
    BY FlowsAssumption DEF OneVelocity
  <2> HIDE DEF w
  <2> QED BY <2>1, <2>2
<1> HIDE DEF w
<1>5. ASSUME NEW a \in Velocities PROVE SignOf(w, a) \in {-1, 0, 1} /\ Sign(a, At("node", q)) = SignOf(w, a)
  <2>1. Sign(a, At("node", q)) = flow[<<w[1] % 2, w[2] % 2>>][a]
    BY <1>2, <1>3 DEF Sign
  <2> QED BY <1>4, <2>1 DEF SignOf
<1> QED BY <1>5 DEF w

\* The nodes around a place off the side: each is beside it, around the seam in y too.
NodeBeside(o, d) == <<o[1] + d[1], IF d[2] = -1 THEN Before(o[2], ny) ELSE o[2] + d[2]>>

LEMMA NineAre ==
  /\ \A k \in 1 .. 9 : Nine[k] = <<Nine[k][1], Nine[k][2]>> /\ Nine[k][1] \in {-1, 0, 1} /\ Nine[k][2] \in {-1, 0, 1}
  /\ \A dx, dy \in {-1, 0, 1} : \E k \in 1 .. 9 : Nine[k] = <<dx, dy>>
  /\ \A j, k \in 1 .. 9 : Nine[j] = Nine[k] => j = k
<1>1. /\ Nine[1] = <<-1, -1>> /\ Nine[2] = <<0, -1>> /\ Nine[3] = <<1, -1>>
      /\ Nine[4] = <<-1, 0>> /\ Nine[5] = <<0, 0>> /\ Nine[6] = <<1, 0>>
      /\ Nine[7] = <<-1, 1>> /\ Nine[8] = <<0, 1>> /\ Nine[9] = <<1, 1>>
  BY DEF Nine
<1>2. 1 .. 9 = {1, 2, 3, 4, 5, 6, 7, 8, 9}
  OBVIOUS
<1>3. \A k \in 1 .. 9 : Nine[k] = <<Nine[k][1], Nine[k][2]>> /\ Nine[k][1] \in {-1, 0, 1} /\ Nine[k][2] \in {-1, 0, 1}
  BY <1>1, <1>2
<1>4. \A k \in 1 .. 9 : k = 3 * Nine[k][2] + Nine[k][1] + 5
  BY <1>1, <1>2
<1>5. ASSUME NEW j \in 1 .. 9, NEW k \in 1 .. 9, Nine[j] = Nine[k] PROVE j = k
  BY <1>4, <1>5
<1>6. ASSUME NEW dx \in {-1, 0, 1}, NEW dy \in {-1, 0, 1} PROVE \E k \in 1 .. 9 : Nine[k] = <<dx, dy>>
  <2>1. CASE dy = -1
    BY <1>1, <1>2, <2>1
  <2>2. CASE dy = 0
    BY <1>1, <1>2, <2>2
  <2>3. CASE dy = 1
    BY <1>1, <1>2, <2>3
  <2> QED BY <2>1, <2>2, <2>3
<1> QED BY <1>3, <1>5, <1>6

LEMMA NodesAround ==
  ASSUME WideGrid, NEW o \in Origins, o[1] # 0
  PROVE  \A k \in 1 .. 9 : /\ NodeBeside(o, Nine[k]) \in Places("node")
                           /\ AroundAt(o).nodes[k] = At("node", NodeBeside(o, Nine[k]))
                           /\ Wrapped(NodeBeside(o, Nine[k])) =
                                <<Beyond(o[1], Nine[k][1], nx), Beyond(o[2], Nine[k][2], ny)>>
<1> DEFINE x == o[1]
           y == o[2]
           y1 == Before(y, ny)
           n == NodeAt(x, y, nx)
           nodes == AroundAt(o).nodes
<1>1. o = <<x, y>> /\ x \in 1 .. nx - 1 /\ y \in 0 .. ny - 1 /\ nx \in Nat \ {0, 1} /\ ny \in Nat \ {0, 1}
  BY OriginsAre DEF WideGrid
<1>2. /\ \A c \in 0 .. nx, d \in 0 .. ny : <<c, d>> \in Places("node") /\ At("node", <<c, d>>) = NodeAt(c, d, nx)
  BY DEF Places, LastX, LastY, StaggeredX, StaggeredY, At
<1>3. y1 \in 0 .. ny - 1
  BY <1>1 DEF Before
<1>4. /\ NodeBeside(o, Nine[1]) = <<x - 1, y1>> /\ NodeBeside(o, Nine[2]) = <<x, y1>>
      /\ NodeBeside(o, Nine[3]) = <<x + 1, y1>> /\ NodeBeside(o, Nine[4]) = <<x - 1, y>>
      /\ NodeBeside(o, Nine[5]) = <<x, y>> /\ NodeBeside(o, Nine[6]) = <<x + 1, y>>
      /\ NodeBeside(o, Nine[7]) = <<x - 1, y + 1>> /\ NodeBeside(o, Nine[8]) = <<x, y + 1>>
      /\ NodeBeside(o, Nine[9]) = <<x + 1, y + 1>>
  BY <1>1 DEF NodeBeside, Nine
<1>5. 1 .. 9 = {1, 2, 3, 4, 5, 6, 7, 8, 9}
  OBVIOUS
<1>6. /\ nodes[1] = NodeAt(x - 1, y1, nx) /\ nodes[2] = NodeAt(x, y1, nx) /\ nodes[3] = NodeAt(x + 1, y1, nx)
      /\ nodes[4] = NodeAt(x - 1, y, nx) /\ nodes[5] = NodeAt(x, y, nx) /\ nodes[6] = NodeAt(x + 1, y, nx)
      /\ nodes[7] = NodeAt(x - 1, y + 1, nx) /\ nodes[8] = NodeAt(x, y + 1, nx)
      /\ nodes[9] = NodeAt(x + 1, y + 1, nx)
  <2>1. CASE y = 0
    <3> DEFINE top == NodeAt(x, ny, nx)
    <3>1. nodes = <<NodeNodeM1M1(top, ny, nx), NodeNodeOM1(top, ny, nx), NodeNodeP1M1(top, ny, nx),
                    NodeNodeM1O(n, 0, nx), n, NodeNodeP1O(n, 0, nx),
                    NodeNodeM1P1(n, 0, nx), NodeNodeOP1(n, 0, nx), NodeNodeP1P1(n, 0, nx)>>
      <4>1. o # <<0, 0>> /\ o[1] # 0
        BY <1>1
      <4> QED BY <2>1, <4>1 DEF AroundAt, Around
    <3>2. y1 = ny - 1 /\ (nx + 1) * (ny - 1) = (nx + 1) * ny - (nx + 1) /\ (nx + 1) * ny \in Int
      BY <1>1, <2>1, Products DEF Before
    <3>3. /\ NodeNodeM1M1(top, ny, nx) = NodeAt(x - 1, y1, nx) /\ NodeNodeOM1(top, ny, nx) = NodeAt(x, y1, nx)
          /\ NodeNodeP1M1(top, ny, nx) = NodeAt(x + 1, y1, nx)
      <4> HIDE DEF y1, x
      <4> QED BY <1>1, <3>2 DEF NodeAt, NodeNodeM1M1, NodeNodeOM1, NodeNodeP1M1
    <3>4. /\ NodeNodeM1O(n, 0, nx) = NodeAt(x - 1, y, nx) /\ NodeNodeP1O(n, 0, nx) = NodeAt(x + 1, y, nx)
          /\ NodeNodeM1P1(n, 0, nx) = NodeAt(x - 1, y + 1, nx) /\ NodeNodeOP1(n, 0, nx) = NodeAt(x, y + 1, nx)
          /\ NodeNodeP1P1(n, 0, nx) = NodeAt(x + 1, y + 1, nx)
      BY <1>1, <2>1 DEF NodeAt, NodeNodeM1O, NodeNodeP1O, NodeNodeM1P1, NodeNodeOP1, NodeNodeP1P1
    <3> HIDE DEF nodes, y1, top
    <3> QED BY <3>1, <3>3, <3>4
  <2>2. CASE y # 0
    <3>1. nodes = <<NodeNodeM1M1(n, y, nx), NodeNodeOM1(n, y, nx), NodeNodeP1M1(n, y, nx),
                    NodeNodeM1O(n, y, nx), n, NodeNodeP1O(n, y, nx),
                    NodeNodeM1P1(n, y, nx), NodeNodeOP1(n, y, nx), NodeNodeP1P1(n, y, nx)>>
      <4>1. o # <<0, 0>> /\ o[1] # 0
        BY <1>1
      <4> QED BY <2>2, <4>1 DEF AroundAt, Around
    <3>2. /\ y1 = y - 1 /\ (nx + 1) * y \in Int
          /\ (nx + 1) * (y - 1) = (nx + 1) * y - (nx + 1) /\ (nx + 1) * (y + 1) = (nx + 1) * y + (nx + 1)
      BY <1>1, <2>2, Products DEF Before
    <3>3. /\ NodeNodeM1M1(n, y, nx) = NodeAt(x - 1, y1, nx) /\ NodeNodeOM1(n, y, nx) = NodeAt(x, y1, nx)
          /\ NodeNodeP1M1(n, y, nx) = NodeAt(x + 1, y1, nx)
          /\ NodeNodeM1O(n, y, nx) = NodeAt(x - 1, y, nx) /\ NodeNodeP1O(n, y, nx) = NodeAt(x + 1, y, nx)
          /\ NodeNodeM1P1(n, y, nx) = NodeAt(x - 1, y + 1, nx) /\ NodeNodeOP1(n, y, nx) = NodeAt(x, y + 1, nx)
          /\ NodeNodeP1P1(n, y, nx) = NodeAt(x + 1, y + 1, nx)
      <4> HIDE DEF y1, x, y
      <4> QED BY <1>1, <3>2 DEF n, NodeAt, NodeNodeM1M1, NodeNodeOM1, NodeNodeP1M1, NodeNodeM1O, NodeNodeP1O,
                                NodeNodeM1P1, NodeNodeOP1, NodeNodeP1P1
    <3> HIDE DEF nodes, y1
    <3> QED BY <3>1, <3>3
  <2> QED BY <2>1, <2>2
<1>7. /\ x - 1 \in 0 .. nx /\ x \in 0 .. nx /\ x + 1 \in 0 .. nx
      /\ y1 \in 0 .. ny /\ y \in 0 .. ny /\ y + 1 \in 0 .. ny
  BY <1>1, <1>3
<1> HIDE DEF nodes, y1
<1>8. TAKE k \in 1 .. 9
<1>9. NodeBeside(o, Nine[k]) \in Places("node") /\ nodes[k] = At("node", NodeBeside(o, Nine[k]))
  BY <1>2, <1>4, <1>5, <1>6, <1>7
<1>10. Wrapped(NodeBeside(o, Nine[k])) = <<Beyond(x, Nine[k][1], nx), Beyond(y, Nine[k][2], ny)>>
  <2>1. Nine[k][1] \in {-1, 0, 1} /\ Nine[k][2] \in {-1, 0, 1}
    BY NineAre
  <2>2. \A d \in {-1, 0, 1} : (IF x + d = nx THEN 0 ELSE x + d) = Beyond(x, d, nx)
    BY <1>1 DEF Beyond, Before
  <2>3. \A d \in {-1, 0, 1} : LET z == IF d = -1 THEN Before(y, ny) ELSE y + d
                              IN (IF z = ny THEN 0 ELSE z) = Beyond(y, d, ny)
    BY <1>1 DEF Beyond, Before
  <2> HIDE DEF x, y
  <2> QED BY <2>1, <2>2, <2>3 DEF Wrapped, NodeBeside, x, y
<1> QED BY <1>9, <1>10 DEF nodes

\* Whether the flux w goes through the dual cell of o, from the place in direction d, with gain g.
Crosses(w, o, d, g) ==
  /\ w = <<Beyond(o[1], d[1], nx), Beyond(o[2], d[2], ny)>>
  /\ w \in OpenOrigins /\ ~LagStill(w)
  /\ d[1] \in Towards(g * SignOf(w, "u_lag")) /\ d[2] \in Towards(g * SignOf(w, "v_lag"))

Share(a, i, o, k, g, w) ==
  [of |-> a, at |-> i, from |-> <<At("node", NodeBeside(o, Nine[k])), Nine[k]>>, gain |-> g, flux |-> w]

\* A node is still when its velocity has no sign in one of the directions.
LEMMA LagIs ==
  ASSUME WideGrid, BoundaryConditions \in {"periodic", "Wall"}, OneVelocity, NEW w \in OpenOrigins
  PROVE  /\ SignOf(w, "u_lag") \in {-1, 0, 1} /\ SignOf(w, "v_lag") \in {-1, 0, 1}
         /\ Sign("u_lag", At("node", w)) = SignOf(w, "u_lag")
         /\ Sign("v_lag", At("node", w)) = SignOf(w, "v_lag")
         /\ LagStill(w) <=> SignOf(w, "u_lag") = 0 \/ SignOf(w, "v_lag") = 0
<1>1. w \in Origins /\ Open(w)
  BY DEF OpenOrigins
<1>2. w \in Places("node") /\ Wrapped(w) = w
  BY <1>1, OriginsAre
<1>3. "u_lag" \in Velocities /\ "v_lag" \in Velocities
  BY DEF Velocities
<1>4. /\ SignOf(w, "u_lag") \in {-1, 0, 1} /\ SignOf(w, "v_lag") \in {-1, 0, 1}
      /\ Sign("u_lag", At("node", w)) = SignOf(w, "u_lag")
      /\ Sign("v_lag", At("node", w)) = SignOf(w, "v_lag")
  BY <1>1, <1>2, <1>3, SignsOf
<1> QED BY <1>4 DEF LagStill

\* What a place of the corners holds, when they are done.
LEMMA CornersHeld ==
  ASSUME WideGrid, BoundaryConditions \in {"periodic", "Wall"}, Carriers,
         CornerStage("mass_corner_fluxes", 15), pc \in Int, pc > 16,
         NEW q \in Places("node"), NEW f, f = mem["mass_corner_fluxes"][At("node", q)]
  PROVE  LET w == Wrapped(q)
         IN /\ f \in {Zero, Garbage} \/ (f # Zero /\ f # Garbage /\ Source(f) = w)
            /\ ~Open(q) => f = Zero
            /\ Open(q) /\ (q = w \/ Moves(w)) => f # Zero /\ f # Garbage /\ Source(f) = w
<1> DEFINE w == Wrapped(q)
           m == mem["mass_corner_fluxes"]
<1>1. CornersOn(m, OpenOrigins) /\ (BoundaryConditions = "Wall" => EdgesZero(m))
  <2>1. ~(pc < 15) /\ pc # 15 /\ pc # 15 + 1 /\ pc > 15 + 1
    OBVIOUS
  <2>2. Reached(15, BoundaryConditions # "Wall", pc, todo) = OpenOrigins
    BY <2>1, OpenPlaces DEF Reached
  <2> QED BY <2>1, <2>2 DEF CornerStage
<1>2. f \in Stamps(w) \cup {Zero, Garbage}
  BY DEF Carriers, OwnFlux
<1>3. f \in Stamps(w) => f # Zero /\ f # Garbage /\ Source(f) = w
  <2> SUFFICES ASSUME f \in Stamps(w) PROVE f # Zero /\ f # Garbage /\ Source(f) = w
    OBVIOUS
  <2>1. w = <<w[1], w[2]>>
    BY DEF Wrapped
  <2> HIDE DEF w
  <2>2. f \in Stamps(<<w[1], w[2]>>)
    BY <2>1
  <2>3. f # Zero /\ f # Garbage /\ f[1] = w[1] /\ f[2] = w[2]
    BY <2>2, StampsTell
  <2> QED BY <2>1, <2>3 DEF Source
<1>4. ~Open(q) => f = Zero
  BY <1>1 DEF Open, EdgesZero
<1>5. Open(q) /\ (q = w \/ Moves(w)) => f \in Stamps(w)
  <2> SUFFICES ASSUME Open(q), q = w \/ Moves(w) PROVE f \in Stamps(w)
    OBVIOUS
  <2>1. Wrapped(q) \in OpenOrigins
    BY OpenPlaces
  <2> QED BY <1>1, <2>1 DEF CornersOn
<1> QED BY <1>2, <1>3, <1>4, <1>5

\* An entry of the flux w for the place o.
IsCrossing(e, a, o, w) ==
  \E k \in 1 .. 9, g \in {-1, 1}, n \in CornerAt(o).to :
    Crosses(w, o, Nine[k], g) /\ e = Share(a, n, o, k, g, w)

\* The entries of the flux of a node that the acceleration does not start are those of the
\* places beside it that the flux comes to.
LEMMA SharesCross ==
  ASSUME WideGrid, BoundaryConditions \in {"periodic", "Wall"}, OneVelocity, Carriers,
         CornerStage("mass_corner_fluxes", 15), pc \in Int, pc > 16,
         NEW a, NEW o \in OpenOrigins, o[1] # 0, NEW e,
         NEW w, w # Garbage, w \in OpenOrigins => ~Starts(w)
  PROVE  IsShare(e, a, o) /\ e.flux = w <=> IsCrossing(e, a, o, w)
<1> DEFINE flux(n) == mem["mass_corner_fluxes"][n]
           node(k) == AroundAt(o).nodes[k]
           place(k) == NodeBeside(o, Nine[k])
           to == CornerAt(o).to
           entry(k, n, g) == Entry(a, n, <<node(k), Nine[k]>>, g, flux(node(k)))
<1>0. o \in Origins
  BY DEF OpenOrigins
<1>1. IsShare(e, a, o) <=>
        \E k \in 1 .. 9 : /\ flux(node(k)) # Zero
                          /\ \E n \in to, g \in Through(node(k), Nine[k]) : e = entry(k, n, g)
  BY <1>0, AroundTo DEF IsShare
<1>2. \A k \in 1 .. 9 : /\ place(k) \in Places("node")
                        /\ node(k) = At("node", place(k))
                        /\ Wrapped(place(k)) = <<Beyond(o[1], Nine[k][1], nx), Beyond(o[2], Nine[k][2], ny)>>
  BY <1>0, NodesAround
<1>3. \A k \in 1 .. 9 : Nine[k] = <<Nine[k][1], Nine[k][2]>> /\ Nine[k][1] \in {-1, 0, 1} /\ Nine[k][2] \in {-1, 0, 1}
  BY NineAre
<1>4. ASSUME NEW k \in 1 .. 9, NEW g
      PROVE  /\ flux(node(k)) # Zero /\ g \in Through(node(k), Nine[k]) /\ Source(flux(node(k))) = w <=>
                   g \in {-1, 1} /\ Crosses(w, o, Nine[k], g)
  <2> DEFINE q == place(k)
             v == Wrapped(q)
             n == node(k)
             f == flux(n)
             d == Nine[k]
  <2>1. q \in Places("node") /\ n = At("node", q) /\ v = <<Beyond(o[1], d[1], nx), Beyond(o[2], d[2], ny)>>
    BY <1>2
  <2>2. d = <<d[1], d[2]>> /\ d[1] \in {-1, 0, 1} /\ d[2] \in {-1, 0, 1}
    BY <1>3
  <2>3. f = mem["mass_corner_fluxes"][At("node", q)]
    BY <2>1
  <2> HIDE DEF q, n, d, f
  <2>4. /\ f \in {Zero, Garbage} \/ (f # Zero /\ f # Garbage /\ Source(f) = v)
        /\ ~Open(q) => f = Zero
        /\ Open(q) /\ Moves(v) => f # Zero /\ f # Garbage /\ Source(f) = v
    BY <2>1, <2>3, CornersHeld
  <2>5. /\ f # Zero /\ Source(f) = w => v = w /\ Open(q)
        /\ Open(q) /\ Moves(v) /\ v = w => f # Zero /\ Source(f) = w
    BY <2>4 DEF Source
  <2>6. Crosses(w, o, d, g) => v = w /\ Open(q) /\ Moves(v)
    <3> SUFFICES ASSUME Crosses(w, o, d, g) PROVE v = w /\ Open(q) /\ Moves(v)
      OBVIOUS
    <3>1. v = w /\ w \in OpenOrigins /\ ~LagStill(w)
      BY <2>1 DEF Crosses
    <3>2. Moves(w)
      BY <3>1 DEF Starts
    <3>3. Open(q)
      BY <2>1, <3>1, OpenPlaces
    <3> QED BY <3>1, <3>2, <3>3
  <2>7. Open(q) /\ v = w => (g \in Through(n, d) <=> g \in {-1, 1} /\ Crosses(w, o, d, g))
    <3> SUFFICES ASSUME Open(q), v = w
                 PROVE  g \in Through(n, d) <=> g \in {-1, 1} /\ Crosses(w, o, d, g)
      OBVIOUS
    <3> DEFINE su == SignOf(w, "u_lag")
               sv == SignOf(w, "v_lag")
               dx == d[1]
               dy == d[2]
    <3>1. w \in OpenOrigins
      BY <2>1, OpenPlaces
    <3>2. /\ su \in {-1, 0, 1} /\ sv \in {-1, 0, 1}
          /\ LagStill(w) <=> su = 0 \/ sv = 0
      BY <3>1, LagIs
    <3>3. Sign("u_lag", n) = su /\ Sign("v_lag", n) = sv
      <4>1. "u_lag" \in Velocities /\ "v_lag" \in Velocities
        BY DEF Velocities
      <4> QED BY <2>1, <4>1, SignsOf
    <3>4. dx \in {-1, 0, 1} /\ dy \in {-1, 0, 1} /\ d = <<dx, dy>>
      BY <2>2
    <3>5. Crosses(w, o, d, g) <=> ~LagStill(w) /\ dx \in Towards(g * su) /\ dy \in Towards(g * sv)
      BY <2>1, <3>1 DEF Crosses
    <3> HIDE DEF su, sv, dx, dy, v
    <3>6. g \in Through(n, <<dx, dy>>) <=>
            /\ g \in {-1, 1} /\ su # 0 /\ sv # 0
            /\ dx \in Towards(g * su) /\ dy \in Towards(g * sv)
      BY <3>2, <3>3, <3>4, ThroughIs
    <3> QED BY <3>2, <3>4, <3>5, <3>6
  <2> HIDE DEF v
  <2>8. f # Zero /\ g \in Through(n, d) /\ Source(f) = w <=> g \in {-1, 1} /\ Crosses(w, o, d, g)
    BY <2>5, <2>6, <2>7
  <2> QED BY <2>8 DEF f, n, d
<1>5. /\ \A k, n, g : entry(k, n, g).flux = Source(flux(node(k)))
      /\ \A k \in 1 .. 9 : \A n, g : Source(flux(node(k))) = w => entry(k, n, g) = Share(a, n, o, k, g, w)
  BY <1>2 DEF Entry, Share
<1> HIDE DEF flux, node, place, to, entry
<1>6. ASSUME IsShare(e, a, o), e.flux = w
      PROVE  \E k \in 1 .. 9, g \in {-1, 1}, n \in to :
               Crosses(w, o, Nine[k], g) /\ e = Share(a, n, o, k, g, w)
  <2>1. PICK k \in 1 .. 9 : /\ flux(node(k)) # Zero
                            /\ \E n \in to, g \in Through(node(k), Nine[k]) : e = entry(k, n, g)
    BY <1>1, <1>6
  <2>2. PICK n \in to, g \in Through(node(k), Nine[k]) : e = entry(k, n, g)
    BY <2>1
  <2>3. Source(flux(node(k))) = w
    BY <1>5, <1>6, <2>2
  <2>4. g \in {-1, 1} /\ Crosses(w, o, Nine[k], g)
    BY <1>4, <2>1, <2>2, <2>3
  <2> QED BY <1>5, <2>2, <2>3, <2>4
<1>7. ASSUME NEW k \in 1 .. 9, NEW g \in {-1, 1}, NEW n \in to,
             Crosses(w, o, Nine[k], g), e = Share(a, n, o, k, g, w)
      PROVE  IsShare(e, a, o) /\ e.flux = w
  <2>1. flux(node(k)) # Zero /\ g \in Through(node(k), Nine[k]) /\ Source(flux(node(k))) = w
    BY <1>4, <1>7
  <2>2. e = entry(k, n, g)
    BY <1>5, <1>7, <2>1
  <2> QED BY <1>1, <1>5, <2>1, <2>2
<1> QED BY <1>6, <1>7 DEF IsCrossing, to

\* Every entry is of the flux of a node, but where a twin keeps what it had because only the
\* acceleration has started its node.
LEMMA SharesKnown ==
  ASSUME WideGrid, BoundaryConditions \in {"periodic", "Wall"}, OneVelocity, Carriers,
         CornerStage("mass_corner_fluxes", 15), pc \in Int, pc > 16,
         NEW a, NEW o \in OpenOrigins, o[1] # 0, NEW e, IsShare(e, a, o)
  PROVE  \/ e.flux \in Nodes
         \/ \E k \in 1 .. 9 : LET q == NodeBeside(o, Nine[k])
                              IN Open(q) /\ q # Wrapped(q) /\ Starts(Wrapped(q))
<1>0. o \in Origins
  BY DEF OpenOrigins
<1>1. PICK k \in 1 .. 9 : /\ mem["mass_corner_fluxes"][AroundAt(o).nodes[k]] # Zero
                          /\ Through(AroundAt(o).nodes[k], Nine[k]) # {}
                          /\ e.flux = Source(mem["mass_corner_fluxes"][AroundAt(o).nodes[k]])
  BY DEF IsShare, Entry
<1> DEFINE q == NodeBeside(o, Nine[k])
           v == Wrapped(q)
           n == At("node", q)
           f == mem["mass_corner_fluxes"][n]
<1>2. q \in Places("node") /\ AroundAt(o).nodes[k] = n
  BY <1>0, NodesAround
<1>3. f # Zero /\ Through(n, Nine[k]) # {} /\ e.flux = Source(f)
  BY <1>1, <1>2
<1> HIDE DEF q, f
<1>4. /\ f \in {Zero, Garbage} \/ (f # Zero /\ f # Garbage /\ Source(f) = v)
      /\ ~Open(q) => f = Zero
      /\ Open(q) /\ (q = v \/ Moves(v)) => f # Zero /\ f # Garbage /\ Source(f) = v
  BY <1>2, CornersHeld DEF f
<1>5. Open(q)
  BY <1>3, <1>4
<1>6. v \in Nodes
  BY <1>2, <1>5, OpenPlaces DEF Nodes
<1>7. CASE f = Garbage
  <2>1. q # v /\ ~Moves(v)
    BY <1>4, <1>5, <1>7
  <2>2. v \in OpenOrigins
    BY <1>2, <1>5, OpenPlaces
  <2>3. ~LagStill(v)
    <3>1. "u_lag" \in Velocities /\ "v_lag" \in Velocities
      BY DEF Velocities
    <3>2. Sign("u_lag", n) = SignOf(v, "u_lag") /\ Sign("v_lag", n) = SignOf(v, "v_lag")
      BY <1>2, <1>5, <3>1, SignsOf
    <3>3. SignOf(v, "u_lag") \in {-1, 0, 1} /\ SignOf(v, "v_lag") \in {-1, 0, 1}
      BY <2>2, LagIs
    <3>4. Nine[k] = <<Nine[k][1], Nine[k][2]>> /\ Nine[k][1] \in {-1, 0, 1} /\ Nine[k][2] \in {-1, 0, 1}
      BY NineAre
    <3>5. PICK g : g \in Through(n, Nine[k])
      BY <1>3
    <3> DEFINE su == SignOf(v, "u_lag")
               sv == SignOf(v, "v_lag")
               dx == Nine[k][1]
               dy == Nine[k][2]
    <3>6. /\ su \in {-1, 0, 1} /\ sv \in {-1, 0, 1} /\ Sign("u_lag", n) = su /\ Sign("v_lag", n) = sv
          /\ dx \in {-1, 0, 1} /\ dy \in {-1, 0, 1} /\ g \in Through(n, <<dx, dy>>)
      BY <3>2, <3>3, <3>4, <3>5
    <3> HIDE DEF su, sv, dx, dy, n, v
    <3>7. su # 0 /\ sv # 0
      BY <3>6, ThroughIs
    <3> QED BY <2>2, <3>7, LagIs DEF su, sv
  <2> QED BY <1>5, <2>1, <2>3 DEF Starts, q
<1>8. CASE f # Garbage
  BY <1>3, <1>4, <1>6, <1>8
<1> QED BY <1>7, <1>8

\* The flux w goes through one of the corners of the dual cell of o with gain g.
Entered(w, o, g) ==
  /\ w \in OpenOrigins /\ ~LagStill(w)
  /\ Ahead(g * SignOf(w, "u_lag"), w[1], nx) \in {Before(o[1], nx), o[1]}
  /\ Ahead(g * SignOf(w, "v_lag"), w[2], ny) \in {Before(o[2], ny), o[2]}

\* It comes from one of the nine places, and from no other.
LEMMA EnteredOnce ==
  ASSUME WideGrid, BoundaryConditions \in {"periodic", "Wall"}, OneVelocity,
         NEW o \in Origins, NEW w, NEW g \in {-1, 1}
  PROVE  /\ Entered(w, o, g) <=> \E k \in 1 .. 9 : Crosses(w, o, Nine[k], g)
         /\ \A j, k \in 1 .. 9 : Crosses(w, o, Nine[j], g) /\ Crosses(w, o, Nine[k], g) => j = k
<1>1. CASE w \notin OpenOrigins \/ LagStill(w)
  BY <1>1 DEF Entered, Crosses
<1>2. CASE w \in OpenOrigins /\ ~LagStill(w)
  <2> DEFINE sx == g * SignOf(w, "u_lag")
             sy == g * SignOf(w, "v_lag")
  <2>1. sx \in {-1, 1} /\ sy \in {-1, 1}
    <3>1. SignOf(w, "u_lag") \in {-1, 1} /\ SignOf(w, "v_lag") \in {-1, 1}
      BY <1>2, LagIs
    <3>2. \A s \in {-1, 1} : g * s \in {-1, 1}
      <4>1. CASE g = 1
        BY <4>1
      <4>2. CASE g = -1
        BY <4>2
      <4> QED BY <4>1, <4>2
    <3> QED BY <3>1, <3>2
  <2>2. /\ w = <<w[1], w[2]>> /\ w[1] \in 0 .. nx - 1 /\ w[2] \in 0 .. ny - 1
        /\ o[1] \in 0 .. nx - 1 /\ o[2] \in 0 .. ny - 1 /\ nx \in Nat \ {0, 1} /\ ny \in Nat \ {0, 1}
    BY <1>2, OriginsAre DEF OpenOrigins, WideGrid
  <2> HIDE DEF sx, sy
  <2>3. /\ (\E d \in Towards(sx) : Beyond(o[1], d, nx) = w[1]) <=> Ahead(sx, w[1], nx) \in {Before(o[1], nx), o[1]}
        /\ \A d1, d2 \in Towards(sx) : Beyond(o[1], d1, nx) = Beyond(o[1], d2, nx) => d1 = d2
    <3> DEFINE z == o[1]
               c == w[1]
    <3>1. z \in 0 .. nx - 1 /\ c \in 0 .. nx - 1
      BY <2>2
    <3> HIDE DEF z, c
    <3>2. /\ (\E d \in Towards(sx) : Beyond(z, d, nx) = c) <=> Ahead(sx, c, nx) \in {Before(z, nx), z}
          /\ \A d1, d2 \in Towards(sx) : Beyond(z, d1, nx) = Beyond(z, d2, nx) => d1 = d2
      BY <2>1, <2>2, <3>1, AheadBeside
    <3> QED BY <3>2 DEF z, c
  <2>4. /\ (\E d \in Towards(sy) : Beyond(o[2], d, ny) = w[2]) <=> Ahead(sy, w[2], ny) \in {Before(o[2], ny), o[2]}
        /\ \A d1, d2 \in Towards(sy) : Beyond(o[2], d1, ny) = Beyond(o[2], d2, ny) => d1 = d2
    <3> DEFINE z == o[2]
               c == w[2]
    <3>1. z \in 0 .. ny - 1 /\ c \in 0 .. ny - 1
      BY <2>2
    <3> HIDE DEF z, c
    <3>2. /\ (\E d \in Towards(sy) : Beyond(z, d, ny) = c) <=> Ahead(sy, c, ny) \in {Before(z, ny), z}
          /\ \A d1, d2 \in Towards(sy) : Beyond(z, d1, ny) = Beyond(z, d2, ny) => d1 = d2
      BY <2>1, <2>2, <3>1, AheadBeside
    <3> QED BY <3>2 DEF z, c
  <2>5. \A d : Crosses(w, o, d, g) <=> /\ Beyond(o[1], d[1], nx) = w[1] /\ Beyond(o[2], d[2], ny) = w[2]
                                       /\ d[1] \in Towards(sx) /\ d[2] \in Towards(sy)
    BY <1>2, <2>2 DEF Crosses, sx, sy
  <2>6. Entered(w, o, g) <=> /\ \E d \in Towards(sx) : Beyond(o[1], d, nx) = w[1]
                             /\ \E d \in Towards(sy) : Beyond(o[2], d, ny) = w[2]
    BY <1>2, <2>3, <2>4 DEF Entered, sx, sy
  <2>7. ASSUME Entered(w, o, g) PROVE \E k \in 1 .. 9 : Crosses(w, o, Nine[k], g)
    <3>1. PICK dx \in Towards(sx), dy \in Towards(sy) : Beyond(o[1], dx, nx) = w[1] /\ Beyond(o[2], dy, ny) = w[2]
      BY <2>6, <2>7
    <3>2. dx \in {-1, 0, 1} /\ dy \in {-1, 0, 1}
      BY DEF Towards
    <3>3. PICK k \in 1 .. 9 : Nine[k] = <<dx, dy>>
      BY <3>2, NineAre
    <3>4. Nine[k][1] = dx /\ Nine[k][2] = dy
      BY <3>3
    <3> QED BY <2>5, <3>1, <3>4
  <2>8. ASSUME NEW j \in 1 .. 9, NEW k \in 1 .. 9, Crosses(w, o, Nine[j], g), Crosses(w, o, Nine[k], g) PROVE j = k
    <3>1. Nine[j][1] = Nine[k][1] /\ Nine[j][2] = Nine[k][2]
      BY <2>3, <2>4, <2>5, <2>8
    <3>2. Nine[j] = <<Nine[j][1], Nine[j][2]>> /\ Nine[k] = <<Nine[k][1], Nine[k][2]>>
      BY NineAre
    <3>3. Nine[j] = Nine[k]
      BY <3>1, <3>2
    <3> QED BY <3>3, NineAre
  <2>9. ASSUME NEW k \in 1 .. 9, Crosses(w, o, Nine[k], g) PROVE Entered(w, o, g)
    BY <2>5, <2>6, <2>9
  <2> QED BY <2>7, <2>8, <2>9
<1> QED BY <1>1, <1>2

\* The entries of a place are made at its node and the twins of it.
LEMMA SharesAt ==
  ASSUME WideGrid, NEW p \in Places("node"), NEW r \in Origins, NEW e, NEW a,
         IsShare(e, a, r), e.at = At("node", p)
  PROVE  r = Wrapped(p)
<1>1. e.at \in AroundAt(r).to
  BY DEF IsShare, Entry
<1>2. PICK q \in Places("node") : Wrapped(q) = r /\ e.at = At("node", q)
  BY <1>1, AroundTo, CornerTo
<1>3. q = p
  <2> DEFINE K == "node"
  <2>1. Grid /\ K \in Kinds /\ p \in Places(K) /\ q \in Places(K) /\ At(K, q) = At(K, p)
    BY <1>2, WideGridIsGrid DEF Kinds
  <2> HIDE DEF K
  <2> QED BY <2>1, ElementsApart
<1> QED BY <1>2, <1>3

\* The entries of a, at i, of the flux w.
Brought(a, i, w, g) == {e \in ledger : e.of = a /\ e.at = i /\ e.flux = w /\ e.gain = g}

LEMMA SharesCount ==
  ASSUME WideGrid, BoundaryConditions \in {"periodic", "Wall"}, OneVelocity, Carriers,
         CornerStage("mass_corner_fluxes", 15), pc \in Int,
         NEW a, NEW n \in Int, n > 16, pc > n + 1, Gathered(a, n),
         NEW p \in Places("node"), Open(p), p[1] \notin {0, nx},
         NEW w, w # Garbage, w \in OpenOrigins => ~Starts(w), NEW g \in {-1, 1}
  PROVE  Cardinality(Brought(a, At("node", p), w, g)) = IF Entered(w, Wrapped(p), g) THEN 1 ELSE 0
<1> DEFINE i == At("node", p)
           o == Wrapped(p)
           of == Brought(a, i, w, g)
<1>1. o \in OpenOrigins /\ o \in Origins /\ o[1] # 0 /\ i \in CornerAt(o).to
  <2>1. o \in OpenOrigins /\ o \in Origins
    BY OpenPlaces DEF OpenOrigins
  <2>2. o[1] # 0
    BY DEF Wrapped
  <2> QED BY <2>1, <2>2, CornerTo
<1>2. \A e : e \in ledger /\ e.of = a <=> \E r \in OpenOrigins : IsShare(e, a, r)
  <2>1. ~(pc < n) /\ pc # n /\ pc # n + 1
    OBVIOUS
  <2>2. Reached(n, BoundaryConditions = "periodic", pc, todo) = OpenOrigins
    BY <2>1, OpenPlaces DEF Reached
  <2> QED BY <2>2 DEF Gathered
<1>3. \A e : e \in ledger /\ e.of = a /\ e.at = i <=> IsShare(e, a, o) /\ e.at = i
  BY <1>1, <1>2, SharesAt DEF OpenOrigins
<1>4. pc > 16
  OBVIOUS
<1>5. \A e : IsShare(e, a, o) /\ e.flux = w <=> IsCrossing(e, a, o, w)
  <2>1. o \in OpenOrigins /\ o[1] # 0
    BY <1>1
  <2> HIDE DEF i, o, of
  <2> QED BY <1>4, <2>1, SharesCross
<1>6. \A k, h, m : /\ Share(a, m, o, k, h, w).at = m
                   /\ Share(a, m, o, k, h, w).gain = h /\ Share(a, m, o, k, h, w).flux = w
  BY DEF Share
<1> HIDE DEF i, o
<1>8. \A e : e \in of <=> \E k \in 1 .. 9 : Crosses(w, o, Nine[k], g) /\ e = Share(a, i, o, k, g, w)
  <2> TAKE e
  <2>1. ASSUME e \in of PROVE \E k \in 1 .. 9 : Crosses(w, o, Nine[k], g) /\ e = Share(a, i, o, k, g, w)
    <3>1. e.at = i /\ e.flux = w /\ e.gain = g /\ IsShare(e, a, o)
      BY <1>3, <2>1 DEF Brought
    <3>2. PICK k \in 1 .. 9, h \in {-1, 1}, m \in CornerAt(o).to :
            Crosses(w, o, Nine[k], h) /\ e = Share(a, m, o, k, h, w)
      BY <1>5, <3>1 DEF IsCrossing
    <3> QED BY <1>6, <3>1, <3>2
  <2>2. ASSUME NEW k \in 1 .. 9, Crosses(w, o, Nine[k], g), e = Share(a, i, o, k, g, w) PROVE e \in of
    <3>1. IsShare(e, a, o)
      BY <1>1, <1>5, <2>2 DEF IsCrossing
    <3>2. e.at = i /\ e.flux = w /\ e.gain = g
      BY <1>6, <2>2
    <3> QED BY <1>3, <3>1, <3>2 DEF Brought
  <2> QED BY <2>1, <2>2
<1>9. /\ Entered(w, o, g) <=> \E k \in 1 .. 9 : Crosses(w, o, Nine[k], g)
      /\ \A j, k \in 1 .. 9 : Crosses(w, o, Nine[j], g) /\ Crosses(w, o, Nine[k], g) => j = k
  BY <1>1, EnteredOnce
<1> HIDE DEF of
<1>10. CASE Entered(w, o, g)
  <2>1. PICK k \in 1 .. 9 : Crosses(w, o, Nine[k], g)
    BY <1>9, <1>10
  <2>2. of = {Share(a, i, o, k, g, w)}
    BY <1>8, <1>9, <2>1
  <2>3. Cardinality(of) = 1
    BY <2>2, FS_Singleton
  <2> QED BY <1>10, <2>3 DEF of, i, o
<1>11. CASE ~Entered(w, o, g)
  <2>1. of = {}
    BY <1>8, <1>9, <1>11
  <2>2. Cardinality(of) = 0
    BY <2>1, FS_EmptySet
  <2> QED BY <1>11, <2>2 DEF of, i, o
<1> QED BY <1>10, <1>11
-----------------------------------------------------------------------------
\* Where u_lag and v_lag of a node lead to, or, with gain -1, where they come from.
CellAhead(w, g) == <<Ahead(g * SignOf(w, "u_lag"), w[1], nx), Ahead(g * SignOf(w, "v_lag"), w[2], ny)>>

LEMMA CellsAhead ==
  ASSUME WideGrid, BoundaryConditions \in {"periodic", "Wall"}, OneVelocity,
         NEW w \in OpenOrigins, ~LagStill(w)
  PROVE  /\ LeadsTo("u_lag", "v_lag", w) = CellAhead(w, 1)
         /\ ComesFrom("u_lag", "v_lag", w) = CellAhead(w, -1)
<1> DEFINE x == w[1]
           y == w[2]
           foldx(z) == Folded(z, nx, WallsX, StaggeredX("cell"))
           foldy(z) == Folded(z, ny, WallsY, StaggeredY("cell"))
<1>0. ~StaggeredX("cell") /\ ~StaggeredY("cell") /\ "cell" # "position"
  BY DEF StaggeredX, StaggeredY
<1>1. w \in Origins /\ x \in 0 .. nx - 1 /\ y \in 0 .. ny - 1 /\ nx \in Int /\ ny \in Int
  BY OriginsAre DEF OpenOrigins, WideGrid
<1>2. (x = 0 => ~WallsX) /\ (y = 0 => ~WallsY)
  BY DEF OpenOrigins, Open, OnEdge, WallsX, WallsY
<1>3. foldx(x) = x /\ foldy(y) = y
  BY <1>1, FoldedXNear, FoldedYNear
<1>4. foldx(x - 1) = Before(x, nx)
  <2>1. CASE x = 0
    <3>1. x - 1 \in Int /\ (x - 1) + 1 = 0
      BY <2>1
    <3>2. foldx(x - 1) = nx - 1
      BY <1>0, <1>2, <2>1, <3>1, FoldedXNear
    <3> QED BY <2>1, <3>2 DEF Before
  <2>2. CASE x # 0
    <3>1. x - 1 \in 0 .. nx - 1
      BY <1>1, <2>2
    <3>2. foldx(x - 1) = x - 1
      BY <3>1, FoldedXNear
    <3> QED BY <2>2, <3>2 DEF Before
  <2> QED BY <2>1, <2>2
<1>5. foldy(y - 1) = Before(y, ny)
  <2>1. CASE y = 0
    <3>1. y - 1 \in Int /\ (y - 1) + 1 = 0
      BY <2>1
    <3>2. foldy(y - 1) = ny - 1
      BY <1>0, <1>2, <2>1, <3>1, FoldedYNear
    <3> QED BY <2>1, <3>2 DEF Before
  <2>2. CASE y # 0
    <3>1. y - 1 \in 0 .. ny - 1
      BY <1>1, <2>2
    <3>2. foldy(y - 1) = y - 1
      BY <3>1, FoldedYNear
    <3> QED BY <2>2, <3>2 DEF Before
  <2> QED BY <2>1, <2>2
<1>6. \A c, d : Fold("cell", <<c, d>>) = <<foldx(c), foldy(d)>>
  BY <1>0 DEF Fold
<1> DEFINE sx == SignOf(w, "u_lag")
           sy == SignOf(w, "v_lag")
<1>7. /\ Sign("u_lag", At("node", w)) = sx /\ Sign("v_lag", At("node", w)) = sy
      /\ sx \in {-1, 1} /\ sy \in {-1, 1}
  BY LagIs
<1> HIDE DEF x, y, foldx, foldy, sx, sy
<1>8. LeadsTo("u_lag", "v_lag", w) = <<IF sx = 1 THEN x ELSE Before(x, nx), IF sy = 1 THEN y ELSE Before(y, ny)>>
  <2>1. LeadsTo("u_lag", "v_lag", w) = <<foldx(IF sx = 1 THEN x ELSE x - 1), foldy(IF sy = 1 THEN y ELSE y - 1)>>
    BY <1>6, <1>7 DEF LeadsTo, x, y
  <2> QED BY <1>3, <1>4, <1>5, <2>1
<1>9. ComesFrom("u_lag", "v_lag", w) = <<IF sx = 1 THEN Before(x, nx) ELSE x, IF sy = 1 THEN Before(y, ny) ELSE y>>
  <2>1. ComesFrom("u_lag", "v_lag", w) = <<foldx(IF sx = 1 THEN x - 1 ELSE x), foldy(IF sy = 1 THEN y - 1 ELSE y)>>
    BY <1>6, <1>7 DEF ComesFrom, x, y
  <2> QED BY <1>3, <1>4, <1>5, <2>1
<1>10. CellAhead(w, 1) = <<IF 1 * sx = 1 THEN x ELSE Before(x, nx), IF 1 * sy = 1 THEN y ELSE Before(y, ny)>>
  BY DEF CellAhead, Ahead, x, y, sx, sy
<1>11. /\ 1 * sx = sx /\ 1 * sy = sy
       /\ (-1) * sx = 1 <=> sx # 1
       /\ (-1) * sy = 1 <=> sy # 1
  BY <1>7
<1>12. LeadsTo("u_lag", "v_lag", w) = CellAhead(w, 1)
  BY <1>8, <1>10, <1>11
<1>13. ComesFrom("u_lag", "v_lag", w) = CellAhead(w, -1)
  <2>1. CellAhead(w, -1) = <<IF (-1) * sx = 1 THEN x ELSE Before(x, nx), IF (-1) * sy = 1 THEN y ELSE Before(y, ny)>>
    BY DEF CellAhead, Ahead, x, y, sx, sy
  <2> QED BY <1>9, <1>11, <2>1
<1> QED BY <1>12, <1>13

\* The four cells around a node are those around the place that it is seen at.
LEMMA QuartersOf ==
  ASSUME WideGrid, BoundaryConditions \in {"periodic", "Wall"},
         NEW p \in Places("node"), Open(p), p[1] \notin {0, nx}
  PROVE  LET x == Wrapped(p)[1]
             y == Wrapped(p)[2]
         IN /\ x \in 0 .. nx - 1 /\ y \in 0 .. ny - 1 /\ Before(x, nx) \in 0 .. nx - 1 /\ Before(y, ny) \in 0 .. ny - 1
            /\ QuarterPlace(p, 1) = <<Before(x, nx), Before(y, ny)>> /\ QuarterPlace(p, 2) = <<x, Before(y, ny)>>
            /\ QuarterPlace(p, 3) = <<Before(x, nx), y>> /\ QuarterPlace(p, 4) = <<x, y>>
<1> DEFINE o == Wrapped(p)
           x == o[1]
           y == o[2]
<1>1. p = <<p[1], p[2]>> /\ p[1] \in 1 .. nx - 1 /\ p[2] \in 0 .. ny /\ nx \in Nat \ {0, 1} /\ ny \in Nat \ {0, 1}
  BY DEF Places, LastX, LastY, StaggeredX, StaggeredY, WideGrid
<1>2. o = <<x, y>> /\ x = p[1] /\ x \in 0 .. nx - 1 /\ y \in 0 .. ny - 1
      /\ y = IF p[2] = ny THEN 0 ELSE p[2]
  BY <1>1 DEF Wrapped
<1>3. Before(x, nx) \in 0 .. nx - 1 /\ Before(y, ny) \in 0 .. ny - 1
  BY <1>1, <1>2 DEF Before
<1>4. x # 0 /\ (p[2] = ny \/ y = 0 => ~WallsY)
  <2>1. p[2] = ny \/ y = 0 => OnEdge(p)
    BY <1>2 DEF OnEdge
  <2> QED BY <1>1, <1>2, <2>1 DEF Open, WallsY
<1>5. ~StaggeredY("cell") /\ ~StaggeredX("cell") /\ "cell" # "position"
  BY DEF StaggeredX, StaggeredY
<1>6. \A k \in 1 .. 4 : QuarterPlace(p, k) = QuarterPlace(o, k)
  <2> DEFINE foldy(z) == Folded(z, ny, WallsY, StaggeredY("cell"))
  <2>1. CASE p[2] # ny
    BY <1>1, <1>2, <2>1
  <2>2. CASE p[2] = ny
    <3>1. foldy(ny + 0) = 0 /\ foldy(0 + 0) = 0
      <4>1. ny + 0 = ny /\ 0 + 0 = 0 /\ ny \in Int /\ 0 \in 0 .. ny - 1 /\ 0 \in Int
        BY <1>1
      <4>2. foldy(ny) = 0 /\ foldy(0) = 0
        BY <1>4, <1>5, <2>2, <4>1, FoldedYNear
      <4> QED BY <4>1, <4>2
    <3>2. foldy(ny + -1) = ny - 1 /\ foldy(0 + -1) = ny - 1
      <4>1. ny + -1 \in 0 .. ny - 1 /\ ny + -1 = ny - 1 /\ 0 + -1 \in Int /\ (0 + -1) + 1 = 0 /\ ny + -1 \in Int
        BY <1>1
      <4>2. foldy(ny + -1) = ny + -1
        BY <4>1, FoldedYNear
      <4>3. foldy(0 + -1) = ny - 1
        BY <1>4, <1>5, <2>2, <4>1, FoldedYNear
      <4> QED BY <4>1, <4>2, <4>3
    <3>3. \A k \in 1 .. 4 : Quarter[k][2] \in {0, -1}
      BY DEF Quarter
    <3>4. \A k \in 1 .. 4 : foldy(ny + Quarter[k][2]) = foldy(0 + Quarter[k][2])
      BY <3>1, <3>2, <3>3
    <3>5. y = 0
      BY <1>2, <2>2
    <3>6. \A k : /\ QuarterPlace(p, k) = <<Folded(p[1] + Quarter[k][1], nx, WallsX, StaggeredX("cell")), foldy(p[2] + Quarter[k][2])>>
                 /\ QuarterPlace(o, k) = <<Folded(x + Quarter[k][1], nx, WallsX, StaggeredX("cell")), foldy(y + Quarter[k][2])>>
      BY <1>5 DEF QuarterPlace, Fold
    <3> HIDE DEF foldy, o, x, y
    <3> QED BY <1>2, <2>2, <3>4, <3>5, <3>6
  <2> QED BY <2>1, <2>2
<1>7. /\ QuarterPlace(o, 1) = <<Before(x, nx), Before(y, ny)>> /\ QuarterPlace(o, 2) = <<x, Before(y, ny)>>
      /\ QuarterPlace(o, 3) = <<Before(x, nx), y>> /\ QuarterPlace(o, 4) = <<x, y>>
  <2> HIDE DEF x, y, o
  <2> QED BY <1>2, <1>4, QuarterPlaces
<1> HIDE DEF x, y, o
<1>8. 1 \in 1 .. 4 /\ 2 \in 1 .. 4 /\ 3 \in 1 .. 4 /\ 4 \in 1 .. 4
  OBVIOUS
<1> QED BY <1>2, <1>3, <1>6, <1>7, <1>8 DEF x, y, o

\* Between walls a node of which the flux is not known stands on one, and stays still.
LEMMA ClosedNodes ==
  ASSUME WideGrid, WallsStill, BoundaryConditions \in {"periodic", "Wall"},
         NEW w \in Nodes, ~Starts(w), w \notin OpenOrigins
  PROVE  LagStill(w)
<1>1. BoundaryConditions = "Wall" /\ w \in Places("node") /\ OnEdge(w)
  BY FoldedNodes, OpenPlaces
<1>2. ~Moves(w)
  BY <1>1 DEF WallsStill
<1> QED BY <1>2 DEF Starts

\* The momentum of a dual cell: what its corners have brought to it of the flux of a node.
LEMMA DualGain ==
  ASSUME WideGrid, WallsStill, BoundaryConditions \in {"periodic", "Wall"}, OneVelocity, Carriers,
         CornerStage("mass_corner_fluxes", 15), pc \in Int,
         NEW a, NEW n \in Int, n > 16, pc > n + 1, Gathered(a, n),
         NEW p \in Places("node"), Open(p), p[1] \notin {0, nx}, NEW w \in Nodes, ~Starts(w)
  PROVE  Sum(a, At("node", p), w) = LagGain(w, p)
<1> DEFINE o == Wrapped(p)
           x == o[1]
           y == o[2]
           x1 == Before(x, nx)
           y1 == Before(y, ny)
           moved == w \in OpenOrigins /\ ~LagStill(w)
           hit(c, g) == IF moved /\ c = CellAhead(w, g) THEN 1 ELSE 0
           entered(g) == IF Entered(w, o, g) THEN 1 ELSE 0
<1>1. Sum(a, At("node", p), w) = entered(1) - entered(-1)
  <2> DEFINE of(g) == Brought(a, At("node", p), w, g)
  <2>1. Sum(a, At("node", p), w) = Cardinality(of(1)) - Cardinality(of(-1))
    BY DEF Sum, Brought
  <2>2. w # Garbage
    BY DEF Nodes, Fold, Garbage
  <2>3. \A g \in {-1, 1} : Cardinality(of(g)) = entered(g)
    BY <2>2, SharesCount
  <2> HIDE DEF of, entered
  <2> QED BY <2>1, <2>3
<1>2. /\ x \in 0 .. nx - 1 /\ y \in 0 .. ny - 1 /\ x1 \in 0 .. nx - 1 /\ y1 \in 0 .. ny - 1
      /\ QuarterPlace(p, 1) = <<x1, y1>> /\ QuarterPlace(p, 2) = <<x, y1>>
      /\ QuarterPlace(p, 3) = <<x1, y>> /\ QuarterPlace(p, 4) = <<x, y>>
  BY QuartersOf
<1>3. x1 # x /\ y1 # y
  BY <1>2 DEF Before, WideGrid
<1> HIDE DEF x, y, x1, y1
<1>4. ASSUME NEW g
      PROVE  /\ entered(g) = hit(<<x1, y1>>, g) + hit(<<x, y1>>, g) + hit(<<x1, y>>, g) + hit(<<x, y>>, g)
             /\ entered(g) \in Int
             /\ \A c : hit(c, g) \in Int
  <2> DEFINE cx == Ahead(g * SignOf(w, "u_lag"), w[1], nx)
             cy == Ahead(g * SignOf(w, "v_lag"), w[2], ny)
  <2>1. CellAhead(w, g) = <<cx, cy>>
    BY DEF CellAhead
  <2>2. Entered(w, o, g) <=> moved /\ cx \in {x1, x} /\ cy \in {y1, y}
    BY DEF Entered, x, y, x1, y1
  <2> HIDE DEF cx, cy, moved
  <2>3. \A c, d : hit(<<c, d>>, g) = IF moved /\ cx = c /\ cy = d THEN 1 ELSE 0
    BY <2>1
  <2>4. entered(g) = hit(<<x1, y1>>, g) + hit(<<x, y1>>, g) + hit(<<x1, y>>, g) + hit(<<x, y>>, g)
    <3> DEFINE m(c, d) == hit(<<c, d>>, g)
    <3>1. entered(g) = IF moved /\ cx \in {x1, x} /\ cy \in {y1, y} THEN 1 ELSE 0
      BY <2>2
    <3> HIDE DEF entered, hit
    <3> QED BY <1>3, <2>3, <3>1
  <2> QED BY <2>4
<1>5. CASE moved
  <2> DEFINE gain(c) == (IF c = LeadsTo("u_lag", "v_lag", w) THEN 1 ELSE 0)
                        - (IF c = ComesFrom("u_lag", "v_lag", w) THEN 1 ELSE 0)
  <2>1. LagGain(w, p) = gain(<<x1, y1>>) + gain(<<x, y1>>) + gain(<<x1, y>>) + gain(<<x, y>>)
    BY <1>2, <1>5 DEF LagGain
  <2>2. \A c : gain(c) = hit(c, 1) - hit(c, -1)
    BY <1>5, CellsAhead
  <2> HIDE DEF gain, hit, entered, moved
  <2> QED BY <1>1, <1>4, <2>1, <2>2
<1>6. CASE ~moved
  <2>1. LagStill(w)
    BY <1>6, ClosedNodes
  <2>2. ~Entered(w, o, 1) /\ ~Entered(w, o, -1)
    BY <1>6 DEF Entered
  <2> QED BY <1>1, <2>1, <2>2 DEF LagGain
<1> QED BY <1>5, <1>6

\* The place of a twin is beside the node that takes what it keeps.
LEMMA TwinBeside ==
  ASSUME WideGrid, BoundaryConditions \in {"periodic", "Wall"},
         NEW p \in Places("node"), Open(p), p[1] \notin {0, nx}, NEW k \in 1 .. 9,
         LET q == NodeBeside(Wrapped(p), Nine[k]) IN Open(q) /\ q # Wrapped(q) /\ Starts(Wrapped(q))
  PROVE  NearStaleTwin(p)
<1> DEFINE o == Wrapped(p)
           q == NodeBeside(o, Nine[k])
           d == Nine[k]
           r == <<o[1] + d[1], o[2] + d[2]>>
<1>1. o \in Origins /\ o[1] # 0 /\ Fold("node", p) = o
  <2>1. o \in OpenOrigins /\ Fold("node", p) = o
    BY OpenPlaces
  <2>2. o[1] # 0
    BY DEF Wrapped
  <2> QED BY <2>1, <2>2 DEF OpenOrigins
<1>2. /\ o[1] \in 1 .. nx - 1 /\ o[2] \in 0 .. ny - 1 /\ nx \in Nat \ {0, 1} /\ ny \in Nat \ {0, 1}
      /\ d = <<d[1], d[2]>> /\ d[1] \in {-1, 0, 1} /\ d[2] \in {-1, 0, 1}
  <2>1. o[1] \in 0 .. nx - 1 /\ o[2] \in 0 .. ny - 1
    BY <1>1, OriginsAre
  <2> QED BY <1>1, <2>1, NineAre DEF WideGrid
<1>3. q \in Places("node") /\ Open(q) /\ q # Wrapped(q) /\ Starts(Wrapped(q))
  BY <1>1, NodesAround
<1>4. q = <<r[1], IF d[2] = -1 THEN Before(o[2], ny) ELSE r[2]>>
  BY DEF NodeBeside
<1> HIDE DEF o, d
<1>5. r[1] = nx \/ r[2] = ny
  <2>1. q[1] = nx \/ q[2] = ny
    <3>1. q = <<q[1], q[2]>>
      BY <1>4
    <3> QED BY <1>3, <3>1 DEF Wrapped
  <2>2. d[2] = -1 => q[2] # ny
    BY <1>2, <1>4 DEF Before
  <2> QED BY <1>4, <2>1, <2>2
<1>6. Fold("node", r) = Wrapped(q)
  <2> DEFINE foldx(z) == Folded(z, nx, WallsX, StaggeredX("node"))
             foldy(z) == Folded(z, ny, WallsY, StaggeredY("node"))
  <2>1. Fold("node", r) = <<foldx(r[1]), foldy(r[2])>> /\ Fold("node", q) = <<foldx(q[1]), foldy(q[2])>>
    BY DEF Fold
  <2>2. Fold("node", q) = Wrapped(q)
    BY <1>3, OpenPlaces
  <2>3. foldy(r[2]) = foldy(q[2])
    <3>1. CASE d[2] # -1
      BY <1>4, <3>1
    <3>2. CASE d[2] = -1 /\ o[2] # 0
      BY <1>2, <1>4, <3>2 DEF Before
    <3>3. CASE d[2] = -1 /\ o[2] = 0
      <4>1. q[2] = ny - 1 /\ q[2] \in 0 .. ny - 1 /\ q[2] \in Int /\ r[2] \in Int /\ r[2] + 1 = 0
        BY <1>2, <1>4, <3>3 DEF Before
      <4>2. StaggeredY("node")
        BY DEF StaggeredY
      <4>3. ~WallsY
        <5>1. OnEdge(p)
          BY <3>3 DEF o, Wrapped, OnEdge
        <5> QED BY <5>1 DEF Open, WallsY
      <4>4. foldy(r[2]) = ny - 1
        BY <4>1, <4>2, <4>3, FoldedYNear
      <4>5. foldy(q[2]) = q[2]
        BY <4>1, FoldedYNear
      <4> QED BY <4>1, <4>4, <4>5
    <3> QED BY <3>1, <3>2, <3>3
  <2>4. r[1] = q[1]
    BY <1>4
  <2> HIDE DEF r, q, foldx, foldy
  <2> QED BY <2>1, <2>2, <2>3, <2>4
<1>7. d \in {-1, 0, 1} \X {-1, 0, 1}
  BY <1>2
<1>8. Starts(Fold("node", r))
  BY <1>3, <1>6
<1> HIDE DEF q
<1> QED BY <1>1, <1>5, <1>7, <1>8 DEF NearStaleTwin, o

\* The entries of a dual cell are those of the place that it is seen at.
LEMMA DualEntries ==
  ASSUME WideGrid, BoundaryConditions \in {"periodic", "Wall"}, OneVelocity, Carriers,
         CornerStage("mass_corner_fluxes", 15), pc \in Int,
         NEW a, NEW n \in Int, n > 16, pc > n + 1, Gathered(a, n),
         NEW p \in Places("node"), Open(p), p[1] \notin {0, nx},
         NEW e \in ledger, e.of = a, e.at = At("node", p)
  PROVE  e.flux \in Nodes \/ NearStaleTwin(p)
<1> DEFINE o == Wrapped(p)
<1>1. o \in OpenOrigins /\ o[1] # 0
  <2>1. o \in OpenOrigins
    BY OpenPlaces
  <2>2. o[1] # 0
    BY DEF Wrapped
  <2> QED BY <2>1, <2>2
<1>2. \E r \in OpenOrigins : IsShare(e, a, r)
  <2>1. ~(pc < n) /\ pc # n /\ pc # n + 1
    OBVIOUS
  <2>2. Reached(n, BoundaryConditions = "periodic", pc, todo) = OpenOrigins
    BY <2>1, OpenPlaces DEF Reached
  <2> QED BY <2>2 DEF Gathered
<1>3. IsShare(e, a, o)
  BY <1>2, SharesAt DEF OpenOrigins
<1>4. pc > 16
  OBVIOUS
<1> HIDE DEF o
<1>5. \/ e.flux \in Nodes
      \/ \E k \in 1 .. 9 : LET q == NodeBeside(o, Nine[k])
                           IN Open(q) /\ q # Wrapped(q) /\ Starts(Wrapped(q))
  BY <1>1, <1>3, <1>4, SharesKnown
<1>6. CASE e.flux \in Nodes
  BY <1>6
<1>7. ASSUME NEW k \in 1 .. 9, LET q == NodeBeside(o, Nine[k])
                               IN Open(q) /\ q # Wrapped(q) /\ Starts(Wrapped(q))
      PROVE  NearStaleTwin(p)
  BY <1>7, TwinBeside DEF o
<1> QED BY <1>5, <1>6, <1>7

\* Where the momentum is gathered, all that these lemmas ask for is known.
LEMMA MomentumGathered ==
  ASSUME SizesInv, CornersInv, MomentumInv, NEW a \in {"out_u", "out_v"}, NEW p \in MomentumNodes(a)
  PROVE  /\ WideGrid /\ WallsStill /\ BoundaryConditions \in {"periodic", "Wall"} /\ OneVelocity /\ Carriers
         /\ CornerStage("mass_corner_fluxes", 15) /\ Accounted("out_mass", 18) /\ pc \in Int
         /\ \E n \in Int : n > 18 /\ pc > n + 1 /\ Gathered(a, n)
         /\ p \in Places("node") /\ Open(p) /\ p[1] \notin {0, nx}
<1>1. /\ pc \in Int /\ WideGrid /\ WallsStill /\ OneVelocity /\ Carriers
      /\ CornerStage("mass_corner_fluxes", 15) /\ Accounted("out_mass", 18)
  BY DEF SizesInv, CornersInv, MomentumInv
<1>2. /\ Returned(Seam(a)) /\ BoundaryConditions \in {"periodic", "Wall"}
      /\ p \in Places("node") /\ Open(p) /\ p[1] \notin {0, nx}
  BY DEF MomentumNodes, Open, OnEdge
<1>3. PICK k \in 1 .. 49 : Driver[k] = Seam(a) /\ k < pc
  BY <1>2, DriverCalls DEF Returned
<1>4. Driver[k].part = "seam" /\ a \in Driver[k].outs
  BY <1>3, CallFields
<1>5. CASE a = "out_u"
  <2>1. k = 40
    BY <1>4, <1>5, CallParts, StoringCalls
  <2>2. 39 \in Int /\ 39 > 18 /\ pc > 39 + 1 /\ Gathered(a, 39)
    BY <1>1, <1>3, <1>5, <2>1 DEF MomentumInv
  <2> QED BY <1>1, <1>2, <2>2
<1>6. CASE a = "out_v"
  <2>1. k = 48
    BY <1>4, <1>6, CallParts, StoringCalls
  <2>2. 47 \in Int /\ 47 > 18 /\ pc > 47 + 1 /\ Gathered(a, 47)
    BY <1>1, <1>3, <1>6, <2>1 DEF MomentumInv
  <2> QED BY <1>1, <1>2, <2>2
<1> QED BY <1>5, <1>6
-----------------------------------------------------------------------------
\* The inductive invariant of the momentum kernels.
GatherInv == SizesInv /\ CornersInv /\ MomentumInv

LEMMA GatherInitially == Init => GatherInv
  BY SizesInitially, CornersInitially, MomentumInitially DEF GatherInv

LEMMA GatherNext == GatherInv /\ [Next]_allvars => GatherInv'
  BY SizesNext, CornersNext, MomentumNext DEF GatherInv

LEMMA GatherGoesWithLag == GatherInv => MomentumGoesWithLag
<1> SUFFICES ASSUME SizesInv, CornersInv, MomentumInv, NEW a \in {"out_u", "out_v"}, NEW p \in MomentumNodes(a)
             PROVE  /\ \A w \in Nodes : ~Starts(w) => Sum(a, At("node", p), w) = LagGain(w, p)
                    /\ \A e \in ledger : e.of = a /\ e.at = At("node", p) => e.flux \in Nodes \/ NearStaleTwin(p)
  BY DEF MomentumGoesWithLag, GatherInv
<1>1. /\ WideGrid /\ WallsStill /\ BoundaryConditions \in {"periodic", "Wall"} /\ OneVelocity /\ Carriers
      /\ CornerStage("mass_corner_fluxes", 15) /\ pc \in Int
      /\ p \in Places("node") /\ Open(p) /\ p[1] \notin {0, nx}
  BY MomentumGathered
<1>2. PICK n \in Int : n > 18 /\ pc > n + 1 /\ Gathered(a, n)
  BY MomentumGathered
<1>3. n > 16
  BY <1>2
<1>4. ASSUME NEW w \in Nodes, ~Starts(w) PROVE Sum(a, At("node", p), w) = LagGain(w, p)
  BY <1>1, <1>2, <1>3, <1>4, DualGain
<1>5. ASSUME NEW e \in ledger, e.of = a, e.at = At("node", p) PROVE e.flux \in Nodes \/ NearStaleTwin(p)
  BY <1>1, <1>2, <1>3, <1>5, DualEntries
<1> QED BY <1>4, <1>5

\* When the momentum of the nodes is gathered, a dual cell has of the flux of each node what
\* the direction of u_lag and v_lag says, whatever the one was that the mass went in: in the
\* nine-node kernel and at the seam of a periodic grid, but on the side in x and at walls.
\* Left out are the nodes that the acceleration alone starts; nothing else comes in, but what
\* their twins keep.
THEOREM MomentumAlwaysGoesWithLag == Spec => []MomentumGoesWithLag
<1> QED BY GatherInitially, GatherNext, GatherGoesWithLag, PTL DEF Spec

\* Of the flux of a node of which u_lag and v_lag have the signs that the node was predicted
\* to have, a dual cell gets what the corners have brought to its four quarters.  Without
\* this premise the code does not promise it.
THEOREM CornersAlwaysBalance == Spec => []CornersBalance
<1>1. GatherInv => CornersBalance
  <2> SUFFICES ASSUME SizesInv, CornersInv, MomentumInv, NEW a \in {"out_u", "out_v"},
                      NEW p \in MomentumNodes(a), NEW w \in Nodes, KeepsDirection(w)
               PROVE  LET mass(k) == Sum("out_mass", QuarterCell(p, k), w)
                      IN Sum(a, At("node", p), w) = mass(1) + mass(2) + mass(3) + mass(4)
    BY DEF CornersBalance, GatherInv
  <2>1. /\ WideGrid /\ WallsStill /\ BoundaryConditions \in {"periodic", "Wall"}
        /\ Accounted("out_mass", 18) /\ pc \in Int
        /\ p \in Places("node") /\ Open(p) /\ p[1] \notin {0, nx}
    BY MomentumGathered
  <2>2. pc > 18 + 1 /\ 18 \in Int
    <3>1. PICK n \in Int : n > 18 /\ pc > n + 1
      BY MomentumGathered
    <3> QED BY <2>1, <3>1
  <2>3. /\ Moves(w) <=> ~LagStill(w)
        /\ Downstream(w) = LeadsTo("u_lag", "v_lag", w) /\ Upstream(w) = ComesFrom("u_lag", "v_lag", w)
    BY DEF KeepsDirection, Moves, Still, LagStill, Downstream, Upstream, LeadsTo, ComesFrom
  <2>4. Sum(a, At("node", p), w) = LagGain(w, p)
    <3>1. ~Starts(w)
      BY <2>3 DEF Starts
    <3> QED BY <3>1, GatherGoesWithLag DEF MomentumGoesWithLag, GatherInv
  <2> DEFINE gain(c) == (IF c = LeadsTo("u_lag", "v_lag", w) THEN 1 ELSE 0)
                        - (IF c = ComesFrom("u_lag", "v_lag", w) THEN 1 ELSE 0)
             mass(k) == Sum("out_mass", QuarterCell(p, k), w)
  <2>5. LagGain(w, p) = IF LagStill(w) THEN 0
                        ELSE gain(QuarterPlace(p, 1)) + gain(QuarterPlace(p, 2))
                             + gain(QuarterPlace(p, 3)) + gain(QuarterPlace(p, 4))
    BY DEF LagGain
  <2>6. \A k \in 1 .. 4 : mass(k) = IF LagStill(w) THEN 0 ELSE gain(QuarterPlace(p, k))
    <3> TAKE k \in 1 .. 4
    <3>1. QuarterPlace(p, k) \in Places("cell")
      <4>1. k = 1 \/ k = 2 \/ k = 3 \/ k = 4
        OBVIOUS
      <4>2. Places("cell") = (0 .. nx - 1) \X (0 .. ny - 1)
        BY DEF Places, LastX, LastY, StaggeredX, StaggeredY
      <4> QED BY <2>1, <4>1, <4>2, QuartersOf
    <3>2. Sum("out_mass", At("cell", QuarterPlace(p, k)), w) =
            (IF Moves(w) /\ QuarterPlace(p, k) = Downstream(w) THEN 1 ELSE 0)
            - (IF Moves(w) /\ QuarterPlace(p, k) = Upstream(w) THEN 1 ELSE 0)
      BY <2>1, <2>2, <3>1, SumsAre
    <3> QED BY <2>3, <3>2 DEF QuarterCell
  <2>7. \A c : gain(c) \in Int
    OBVIOUS
  <2> HIDE DEF gain, mass
  <2>8. Sum(a, At("node", p), w) = mass(1) + mass(2) + mass(3) + mass(4)
    <3>1. 1 \in 1 .. 4 /\ 2 \in 1 .. 4 /\ 3 \in 1 .. 4 /\ 4 \in 1 .. 4
      OBVIOUS
    <3> QED BY <2>4, <2>5, <2>6, <2>7, <3>1
  <2> QED BY <2>8 DEF mass
<1> QED BY <1>1, GatherInitially, GatherNext, PTL DEF Spec
=============================================================================
