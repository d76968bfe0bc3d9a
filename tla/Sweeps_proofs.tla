--------------------------- MODULE Sweeps_proofs ---------------------------
(***************************************************************************)
(* The kernels of the two sweeps, for every size of grid and each boundary *)
(* condition: what they leave in an array of fluxes, over which cells and  *)
(* faces their stencils lie, and where they store.  Checked by TLAPS.      *)
(***************************************************************************)
EXTENDS Sweeps, GridArrays_proofs, FiniteSetTheorems

-----------------------------------------------------------------------------
\* The operators of the instances are those of the modules they instantiate.
LEMMA SameGridX ==
  /\ \A a : X!KindOf(a) = KindOf(a)
  /\ \A k : X!Places(k) = Places(k)
  /\ \A k, p : X!At(k, p) = At(k, p) /\ X!Fold(k, p) = Fold(k, p)
  /\ X!WallsX = WallsX /\ X!CellRows = CellRows /\ X!Inner = Inner
  /\ X!Zero = Zero /\ X!Garbage = Garbage
<1>1. \A k : X!StaggeredX(k) = StaggeredX(k) /\ X!StaggeredY(k) = StaggeredY(k)
  BY DEF X!StaggeredX, StaggeredX, X!StaggeredY, StaggeredY
<1>2. \A k : X!LastX(k) = LastX(k) /\ X!LastY(k) = LastY(k)
  BY <1>1 DEF X!LastX, LastX, X!LastY, LastY
<1>3. \A k : X!Places(k) = Places(k)
  BY <1>2 DEF X!Places, Places
<1>4. \A k, p : X!At(k, p) = At(k, p)
  BY <1>1 DEF X!At, At, X!NodeAt, NodeAt, X!CellAt, CellAt
<1>5. X!WallsX = WallsX /\ X!WallsY = WallsY
  BY DEF X!WallsX, WallsX, X!WallsY, WallsY
<1>6. \A k, p : X!Fold(k, p) = Fold(k, p)
  BY <1>1, <1>5 DEF X!Fold, Fold, X!Folded, Folded
<1>7. \A a : X!KindOf(a) = KindOf(a)
  BY DEF X!KindOf, KindOf
<1>8. X!CellRows = CellRows /\ X!Inner = Inner /\ X!Zero = Zero /\ X!Garbage = Garbage
  BY DEF X!CellRows, CellRows, X!Inner, Inner, X!Zero, Zero, X!Garbage, Garbage
<1> QED BY <1>3, <1>4, <1>5, <1>6, <1>7, <1>8

LEMMA SameStoresX ==
  /\ \A f, stores : X!Stored(f, stores) = Stored(f, stores)
  /\ \A k, p, reads : X!Computed(k, p, reads) \in Results(k, p)
  /\ \A nodes : X!Zeros(nodes) = Zeros(nodes)
  /\ X!CornerNodes = CornerNodes
<1>1. \A f, stores : X!Stored(f, stores) = Stored(f, stores)
  BY SameGridX DEF X!Stored, Stored
<1>2. \A k, p, reads : X!Computed(k, p, reads) \in Results(k, p)
  BY SameGridX DEF X!Computed, Results, Stamps, X!Off, Off, X!Derived, Derived
<1>3. \A nodes : X!Zeros(nodes) = Zeros(nodes)
  BY SameGridX DEF X!Zeros, Zeros
<1>4. X!CornerNodes = CornerNodes
  BY DEF X!CornerNodes, CornerNodes
<1> QED BY <1>1, <1>2, <1>3, <1>4

LEMMA SameGridY ==
  /\ \A a : Y!KindOf(a) = KindOf(a)
  /\ \A k : Y!Places(k) = Places(k)
  /\ \A k, p : Y!At(k, p) = At(k, p) /\ Y!Fold(k, p) = Fold(k, p)
  /\ Y!WallsY = WallsY /\ Y!CellRows = CellRows /\ Y!Inner = Inner
  /\ Y!Zero = Zero /\ Y!Garbage = Garbage
<1>1. \A k : Y!StaggeredX(k) = StaggeredX(k) /\ Y!StaggeredY(k) = StaggeredY(k)
  BY DEF Y!StaggeredX, StaggeredX, Y!StaggeredY, StaggeredY
<1>2. \A k : Y!LastX(k) = LastX(k) /\ Y!LastY(k) = LastY(k)
  BY <1>1 DEF Y!LastX, LastX, Y!LastY, LastY
<1>3. \A k : Y!Places(k) = Places(k)
  BY <1>2 DEF Y!Places, Places
<1>4. \A k, p : Y!At(k, p) = At(k, p)
  BY <1>1 DEF Y!At, At, Y!NodeAt, NodeAt, Y!CellAt, CellAt
<1>5. Y!WallsX = WallsX /\ Y!WallsY = WallsY
  BY DEF Y!WallsX, WallsX, Y!WallsY, WallsY
<1>6. \A k, p : Y!Fold(k, p) = Fold(k, p)
  BY <1>1, <1>5 DEF Y!Fold, Fold, Y!Folded, Folded
<1>7. \A a : Y!KindOf(a) = KindOf(a)
  BY DEF Y!KindOf, KindOf
<1>8. Y!CellRows = CellRows /\ Y!Inner = Inner /\ Y!Zero = Zero /\ Y!Garbage = Garbage
  BY DEF Y!CellRows, CellRows, Y!Inner, Inner, Y!Zero, Zero, Y!Garbage, Garbage
<1> QED BY <1>3, <1>4, <1>5, <1>6, <1>7, <1>8

LEMMA SameStoresY ==
  /\ \A f, stores : Y!Stored(f, stores) = Stored(f, stores)
  /\ \A k, p, reads : Y!Computed(k, p, reads) \in Results(k, p)
  /\ \A nodes : Y!Zeros(nodes) = Zeros(nodes)
  /\ Y!CornerNodes = CornerNodes
<1>1. \A f, stores : Y!Stored(f, stores) = Stored(f, stores)
  BY SameGridY DEF Y!Stored, Stored
<1>2. \A k, p, reads : Y!Computed(k, p, reads) \in Results(k, p)
  BY SameGridY DEF Y!Computed, Results, Stamps, Y!Off, Off, Y!Derived, Derived
<1>3. \A nodes : Y!Zeros(nodes) = Zeros(nodes)
  BY SameGridY DEF Y!Zeros, Zeros
<1>4. Y!CornerNodes = CornerNodes
  BY DEF Y!CornerNodes, CornerNodes
<1> QED BY <1>1, <1>2, <1>3, <1>4

-----------------------------------------------------------------------------
\* The rows of an array of fluxes, and its ends, are given what belongs to them.
MassAndEnergyX == {"mass_flux_x", "energy_flux_x"}
LEMMA FluxKindsX == \A a \in MassAndEnergyX : KindOf(a) = "facex"
  BY DEF MassAndEnergyX, KindOf

LEMMA FluxRowX ==
  ASSUME WideGrid, NEW a \in MassAndEnergyX, DOMAIN mem[a] = 0 .. Size("facex") - 1,
         NEW iy \in CellRows, NEW rows, FluxesOn(mem[a], "facex", FacesOf("facex", rows))
  PROVE  FluxesOn(X!Stored(mem[a], X!ReconstructFluxOrder2X(a, iy)), "facex",
                  FacesOf("facex", rows \cup {iy}))
<1> DEFINE C == 1 .. nx - 1
           crossing(ix) ==
             X!Crossing(<<ix, iy>>, {X!FaceXAt(ix, iy, nx)},
                        X!FaceXCellM1(X!FaceXAt(ix, iy, nx), iy, nx),
                        X!FaceXCellP1(X!FaceXAt(ix, iy, nx), iy, nx), X!FaceXAt(ix, iy, nx))
           value(ix) == X!Computed("facex", <<ix, iy>>, X!FluxReads(a, crossing(ix)))
           v == [ix \in C |-> value(ix)]
           stores == X!ReconstructFluxOrder2X(a, iy)
<1>1. stores = {<<FaceXAt(ix, iy, nx), v[ix]>> : ix \in C}
  <2>1. stores = X!Fluxes(a, {crossing(ix) : ix \in C})
    BY DEF X!ReconstructFluxOrder2X, X!InnerFaces
  <2>2. \A ix : /\ crossing(ix).to = {FaceXAt(ix, iy, nx)}
                /\ crossing(ix).at = <<ix, iy>>
    BY DEF X!Crossing, X!FaceXAt, FaceXAt
  <2> DEFINE result(ix) == X!Computed("facex", crossing(ix).at, X!FluxReads(a, crossing(ix)))
             one(ix)  == {<<f, result(ix)>> : f \in crossing(ix).to}
             pair(ix) == <<FaceXAt(ix, iy, nx), v[ix]>>
  <2> HIDE DEF crossing, C
  <2>3. X!Fluxes(a, {crossing(ix) : ix \in C}) = UNION {one(ix) : ix \in C}
    BY DEF X!Fluxes
  <2>4. \A ix \in C : result(ix) = v[ix]
    BY <2>2
  <2> HIDE DEF v, stores, result
  <2>5. \A ix \in C : one(ix) = {pair(ix)}
    BY <2>2, <2>4
  <2> HIDE DEF one, pair
  <2>6. UNION {one(ix) : ix \in C} = {pair(ix) : ix \in C}
    BY <2>5
  <2> QED BY <2>1, <2>3, <2>6 DEF pair
<1>2. \A ix \in C : v[ix] \in Borne(Fold("facex", <<ix, iy>>))
  BY SameStoresX DEF Results, Borne
<1> HIDE DEF v, stores
<1>3. FluxesOn(Stored(mem[a], stores), "facex", FacesOf("facex", rows \cup {iy}))
  BY <1>1, <1>2, RowOfFacesX
<1> QED BY <1>3, SameStoresX DEF stores

LEMMA FluxEdgeX ==
  ASSUME WideGrid, NEW a \in MassAndEnergyX, DOMAIN mem[a] = 0 .. Size("facex") - 1,
         FluxesOn(mem[a], "facex", FacesOf("facex", CellRows))
  PROVE  Complete(X!Stored(mem[a], X!ReconstructFluxOrder2XBoundary(a)), "facex")
<1> DEFINE C == CellRows
           crossing(iy) ==
             X!Crossing(<<0, iy>>, {X!FirstFace(iy), X!LastFace(iy)},
                        X!FaceXCellM1(X!LastFace(iy), iy, nx),
                        X!FaceXCellP1(X!FirstFace(iy), iy, nx), X!FirstFace(iy))
           value(iy) == IF WallsX THEN Zero
                        ELSE X!Computed("facex", <<0, iy>>, X!FluxReads(a, crossing(iy)))
           v == [iy \in C |-> value(iy)]
           pairs(iy) == {<<FaceXAt(0, iy, nx), v[iy]>>, <<FaceXAt(nx, iy, nx), v[iy]>>}
           stores == X!ReconstructFluxOrder2XBoundary(a)
<1>1. \A iy \in C : /\ FaceXAt(0, iy, nx) = X!FirstFace(iy)
                     /\ FaceXAt(nx, iy, nx) = X!LastFace(iy)
  BY DEF FaceXAt, X!FirstFace, X!LastFace, CellRows, WideGrid
<1>2. stores = UNION {pairs(iy) : iy \in C}
  <2>1. CASE WallsX
    <3>1. stores = UNION {{<<X!FirstFace(iy), Zero>>, <<X!LastFace(iy), Zero>>} : iy \in C}
      BY <2>1, SameGridX DEF X!ReconstructFluxOrder2XBoundary, X!ReconstructFluxOrder2XWallBoundary, WallsX
    <3>2. \A iy \in C : pairs(iy) = {<<X!FirstFace(iy), Zero>>, <<X!LastFace(iy), Zero>>}
      BY <1>1, <2>1
    <3> QED BY <3>1, <3>2
  <2>2. CASE ~WallsX
    <3> DEFINE result(iy) == X!Computed("facex", crossing(iy).at, X!FluxReads(a, crossing(iy)))
               two(iy) == {<<f, result(iy)>> : f \in crossing(iy).to}
    <3>1. stores = X!Fluxes(a, {crossing(iy) : iy \in C})
      BY <2>2, SameGridX
         DEF X!ReconstructFluxOrder2XBoundary, X!ReconstructFluxOrder2XBoundaryRt,
             X!ReconstructFluxOrder2XPeriodicBoundary, X!SeamFaces, WallsX
    <3>2. \A iy : /\ crossing(iy).to = {X!FirstFace(iy), X!LastFace(iy)}
                  /\ crossing(iy).at = <<0, iy>>
      BY DEF X!Crossing
    <3> HIDE DEF crossing, C
    <3>3. X!Fluxes(a, {crossing(iy) : iy \in C}) = UNION {two(iy) : iy \in C}
      BY DEF X!Fluxes
    <3>4. \A iy \in C : result(iy) = v[iy]
      BY <2>2, <3>2
    <3> HIDE DEF result, v
    <3>5. \A iy \in C : two(iy) = pairs(iy)
      BY <1>1, <3>2, <3>4
    <3> HIDE DEF two, pairs
    <3> QED BY <3>1, <3>3, <3>5
  <2> QED BY <2>1, <2>2
<1>3. \A iy \in C : IF WallsX THEN v[iy] = Zero ELSE v[iy] \in Borne(<<0, iy>>)
  <2> TAKE iy \in C
  <2>1. Fold("facex", <<0, iy>>) = <<0, iy>>
    <3>1. <<0, iy>> \in Places("facex")
      BY DEF Places, LastX, LastY, StaggeredX, StaggeredY, WideGrid, CellRows
    <3> QED BY <3>1, FaceFold DEF FaceKinds, AtEnd, WallsOf, WideGrid
  <2> QED BY <2>1, SameStoresX DEF Results, Borne
<1> HIDE DEF v, stores
<1>4. CompleteAs(WallsX, Stored(mem[a], stores), "facex")
  BY <1>2, <1>3, EdgeOfFacesX
<1>5. Complete(Stored(mem[a], stores), "facex")
  BY <1>4, CompleteIs DEF WallsOf, FaceKinds
<1> QED BY <1>5, SameStoresX DEF stores

MassAndEnergyY == {"mass_flux_y", "energy_flux_y"}

LEMMA FluxKindsY == \A a \in MassAndEnergyY : KindOf(a) = "facey"
  BY DEF MassAndEnergyY, KindOf

LEMMA FluxRowY ==
  ASSUME WideGrid, NEW a \in MassAndEnergyY, DOMAIN mem[a] = 0 .. Size("facey") - 1,
         NEW iy \in Inner, NEW rows, FluxesOn(mem[a], "facey", FacesOf("facey", rows))
  PROVE  FluxesOn(Y!Stored(mem[a], Y!ReconstructFluxOrder2Y(a, iy)), "facey",
                  FacesOf("facey", rows \cup {iy}))
<1> DEFINE C == 0 .. nx - 1
           crossing(ix) ==
             Y!Crossing(<<ix, iy>>, {Y!FaceYAt(ix, iy, nx)},
                        Y!FaceYCellM1(Y!FaceYAt(ix, iy, nx), iy, nx),
                        Y!FaceYCellP1(Y!FaceYAt(ix, iy, nx), iy, nx), Y!FaceYAt(ix, iy, nx))
           value(ix) == Y!Computed("facey", <<ix, iy>>, Y!FluxReads(a, crossing(ix)))
           v == [ix \in C |-> value(ix)]
           stores == Y!ReconstructFluxOrder2Y(a, iy)
<1>1. stores = {<<FaceYAt(ix, iy, nx), v[ix]>> : ix \in C}
  <2>1. stores = Y!Fluxes(a, {crossing(ix) : ix \in C})
    BY DEF Y!ReconstructFluxOrder2Y, Y!InnerFaces
  <2>2. \A ix : /\ crossing(ix).to = {FaceYAt(ix, iy, nx)}
                /\ crossing(ix).at = <<ix, iy>>
    BY DEF Y!Crossing, Y!FaceYAt, FaceYAt
  <2> DEFINE result(ix) == Y!Computed("facey", crossing(ix).at, Y!FluxReads(a, crossing(ix)))
             one(ix)  == {<<f, result(ix)>> : f \in crossing(ix).to}
             pair(ix) == <<FaceYAt(ix, iy, nx), v[ix]>>
  <2> HIDE DEF crossing, C
  <2>3. Y!Fluxes(a, {crossing(ix) : ix \in C}) = UNION {one(ix) : ix \in C}
    BY DEF Y!Fluxes
  <2>4. \A ix \in C : result(ix) = v[ix]
    BY <2>2
  <2> HIDE DEF v, stores, result
  <2>5. \A ix \in C : one(ix) = {pair(ix)}
    BY <2>2, <2>4
  <2> HIDE DEF one, pair
  <2>6. UNION {one(ix) : ix \in C} = {pair(ix) : ix \in C}
    BY <2>5
  <2> QED BY <2>1, <2>3, <2>6 DEF pair
<1>2. \A ix \in C : v[ix] \in Borne(Fold("facey", <<ix, iy>>))
  BY SameStoresY DEF Results, Borne
<1> HIDE DEF v, stores
<1>3. FluxesOn(Stored(mem[a], stores), "facey", FacesOf("facey", rows \cup {iy}))
  BY <1>1, <1>2, RowOfFacesY
<1> QED BY <1>3, SameStoresY DEF stores

LEMMA FluxEdgeY ==
  ASSUME WideGrid, NEW a \in MassAndEnergyY, DOMAIN mem[a] = 0 .. Size("facey") - 1,
         FluxesOn(mem[a], "facey", FacesOf("facey", Inner))
  PROVE  Complete(Y!Stored(mem[a], Y!ReconstructFluxOrder2YBoundary(a)), "facey")
<1> DEFINE C == 0 .. nx - 1
           crossing(ix) ==
             Y!Crossing(<<ix, 0>>, {Y!FirstFace(ix), Y!LastFace(ix)},
                        Y!FaceYCellM1(Y!LastFace(ix), ny, nx),
                        Y!FaceYCellP1(Y!FirstFace(ix), 0, nx), Y!FirstFace(ix))
           value(ix) == IF WallsY THEN Zero
                        ELSE Y!Computed("facey", <<ix, 0>>, Y!FluxReads(a, crossing(ix)))
           v == [ix \in C |-> value(ix)]
           pairs(ix) == {<<FaceYAt(ix, 0, nx), v[ix]>>, <<FaceYAt(ix, ny, nx), v[ix]>>}
           stores == Y!ReconstructFluxOrder2YBoundary(a)
<1>1. \A ix \in C : /\ FaceYAt(ix, 0, nx) = Y!FirstFace(ix)
                     /\ FaceYAt(ix, ny, nx) = Y!LastFace(ix)
  BY DEF FaceYAt, Y!FirstFace, Y!LastFace, WideGrid
<1>2. stores = UNION {pairs(ix) : ix \in C}
  <2>1. CASE WallsY
    <3>1. stores = UNION {{<<Y!FirstFace(ix), Zero>>, <<Y!LastFace(ix), Zero>>} : ix \in C}
      BY <2>1, SameGridY DEF Y!ReconstructFluxOrder2YBoundary,
             Y!ReconstructFluxOrder2YBoundaryRt, Y!ReconstructFluxOrder2YWallBoundary, WallsY
    <3>2. \A ix \in C : pairs(ix) = {<<Y!FirstFace(ix), Zero>>, <<Y!LastFace(ix), Zero>>}
      BY <1>1, <2>1
    <3> QED BY <3>1, <3>2
  <2>2. CASE ~WallsY
    <3> DEFINE result(ix) == Y!Computed("facey", crossing(ix).at, Y!FluxReads(a, crossing(ix)))
               two(ix) == {<<f, result(ix)>> : f \in crossing(ix).to}
    <3>1. stores = Y!Fluxes(a, {crossing(ix) : ix \in C})
      BY <2>2, SameGridY
         DEF Y!ReconstructFluxOrder2YBoundary, Y!ReconstructFluxOrder2YBoundaryRt,
             Y!ReconstructFluxOrder2YPeriodicBoundary, Y!SeamFaces, WallsY
    <3>2. \A ix : /\ crossing(ix).to = {Y!FirstFace(ix), Y!LastFace(ix)}
                  /\ crossing(ix).at = <<ix, 0>>
      BY DEF Y!Crossing
    <3> HIDE DEF crossing, C
    <3>3. Y!Fluxes(a, {crossing(ix) : ix \in C}) = UNION {two(ix) : ix \in C}
      BY DEF Y!Fluxes
    <3>4. \A ix \in C : result(ix) = v[ix]
      BY <2>2, <3>2
    <3> HIDE DEF result, v
    <3>5. \A ix \in C : two(ix) = pairs(ix)
      BY <1>1, <3>2, <3>4
    <3> HIDE DEF two, pairs
    <3> QED BY <3>1, <3>3, <3>5
  <2> QED BY <2>1, <2>2
<1>3. \A ix \in C : IF WallsY THEN v[ix] = Zero ELSE v[ix] \in Borne(<<ix, 0>>)
  <2> TAKE ix \in C
  <2>1. Fold("facey", <<ix, 0>>) = <<ix, 0>>
    <3>1. <<ix, 0>> \in Places("facey")
      BY DEF Places, LastX, LastY, StaggeredX, StaggeredY, WideGrid, CellRows
    <3> QED BY <3>1, FaceFold DEF FaceKinds, AtEnd, WallsOf, WideGrid
  <2> QED BY <2>1, SameStoresY DEF Results, Borne
<1> HIDE DEF v, stores
<1>4. CompleteAs(WallsY, Stored(mem[a], stores), "facey")
  BY <1>2, <1>3, EdgeOfFacesY
<1>5. Complete(Stored(mem[a], stores), "facey")
  BY <1>4, CompleteIs DEF WallsOf, FaceKinds
<1> QED BY <1>5, SameStoresY DEF stores

\* Complete fluxes are conserved.
LEMMA CompleteConservesX ==
  ASSUME WideGrid, NEW a, DOMAIN mem[a] = 0 .. Size("facex") - 1, Complete(mem[a], "facex")
  PROVE  X!Conserves(a)
<1> SUFFICES ASSUME NEW i \in DOMAIN mem[a], mem[a][i] # Zero
             PROVE  /\ mem[a][i] # Garbage
                    /\ X!Cardinality(X!TakenBefore(a, mem[a][i])) = X!Cardinality(X!TakenAfter(a, mem[a][i]))
  BY SameGridX DEF X!Conserves
<1> DEFINE m == mem[a]
           before == BeforeX(m, m[i])
           after  == AfterX(m, m[i])
<1>1. m[i] # Garbage /\ (\E p : before = {p}) /\ (\E p : after = {p})
  <2>1. DOMAIN m = 0 .. Size("facex") - 1 /\ CompleteAs(WallsX, m, "facex") /\ i \in DOMAIN m /\ m[i] # Zero
    BY CompleteIs DEF WallsOf, FaceKinds
  <2> HIDE DEF m
  <2> QED BY <2>1, TakenOnceX
<1>2. ASSUME NEW c \in Places("cell")
      PROVE  /\ X!CellFaceM1O(X!At("cell", c), c[2], nx) = FaceXAt(c[1], c[2], nx)
             /\ X!CellFaceP1O(X!At("cell", c), c[2], nx) = FaceXAt(c[1] + 1, c[2], nx)
  <2>1. c[1] \in Int /\ c[2] \in Int /\ nx \in Int /\ At("cell", c) = CellAt(c[1], c[2], nx)
    BY DEF Places, LastX, LastY, StaggeredX, StaggeredY, At, WideGrid
  <2>2. /\ CellFaceM1O(CellAt(c[1], c[2], nx), c[2], nx) = FaceXAt(c[1], c[2], nx)
        /\ CellFaceP1O(CellAt(c[1], c[2], nx), c[2], nx) = FaceXAt(c[1] + 1, c[2], nx)
    BY <2>1, CellMaps
  <2>3. X!At("cell", c) = CellAt(c[1], c[2], nx)
    BY <2>1, SameGridX
  <2> QED BY <2>2, <2>3 DEF X!CellFaceM1O, X!CellFaceP1O, CellFaceM1O, CellFaceP1O
<1>3. X!TakenBefore(a, m[i]) = before /\ X!TakenAfter(a, m[i]) = after
  BY <1>2, SameGridX DEF X!TakenBefore, X!TakenAfter, BeforeX, AfterX
<1>4. \A S : X!Cardinality(S) = Cardinality(S)
  BY DEF X!Cardinality, Cardinality
<1> HIDE DEF before, after
<1>5. Cardinality(before) = 1 /\ Cardinality(after) = 1
  BY <1>1, FS_Singleton
<1> QED BY <1>1, <1>3, <1>4, <1>5
LEMMA CompleteConservesY ==
  ASSUME WideGrid, NEW a, DOMAIN mem[a] = 0 .. Size("facey") - 1, Complete(mem[a], "facey")
  PROVE  Y!Conserves(a)
<1> SUFFICES ASSUME NEW i \in DOMAIN mem[a], mem[a][i] # Zero
             PROVE  /\ mem[a][i] # Garbage
                    /\ Y!Cardinality(Y!TakenBefore(a, mem[a][i])) = Y!Cardinality(Y!TakenAfter(a, mem[a][i]))
  BY SameGridY DEF Y!Conserves
<1> DEFINE m == mem[a]
           before == BeforeY(m, m[i])
           after  == AfterY(m, m[i])
<1>1. m[i] # Garbage /\ (\E p : before = {p}) /\ (\E p : after = {p})
  <2>1. DOMAIN m = 0 .. Size("facey") - 1 /\ CompleteAs(WallsY, m, "facey") /\ i \in DOMAIN m /\ m[i] # Zero
    BY CompleteIs DEF WallsOf, FaceKinds
  <2> HIDE DEF m
  <2> QED BY <2>1, TakenOnceY
<1>2. ASSUME NEW c \in Places("cell")
      PROVE  /\ Y!CellFaceOM1(Y!At("cell", c), c[2], nx) = FaceYAt(c[1], c[2], nx)
             /\ Y!CellFaceOP1(Y!At("cell", c), c[2], nx) = FaceYAt(c[1], c[2] + 1, nx)
  <2>1. c[1] \in Int /\ c[2] \in Int /\ nx \in Int /\ At("cell", c) = CellAt(c[1], c[2], nx)
    BY DEF Places, LastX, LastY, StaggeredX, StaggeredY, At, WideGrid
  <2>2. /\ CellFaceOM1(CellAt(c[1], c[2], nx), c[2], nx) = FaceYAt(c[1], c[2], nx)
        /\ CellFaceOP1(CellAt(c[1], c[2], nx), c[2], nx) = FaceYAt(c[1], c[2] + 1, nx)
    BY <2>1, CellMaps
  <2>3. Y!At("cell", c) = CellAt(c[1], c[2], nx)
    BY <2>1, SameGridY
  <2> QED BY <2>2, <2>3 DEF Y!CellFaceOM1, Y!CellFaceOP1, CellFaceOM1, CellFaceOP1
<1>3. Y!TakenBefore(a, m[i]) = before /\ Y!TakenAfter(a, m[i]) = after
  BY <1>2, SameGridY DEF Y!TakenBefore, Y!TakenAfter, BeforeY, AfterY
<1>4. \A S : Y!Cardinality(S) = Cardinality(S)
  BY DEF Y!Cardinality, Cardinality
<1> HIDE DEF before, after
<1>5. Cardinality(before) = 1 /\ Cardinality(after) = 1
  BY <1>1, FS_Singleton
<1> QED BY <1>1, <1>3, <1>4, <1>5
-----------------------------------------------------------------------------
(* The nodes, the cells and the faces of their stencils. *)

\* The nodes of a set of places.
NodesOf(P) == {At("node", p) : p \in P}

\* The places on the seams: of a row, of a column, and the corners.
SidesAt(iy) == {<<0, iy>>, <<nx, iy>>}
EndsAt(ix)  == {<<ix, 0>>, <<ix, ny>>}
CornersAt   == {<<0, 0>>, <<nx, 0>>, <<0, ny>>, <<nx, ny>>}

\* The nodes on the boundary.
EdgeNodes == {p \in Places("node") : OnEdge(p)}

\* The stencils of the kernels along the seams: each for the nodes that are one.
SideStencils(S) ==
  /\ \A s \in S : \E iy \in Inner : s.at = <<0, iy>> /\ s.to = NodesOf(SidesAt(iy))
  /\ \A iy \in Inner : \E s \in S : s.at = <<0, iy>> /\ s.to = NodesOf(SidesAt(iy))
EndStencils(S) ==
  /\ \A s \in S : \E ix \in 1 .. nx - 1 : s.at = <<ix, 0>> /\ s.to = NodesOf(EndsAt(ix))
  /\ \A ix \in 1 .. nx - 1 : \E s \in S : s.at = <<ix, 0>> /\ s.to = NodesOf(EndsAt(ix))
CornerStencil(s) == s.at = <<0, 0>> /\ s.to = NodesOf(CornersAt)

LEMMA SeamNodes ==
  ASSUME WideGrid
  PROVE  /\ \A iy \in Inner : NodesOf(SidesAt(iy)) = {NodeAt(0, iy, nx), NodeAt(0, iy, nx) + nx}
         /\ \A ix \in 1 .. nx - 1 :
              NodesOf(EndsAt(ix)) = {NodeAt(ix, 0, nx), NodeAt(ix, 0, nx) + ny * (nx + 1)}
         /\ NodesOf(CornersAt) = CornerNodes
         /\ NodesOf(CornersAt \cup (UNION {EndsAt(ix) : ix \in 1 .. nx - 1})) = CornerNodes \cup Ends
<1>1. /\ nx \in Nat /\ nx > 1 /\ ny \in Nat /\ ny > 1
  BY DEF WideGrid
<1>2. \A x, y : At("node", <<x, y>>) = NodeAt(x, y, nx)
  BY DEF At, StaggeredX
<1>3. \A p, q : NodesOf({p, q}) = {At("node", p), At("node", q)}
  BY DEF NodesOf
<1>4. ASSUME NEW iy \in Inner
      PROVE  NodesOf(SidesAt(iy)) = {NodeAt(0, iy, nx), NodeAt(0, iy, nx) + nx}
  <2>1. NodeAt(nx, iy, nx) = NodeAt(0, iy, nx) + nx
    BY <1>1 DEF NodeAt, Inner
  <2>2. NodesOf(SidesAt(iy)) = {At("node", <<0, iy>>), At("node", <<nx, iy>>)}
    BY <1>3 DEF SidesAt
  <2> QED BY <1>2, <2>1, <2>2
<1>5. ASSUME NEW ix \in 1 .. nx - 1
      PROVE  NodesOf(EndsAt(ix)) = {NodeAt(ix, 0, nx), NodeAt(ix, 0, nx) + ny * (nx + 1)}
  <2>1. NodeAt(ix, ny, nx) = NodeAt(ix, 0, nx) + ny * (nx + 1)
    BY <1>1 DEF NodeAt
  <2>2. NodesOf(EndsAt(ix)) = {At("node", <<ix, 0>>), At("node", <<ix, ny>>)}
    BY <1>3 DEF EndsAt
  <2> QED BY <1>2, <2>1, <2>2
<1>6. NodesOf(CornersAt) = CornerNodes
  <2>1. /\ NodeAt(0, 0, nx) = 0 /\ NodeAt(nx, 0, nx) = nx /\ NodeAt(0, ny, nx) = ny * (nx + 1)
        /\ NodeAt(nx, ny, nx) = (nx + 1) * (ny + 1) - 1
    BY <1>1 DEF NodeAt
  <2>2. NodesOf(CornersAt) = {At("node", <<0, 0>>), At("node", <<nx, 0>>), At("node", <<0, ny>>),
                              At("node", <<nx, ny>>)}
    BY DEF NodesOf, CornersAt
  <2> QED BY <1>2, <2>1, <2>2 DEF CornerNodes
<1>7. NodesOf(CornersAt \cup (UNION {EndsAt(ix) : ix \in 1 .. nx - 1})) = CornerNodes \cup Ends
  <2> DEFINE E == UNION {EndsAt(ix) : ix \in 1 .. nx - 1}
  <2>1. NodesOf(CornersAt \cup E) = NodesOf(CornersAt) \cup NodesOf(E)
    BY DEF NodesOf
  <2>2. \A p : p \in E <=> \E ix \in 1 .. nx - 1 : p = <<ix, 0>> \/ p = <<ix, ny>>
    BY DEF EndsAt
  <2> HIDE DEF E
  <2>3. NodesOf(E) = Ends
    <3>1. \A n : n \in NodesOf(E) <=> \E ix \in 1 .. nx - 1 : n = NodeAt(ix, 0, nx) \/ n = NodeAt(ix, ny, nx)
      <4> TAKE n
      <4>1. n \in NodesOf(E) <=> \E p \in E : n = At("node", p)
        BY DEF NodesOf
      <4>2. (\E p \in E : n = At("node", p)) <=>
              \E ix \in 1 .. nx - 1 : n = At("node", <<ix, 0>>) \/ n = At("node", <<ix, ny>>)
        BY <2>2, Zenon
      <4>3. \A ix : At("node", <<ix, 0>>) = NodeAt(ix, 0, nx) /\ At("node", <<ix, ny>>) = NodeAt(ix, ny, nx)
        BY <1>2
      <4> HIDE DEF E
      <4> QED BY <4>1, <4>2, <4>3, Zenon
    <3>2. \A n : n \in Ends <=> \E ix \in 1 .. nx - 1 : n = NodeAt(ix, 0, nx) \/ n = NodeAt(ix, ny, nx)
      BY DEF Ends
    <3> QED BY <3>1, <3>2
  <2> QED BY <1>6, <2>1, <2>3 DEF E
<1> QED BY <1>4, <1>5, <1>6, <1>7

\* The cells and faces of a stencil in x: its dual cell lies over the columns x1 and x2 and
\* the rows y1 and y2, of which the second follows the first, around a seam perhaps.
OverX(s, x1, x2, y1, y2) ==
  /\ s.cells[1] = CellAt(x1, y1, nx) /\ s.cells[2] = CellAt(x2, y1, nx)
  /\ s.cells[3] = CellAt(x1, y2, nx) /\ s.cells[4] = CellAt(x2, y2, nx)
  /\ s.faces[1] = FaceXAt(x1, y1, nx) /\ s.faces[3] = FaceXAt(x2 + 1, y1, nx)
  /\ s.faces[4] = FaceXAt(x1, y2, nx) /\ s.faces[6] = FaceXAt(x2 + 1, y2, nx)

LEMMA SameMapsX ==
  /\ \A x, y, n : X!NodeAt(x, y, n) = NodeAt(x, y, n)
  /\ \A m, y, n : /\ X!NodeCellM1M1(m, y, n) = NodeCellM1M1(m, y, n)
                  /\ X!NodeCellP1M1(m, y, n) = NodeCellP1M1(m, y, n)
                  /\ X!NodeCellM1P1(m, y, n) = NodeCellM1P1(m, y, n)
                  /\ X!NodeCellP1P1(m, y, n) = NodeCellP1P1(m, y, n)
                  /\ X!NodeFaceXM1M1(m, y, n) = NodeFaceXM1M1(m, y, n)
                  /\ X!NodeFaceXM1P1(m, y, n) = NodeFaceXM1P1(m, y, n)
                  /\ X!NodeFaceXP1M1(m, y, n) = NodeFaceXP1M1(m, y, n)
                  /\ X!NodeFaceXP1P1(m, y, n) = NodeFaceXP1P1(m, y, n)
  BY DEF X!NodeAt, NodeAt, X!NodeCellM1M1, NodeCellM1M1, X!NodeCellP1M1, NodeCellP1M1,
         X!NodeCellM1P1, NodeCellM1P1, X!NodeCellP1P1, NodeCellP1P1,
         X!NodeFaceXM1M1, NodeFaceXM1M1, X!NodeFaceXM1P1, NodeFaceXM1P1,
         X!NodeFaceXP1M1, NodeFaceXP1M1, X!NodeFaceXP1P1, NodeFaceXP1P1

\* The cells around a node that is at the place (x2, y2) from above and from the right, at
\* (x1 + 1, y1 + 1) from below and from the left; and the faces beside them.
LEMMA AroundX ==
  ASSUME WideGrid, NEW x1 \in Int, NEW x2 \in Int, NEW y1 \in Int, NEW y2 \in Int
  PROVE  LET sw == NodeAt(x1 + 1, y1 + 1, nx)
             se == NodeAt(x2, y1 + 1, nx)
             nw == NodeAt(x1 + 1, y2, nx)
             ne == NodeAt(x2, y2, nx)
         IN \A at, to, m1, node, p1 :
              OverX(X!Stencil(at, to, m1, node, p1, X!CellsAround(sw, se, nw, ne, y1 + 1, y2),
                              X!FacesAround(sw, se, nw, ne, y1 + 1, y2)), x1, x2, y1, y2)
<1> DEFINE sw == NodeAt(x1 + 1, y1 + 1, nx)
           se == NodeAt(x2, y1 + 1, nx)
           nw == NodeAt(x1 + 1, y2, nx)
           ne == NodeAt(x2, y2, nx)
<1>1. nx \in Int /\ x1 + 1 \in Int /\ y1 + 1 \in Int /\ x1 + 1 - 1 = x1 /\ y1 + 1 - 1 = y1
  BY DEF WideGrid
<1>2. /\ NodeCellM1M1(sw, y1 + 1, nx) = CellAt(x1, y1, nx)
      /\ NodeCellP1M1(se, y1 + 1, nx) = CellAt(x2, y1, nx)
      /\ NodeCellM1P1(nw, y2, nx) = CellAt(x1, y2, nx)
      /\ NodeCellP1P1(ne, y2, nx) = CellAt(x2, y2, nx)
      /\ NodeFaceXM1M1(sw, y1 + 1, nx) = FaceXAt(x1, y1, nx)
      /\ NodeFaceXP1M1(se, y1 + 1, nx) = FaceXAt(x2 + 1, y1, nx)
      /\ NodeFaceXM1P1(nw, y2, nx) = FaceXAt(x1, y2, nx)
      /\ NodeFaceXP1P1(ne, y2, nx) = FaceXAt(x2 + 1, y2, nx)
  BY <1>1, NodeMaps
<1> HIDE DEF sw, se, nw, ne
<1>3. \A at, to, m1, node, p1, cells, faces :
        X!Stencil(at, to, m1, node, p1, cells, faces).cells = cells
        /\ X!Stencil(at, to, m1, node, p1, cells, faces).faces = faces
  BY DEF X!Stencil
<1>4. /\ X!CellsAround(sw, se, nw, ne, y1 + 1, y2)[1] = CellAt(x1, y1, nx)
      /\ X!CellsAround(sw, se, nw, ne, y1 + 1, y2)[2] = CellAt(x2, y1, nx)
      /\ X!CellsAround(sw, se, nw, ne, y1 + 1, y2)[3] = CellAt(x1, y2, nx)
      /\ X!CellsAround(sw, se, nw, ne, y1 + 1, y2)[4] = CellAt(x2, y2, nx)
  BY <1>2, SameMapsX DEF X!CellsAround
<1>5. /\ X!FacesAround(sw, se, nw, ne, y1 + 1, y2)[1] = FaceXAt(x1, y1, nx)
      /\ X!FacesAround(sw, se, nw, ne, y1 + 1, y2)[3] = FaceXAt(x2 + 1, y1, nx)
      /\ X!FacesAround(sw, se, nw, ne, y1 + 1, y2)[4] = FaceXAt(x1, y2, nx)
      /\ X!FacesAround(sw, se, nw, ne, y1 + 1, y2)[6] = FaceXAt(x2 + 1, y2, nx)
  BY <1>2, SameMapsX DEF X!FacesAround
<1> QED BY <1>3, <1>4, <1>5 DEF OverX, sw, se, nw, ne

\* The stencils of the sweep in x along the seams.
LEMMA StencilsX ==
  ASSUME WideGrid
  PROVE  /\ SideStencils(X!PeriodicSides) /\ EndStencils(X!PeriodicEnds)
         /\ CornerStencil(X!PeriodicCorner)
         /\ \A s \in X!PeriodicSides : \E iy \in Inner : OverX(s, nx - 1, 0, iy - 1, iy)
         /\ \A s \in X!PeriodicEnds : \E ix \in 1 .. nx - 1 : OverX(s, ix - 1, ix, ny - 1, 0)
         /\ OverX(X!PeriodicCorner, nx - 1, 0, ny - 1, 0)
<1>1. nx \in Int /\ ny \in Int /\ nx - 1 \in Int /\ ny - 1 \in Int
      /\ nx - 1 + 1 = nx /\ ny - 1 + 1 = ny
  BY DEF WideGrid
<1>2. X!CornerNodes = CornerNodes /\ X!Inner = Inner
  BY SameGridX DEF X!CornerNodes, CornerNodes
<1>3. \A at, to, m1, node, p1, cells, faces :
        LET s == X!Stencil(at, to, m1, node, p1, cells, faces)
        IN s.at = at /\ s.to = to /\ s.cells = cells /\ s.faces = faces
  BY DEF X!Stencil
<1>4. /\ SideStencils(X!PeriodicSides)
      /\ \A s \in X!PeriodicSides : \E iy \in Inner : OverX(s, nx - 1, 0, iy - 1, iy)
  <2> DEFINE n(iy) == X!NodeAt(0, iy, nx)
             sym(iy) == n(iy) + nx
             st(iy) == X!Stencil(<<0, iy>>, {n(iy), sym(iy)}, X!NodeNodeM1O(sym(iy), iy, nx), n(iy),
                                 X!NodeNodeP1O(n(iy), iy, nx),
                                 X!CellsAround(sym(iy), n(iy), sym(iy), n(iy), iy, iy),
                                 X!FacesAround(sym(iy), n(iy), sym(iy), n(iy), iy, iy))
  <2>1. X!PeriodicSides = {st(iy) : iy \in Inner}
    BY <1>2 DEF X!PeriodicSides
  <2>2. ASSUME NEW iy \in Inner
        PROVE  /\ st(iy).at = <<0, iy>> /\ st(iy).to = NodesOf(SidesAt(iy))
               /\ OverX(st(iy), nx - 1, 0, iy - 1, iy)
    <3>1. n(iy) = NodeAt(0, iy, nx)
      BY SameMapsX
    <3>2. iy \in Int /\ iy - 1 \in Int /\ iy - 1 + 1 = iy
      BY DEF Inner, WideGrid
    <3>3. sym(iy) = NodeAt(nx, iy, nx)
      BY <1>1, <3>1, <3>2 DEF NodeAt
    <3> HIDE DEF n, sym
    <3>4. OverX(st(iy), nx - 1, 0, iy - 1, iy)
      BY <1>1, <3>1, <3>2, <3>3, AroundX, SMTT(40)
    <3>5. {n(iy), sym(iy)} = NodesOf(SidesAt(iy))
      BY <3>1, SeamNodes DEF sym
    <3>6. st(iy).at = <<0, iy>> /\ st(iy).to = {n(iy), sym(iy)}
      BY <1>3
    <3> HIDE DEF st
    <3> QED BY <3>4, <3>5, <3>6
  <2> HIDE DEF st
  <2> QED BY <2>1, <2>2 DEF SideStencils
<1>5. /\ EndStencils(X!PeriodicEnds)
      /\ \A s \in X!PeriodicEnds : \E ix \in 1 .. nx - 1 : OverX(s, ix - 1, ix, ny - 1, 0)
  <2> DEFINE n(ix) == X!NodeAt(ix, 0, nx)
             sym(ix) == n(ix) + ny * (nx + 1)
             st(ix) == X!Stencil(<<ix, 0>>, {n(ix), sym(ix)}, X!NodeNodeM1O(n(ix), 0, nx), n(ix),
                                 X!NodeNodeP1O(n(ix), 0, nx),
                                 X!CellsAround(sym(ix), sym(ix), n(ix), n(ix), ny, 0),
                                 X!FacesAround(sym(ix), sym(ix), n(ix), n(ix), ny, 0))
  <2>1. X!PeriodicEnds = {st(ix) : ix \in 1 .. nx - 1}
    BY DEF X!PeriodicEnds
  <2>2. ASSUME NEW ix \in 1 .. nx - 1
        PROVE  /\ st(ix).at = <<ix, 0>> /\ st(ix).to = NodesOf(EndsAt(ix))
               /\ OverX(st(ix), ix - 1, ix, ny - 1, 0)
    <3>1. n(ix) = NodeAt(ix, 0, nx)
      BY SameMapsX
    <3>2. ix \in Int /\ ix - 1 \in Int /\ ix - 1 + 1 = ix
      BY DEF WideGrid
    <3>3. sym(ix) = NodeAt(ix, ny, nx)
      BY <1>1, <3>1, <3>2 DEF NodeAt
    <3> HIDE DEF n, sym
    <3>4. OverX(st(ix), ix - 1, ix, ny - 1, 0)
      BY <1>1, <3>1, <3>2, <3>3, AroundX, SMTT(40)
    <3>5. {n(ix), sym(ix)} = NodesOf(EndsAt(ix))
      BY <3>1, SeamNodes DEF sym
    <3>6. st(ix).at = <<ix, 0>> /\ st(ix).to = {n(ix), sym(ix)}
      BY <1>3
    <3> HIDE DEF st
    <3> QED BY <3>4, <3>5, <3>6
  <2> HIDE DEF st
  <2> QED BY <2>1, <2>2 DEF EndStencils
<1>6. CornerStencil(X!PeriodicCorner)
  BY <1>2, <1>3, SeamNodes DEF X!PeriodicCorner, CornerStencil
<1>7. OverX(X!PeriodicCorner, nx - 1, 0, ny - 1, 0)
  <2>1. /\ X!PeriodicCorner.cells = <<nx * ny - 1, (ny - 1) * nx, nx - 1, 0>>
        /\ X!PeriodicCorner.faces = <<ny * (nx + 1) - 2, (ny - 1) * (nx + 1), (ny - 1) * (nx + 1) + 1,
                                      nx - 1, 0, 1>>
    BY <1>3 DEF X!PeriodicCorner
  <2>2. /\ CellAt(nx - 1, ny - 1, nx) = nx * ny - 1 /\ CellAt(0, ny - 1, nx) = (ny - 1) * nx
        /\ CellAt(nx - 1, 0, nx) = nx - 1 /\ CellAt(0, 0, nx) = 0
        /\ FaceXAt(nx - 1, ny - 1, nx) = ny * (nx + 1) - 2
        /\ FaceXAt(0 + 1, ny - 1, nx) = (ny - 1) * (nx + 1) + 1
        /\ FaceXAt(nx - 1, 0, nx) = nx - 1 /\ FaceXAt(0 + 1, 0, nx) = 1
    BY <1>1 DEF CellAt, FaceXAt
  <2> QED BY <2>1, <2>2 DEF OverX
<1> QED BY <1>4, <1>5, <1>6, <1>7

\* The same of the sweep in y, whose fluxes cross the sides below and above.
OverY(s, x1, x2, y1, y2) ==
  /\ s.cells[1] = CellAt(x1, y1, nx) /\ s.cells[2] = CellAt(x2, y1, nx)
  /\ s.cells[3] = CellAt(x1, y2, nx) /\ s.cells[4] = CellAt(x2, y2, nx)
  /\ s.faces[1] = FaceYAt(x1, y1, nx) /\ s.faces[2] = FaceYAt(x2, y1, nx)
  /\ s.faces[5] = FaceYAt(x1, y2 + 1, nx) /\ s.faces[6] = FaceYAt(x2, y2 + 1, nx)

LEMMA SameMapsY ==
  /\ \A x, y, n : Y!NodeAt(x, y, n) = NodeAt(x, y, n)
  /\ \A m, y, n : /\ Y!NodeCellM1M1(m, y, n) = NodeCellM1M1(m, y, n)
                  /\ Y!NodeCellP1M1(m, y, n) = NodeCellP1M1(m, y, n)
                  /\ Y!NodeCellM1P1(m, y, n) = NodeCellM1P1(m, y, n)
                  /\ Y!NodeCellP1P1(m, y, n) = NodeCellP1P1(m, y, n)
                  /\ Y!NodeFaceYM1M1(m, y, n) = NodeFaceYM1M1(m, y, n)
                  /\ Y!NodeFaceYM1P1(m, y, n) = NodeFaceYM1P1(m, y, n)
                  /\ Y!NodeFaceYP1M1(m, y, n) = NodeFaceYP1M1(m, y, n)
                  /\ Y!NodeFaceYP1P1(m, y, n) = NodeFaceYP1P1(m, y, n)
  BY DEF Y!NodeAt, NodeAt, Y!NodeCellM1M1, NodeCellM1M1, Y!NodeCellP1M1, NodeCellP1M1,
         Y!NodeCellM1P1, NodeCellM1P1, Y!NodeCellP1P1, NodeCellP1P1,
         Y!NodeFaceYM1M1, NodeFaceYM1M1, Y!NodeFaceYM1P1, NodeFaceYM1P1,
         Y!NodeFaceYP1M1, NodeFaceYP1M1, Y!NodeFaceYP1P1, NodeFaceYP1P1

\* The cells around a node that is at the column x2 from the right, at x1 + 1 from the left.
LEMMA AroundY ==
  ASSUME WideGrid, NEW x1 \in Int, NEW x2 \in Int, NEW y1 \in Int, NEW y2 \in Int
  PROVE  LET sw == NodeAt(x1 + 1, y1 + 1, nx)
             se == NodeAt(x2, y1 + 1, nx)
             nw == NodeAt(x1 + 1, y2, nx)
             ne == NodeAt(x2, y2, nx)
         IN /\ y1 + 1 = y2 =>
                 \A at, to, m1, node, p1 :
                   OverY(Y!Stencil(at, to, m1, node, p1, Y!CellsAround(sw, se, nw, ne, y1 + 1, y2),
                                   Y!FacesAcross(nw, ne, y2)), x1, x2, y1, y2)
            /\ x1 + 1 = x2 /\ y1 + 1 = ny /\ y2 = 0 =>
                 \A at, to, m1, node, p1 :
                   OverY(Y!Stencil(at, to, m1, node, p1, Y!CellsAround(sw, se, nw, ne, y1 + 1, y2),
                                   Y!FacesBetween(se, ne)), x1, x2, y1, y2)
<1> DEFINE sw == NodeAt(x1 + 1, y1 + 1, nx)
           se == NodeAt(x2, y1 + 1, nx)
           nw == NodeAt(x1 + 1, y2, nx)
           ne == NodeAt(x2, y2, nx)
<1>1. nx \in Int /\ x1 + 1 \in Int /\ y1 + 1 \in Int /\ x1 + 1 - 1 = x1 /\ y1 + 1 - 1 = y1
  BY DEF WideGrid
<1>2. /\ NodeCellM1M1(sw, y1 + 1, nx) = CellAt(x1, y1, nx)
      /\ NodeCellP1M1(se, y1 + 1, nx) = CellAt(x2, y1, nx)
      /\ NodeCellM1P1(nw, y2, nx) = CellAt(x1, y2, nx)
      /\ NodeCellP1P1(ne, y2, nx) = CellAt(x2, y2, nx)
      /\ NodeFaceYM1M1(sw, y1 + 1, nx) = FaceYAt(x1, y1, nx)
      /\ NodeFaceYP1M1(se, y1 + 1, nx) = FaceYAt(x2, y1, nx)
      /\ NodeFaceYM1P1(nw, y2, nx) = FaceYAt(x1, y2 + 1, nx)
      /\ NodeFaceYP1P1(ne, y2, nx) = FaceYAt(x2, y2 + 1, nx)
  BY <1>1, NodeMaps
<1>3. \A at, to, m1, node, p1, cells, faces :
        Y!Stencil(at, to, m1, node, p1, cells, faces).cells = cells
        /\ Y!Stencil(at, to, m1, node, p1, cells, faces).faces = faces
  BY DEF Y!Stencil
<1>4. y1 + 1 = y2 => sw = nw /\ se = ne
  OBVIOUS
<1>5. x1 + 1 = x2 => sw = se /\ nw = ne
  OBVIOUS
<1> HIDE DEF sw, se, nw, ne
<1>6. /\ Y!CellsAround(sw, se, nw, ne, y1 + 1, y2)[1] = CellAt(x1, y1, nx)
      /\ Y!CellsAround(sw, se, nw, ne, y1 + 1, y2)[2] = CellAt(x2, y1, nx)
      /\ Y!CellsAround(sw, se, nw, ne, y1 + 1, y2)[3] = CellAt(x1, y2, nx)
      /\ Y!CellsAround(sw, se, nw, ne, y1 + 1, y2)[4] = CellAt(x2, y2, nx)
  BY <1>2, SameMapsY DEF Y!CellsAround
<1>7. ASSUME y1 + 1 = y2
      PROVE  /\ Y!FacesAcross(nw, ne, y2)[1] = FaceYAt(x1, y1, nx)
             /\ Y!FacesAcross(nw, ne, y2)[2] = FaceYAt(x2, y1, nx)
             /\ Y!FacesAcross(nw, ne, y2)[5] = FaceYAt(x1, y2 + 1, nx)
             /\ Y!FacesAcross(nw, ne, y2)[6] = FaceYAt(x2, y2 + 1, nx)
  BY <1>2, <1>4, <1>7, SameMapsY DEF Y!FacesAcross
<1>8. ASSUME x1 + 1 = x2, y1 + 1 = ny, y2 = 0
      PROVE  /\ Y!FacesBetween(se, ne)[1] = FaceYAt(x1, y1, nx)
             /\ Y!FacesBetween(se, ne)[2] = FaceYAt(x2, y1, nx)
             /\ Y!FacesBetween(se, ne)[5] = FaceYAt(x1, y2 + 1, nx)
             /\ Y!FacesBetween(se, ne)[6] = FaceYAt(x2, y2 + 1, nx)
  BY <1>2, <1>5, <1>8, SameMapsY DEF Y!FacesBetween
<1> QED BY <1>3, <1>6, <1>7, <1>8 DEF OverY, sw, se, nw, ne

\* The stencils of the sweep in y along the seams.
LEMMA StencilsY ==
  ASSUME WideGrid
  PROVE  /\ SideStencils(Y!PeriodicSides) /\ EndStencils(Y!PeriodicEnds)
         /\ CornerStencil(Y!PeriodicCorner)
         /\ \A s \in Y!PeriodicSides : \E iy \in Inner : OverY(s, nx - 1, 0, iy - 1, iy)
         /\ \A s \in Y!PeriodicEnds : \E ix \in 1 .. nx - 1 : OverY(s, ix - 1, ix, ny - 1, 0)
         /\ OverY(Y!PeriodicCorner, nx - 1, 0, ny - 1, 0)
<1>1. nx \in Int /\ ny \in Int /\ nx - 1 \in Int /\ ny - 1 \in Int
      /\ nx - 1 + 1 = nx /\ ny - 1 + 1 = ny
  BY DEF WideGrid
<1>2. Y!CornerNodes = CornerNodes /\ Y!Inner = Inner
  BY SameGridY DEF Y!CornerNodes, CornerNodes
<1>3. \A at, to, m1, node, p1, cells, faces :
        LET s == Y!Stencil(at, to, m1, node, p1, cells, faces)
        IN s.at = at /\ s.to = to /\ s.cells = cells /\ s.faces = faces
  BY DEF Y!Stencil
<1>4. /\ SideStencils(Y!PeriodicSides)
      /\ \A s \in Y!PeriodicSides : \E iy \in Inner : OverY(s, nx - 1, 0, iy - 1, iy)
  <2> DEFINE n(iy) == Y!NodeAt(0, iy, nx)
             sym(iy) == n(iy) + nx
             st(iy) == Y!Stencil(<<0, iy>>, {n(iy), sym(iy)}, Y!NodeNodeOM1(n(iy), iy, nx), n(iy),
                                 Y!NodeNodeOP1(n(iy), iy, nx),
                                 Y!CellsAround(sym(iy), n(iy), sym(iy), n(iy), iy, iy),
                                 Y!FacesAcross(sym(iy), n(iy), iy))
  <2>1. Y!PeriodicSides = {st(iy) : iy \in Inner}
    BY <1>2 DEF Y!PeriodicSides
  <2>2. ASSUME NEW iy \in Inner
        PROVE  /\ st(iy).at = <<0, iy>> /\ st(iy).to = NodesOf(SidesAt(iy))
               /\ OverY(st(iy), nx - 1, 0, iy - 1, iy)
    <3>1. n(iy) = NodeAt(0, iy, nx)
      BY SameMapsY
    <3>2. iy \in Int /\ iy - 1 \in Int /\ iy - 1 + 1 = iy
      BY DEF Inner, WideGrid
    <3>3. sym(iy) = NodeAt(nx, iy, nx)
      BY <1>1, <3>1, <3>2 DEF NodeAt
    <3> HIDE DEF n, sym
    <3>4. OverY(st(iy), nx - 1, 0, iy - 1, iy)
      BY <1>1, <3>1, <3>2, <3>3, AroundY, SMTT(40)
    <3>5. {n(iy), sym(iy)} = NodesOf(SidesAt(iy))
      BY <3>1, SeamNodes DEF sym
    <3>6. st(iy).at = <<0, iy>> /\ st(iy).to = {n(iy), sym(iy)}
      BY <1>3
    <3> HIDE DEF st
    <3> QED BY <3>4, <3>5, <3>6
  <2> HIDE DEF st
  <2> QED BY <2>1, <2>2 DEF SideStencils
<1>5. /\ EndStencils(Y!PeriodicEnds)
      /\ \A s \in Y!PeriodicEnds : \E ix \in 1 .. nx - 1 : OverY(s, ix - 1, ix, ny - 1, 0)
  <2> DEFINE n(ix) == Y!NodeAt(ix, 0, nx)
             sym(ix) == n(ix) + ny * (nx + 1)
             st(ix) == Y!Stencil(<<ix, 0>>, {n(ix), sym(ix)}, Y!NodeNodeOM1(sym(ix), ny, nx), n(ix),
                                 Y!NodeNodeOP1(n(ix), 0, nx),
                                 Y!CellsAround(sym(ix), sym(ix), n(ix), n(ix), ny, 0),
                                 Y!FacesBetween(sym(ix), n(ix)))
  <2>1. Y!PeriodicEnds = {st(ix) : ix \in 1 .. nx - 1}
    BY DEF Y!PeriodicEnds
  <2>2. ASSUME NEW ix \in 1 .. nx - 1
        PROVE  /\ st(ix).at = <<ix, 0>> /\ st(ix).to = NodesOf(EndsAt(ix))
               /\ OverY(st(ix), ix - 1, ix, ny - 1, 0)
    <3>1. n(ix) = NodeAt(ix, 0, nx)
      BY SameMapsY
    <3>2. ix \in Int /\ ix - 1 \in Int /\ ix - 1 + 1 = ix
      BY DEF WideGrid
    <3>3. sym(ix) = NodeAt(ix, ny, nx)
      BY <1>1, <3>1, <3>2 DEF NodeAt
    <3> HIDE DEF n, sym
    <3>4. OverY(st(ix), ix - 1, ix, ny - 1, 0)
      BY <1>1, <3>1, <3>2, <3>3, AroundY, SMTT(40)
    <3>5. {n(ix), sym(ix)} = NodesOf(EndsAt(ix))
      BY <3>1, SeamNodes DEF sym
    <3>6. st(ix).at = <<ix, 0>> /\ st(ix).to = {n(ix), sym(ix)}
      BY <1>3
    <3> HIDE DEF st
    <3> QED BY <3>4, <3>5, <3>6
  <2> HIDE DEF st
  <2> QED BY <2>1, <2>2 DEF EndStencils
<1>6. CornerStencil(Y!PeriodicCorner)
  BY <1>2, <1>3, SeamNodes DEF Y!PeriodicCorner, CornerStencil
<1>7. OverY(Y!PeriodicCorner, nx - 1, 0, ny - 1, 0)
  <2>1. /\ Y!PeriodicCorner.cells = <<nx * ny - 1, (ny - 1) * nx, nx - 1, 0>>
        /\ Y!PeriodicCorner.faces = <<ny * nx - 1, (ny - 1) * nx, nx - 1, 0, 2 * nx - 1, nx>>
    BY <1>3 DEF Y!PeriodicCorner
  <2>2. /\ CellAt(nx - 1, ny - 1, nx) = nx * ny - 1 /\ CellAt(0, ny - 1, nx) = (ny - 1) * nx
        /\ CellAt(nx - 1, 0, nx) = nx - 1 /\ CellAt(0, 0, nx) = 0
        /\ FaceYAt(nx - 1, ny - 1, nx) = ny * nx - 1 /\ FaceYAt(0, ny - 1, nx) = (ny - 1) * nx
        /\ FaceYAt(nx - 1, 0 + 1, nx) = 2 * nx - 1 /\ FaceYAt(0, 0 + 1, nx) = nx
    BY <1>1 DEF CellAt, FaceYAt
  <2> QED BY <2>1, <2>2 DEF OverY
<1> QED BY <1>4, <1>5, <1>6, <1>7

-----------------------------------------------------------------------------
\* The column x2 follows x1: it is the next, or both are beside the seam; rows likewise.
FollowsX(x1, x2) == x2 = x1 + 1 \/ (~WallsX /\ x1 = nx - 1 /\ x2 = 0)
FollowsY(y1, y2) == y2 = y1 + 1 \/ (~WallsY /\ y1 = ny - 1 /\ y2 = 0)

\* A stencil whose dual cell lies over two columns, or two rows, of which one follows the
\* other.
DualX(s) == \E x1, x2 \in 0 .. nx - 1, y1, y2 \in 0 .. ny - 1 : FollowsX(x1, x2) /\ OverX(s, x1, x2, y1, y2)
DualY(s) == \E x1, x2 \in 0 .. nx - 1, y1, y2 \in 0 .. ny - 1 : FollowsY(y1, y2) /\ OverY(s, x1, x2, y1, y2)

\* The faces that are one across a seam hold one flux.
FacesAgree(m, k) == \A p \in Places(k) : m[At(k, p)] = m[At(k, Fold(k, p))]

LEMMA CompleteAgrees ==
  ASSUME WideGrid, NEW k \in FaceKinds, NEW m, Complete(m, k)
  PROVE  FacesAgree(m, k)
<1> SUFFICES ASSUME NEW p \in Places(k) PROVE m[At(k, p)] = m[At(k, Fold(k, p))]
  BY DEF FacesAgree
<1>1. CASE WallsOf(k) /\ AtEnd(k, p)
  BY <1>1, FaceFold
<1>2. CASE ~(WallsOf(k) /\ AtEnd(k, p))
  BY <1>2 DEF Complete, FaceFlux
<1> QED BY <1>1, <1>2

\* What a cell gains in x is what comes through its first face less what leaves by the last.
LEMMA CellNetX ==
  ASSUME WideGrid, NEW x \in 0 .. nx - 1, NEW y \in 0 .. ny - 1, NEW w
  PROVE  X!CellNet(CellAt(x, y, nx), w)
           = X!Is(FaceXAt(x, y, nx), w) - X!Is(FaceXAt(x + 1, y, nx), w)
<1>1. nx \in Nat \ {0} /\ nx \in Int /\ x \in Int /\ y \in Nat /\ y \in Int
  BY DEF WideGrid
<1>2. CellAt(x, y, nx) \div nx = y
  BY <1>1, RowMajorInverse DEF CellAt
<1>3. (nx + 1) * y = nx * y + y /\ nx * y \in Int
  BY <1>1
<1>4. /\ X!CellFaceM1O(CellAt(x, y, nx), y, nx) = FaceXAt(x, y, nx)
      /\ X!CellFaceP1O(CellAt(x, y, nx), y, nx) = FaceXAt(x + 1, y, nx)
  BY <1>1, <1>3 DEF X!CellFaceM1O, X!CellFaceP1O, CellAt, FaceXAt
<1> QED BY <1>2, <1>4 DEF X!CellNet

LEMMA CellNetY ==
  ASSUME WideGrid, NEW x \in 0 .. nx - 1, NEW y \in 0 .. ny - 1, NEW w
  PROVE  Y!CellNet(CellAt(x, y, nx), w)
           = Y!Is(FaceYAt(x, y, nx), w) - Y!Is(FaceYAt(x, y + 1, nx), w)
<1>1. nx \in Int /\ x \in Int /\ y \in Int
  BY DEF WideGrid
<1>2. nx * (y + 1) = nx * y + nx /\ nx * y \in Int
  BY <1>1
<1>3. \A r : /\ Y!CellFaceOM1(CellAt(x, y, nx), r, nx) = FaceYAt(x, y, nx)
             /\ Y!CellFaceOP1(CellAt(x, y, nx), r, nx) = FaceYAt(x, y + 1, nx)
  BY <1>1, <1>2 DEF Y!CellFaceOM1, Y!CellFaceOP1, CellAt, FaceYAt
<1> QED BY <1>3 DEF Y!CellNet

\* What the two cells side by side gain is what comes through the faces at both ends: the
\* faces between them are one, or have the same flux.
LEMMA BalancedX ==
  ASSUME WideGrid, FacesAgree(mem["mass_flux_x"], "facex"), NEW S, \A s \in S : DualX(s)
  PROVE  X!Balanced(S)
<1> SUFFICES ASSUME NEW s \in S, NEW w PROVE X!Net(s, w) = X!DualNet(s, w)
  BY DEF X!Balanced
<1> DEFINE F(x, y) == X!Is(FaceXAt(x, y, nx), w)
           net(x, y) == X!CellNet(CellAt(x, y, nx), w)
<1>1. PICK x1 \in 0 .. nx - 1, x2 \in 0 .. nx - 1, y1 \in 0 .. ny - 1, y2 \in 0 .. ny - 1 :
        FollowsX(x1, x2) /\ OverX(s, x1, x2, y1, y2)
  BY DEF DualX
<1>2. ASSUME NEW x \in 0 .. nx - 1, NEW y \in 0 .. ny - 1 PROVE net(x, y) = F(x, y) - F(x + 1, y)
  BY CellNetX
<1>3. ASSUME NEW y \in 0 .. ny - 1 PROVE F(x1 + 1, y) = F(x2, y)
  <2>1. CASE x2 = x1 + 1
    BY <2>1
  <2>2. CASE x2 # x1 + 1
    <3> DEFINE k == "facex"
               p == <<nx, y>>
               q == <<0, y>>
    <3>1. ~WallsX /\ x1 + 1 = nx /\ x2 = 0
      BY <1>1, <2>2 DEF FollowsX, WideGrid
    <3>2. k \in FaceKinds
      BY DEF FaceKinds
    <3>3. p \in Places(k) /\ p[1] = nx /\ p[2] = y
      BY DEF Places, LastX, LastY, StaggeredX, StaggeredY, WideGrid
    <3>4. Fold(k, p) = q
      BY <3>1, <3>2, <3>3, FaceFold
    <3>5. mem["mass_flux_x"][At(k, p)] = mem["mass_flux_x"][At(k, q)]
      BY <3>3, <3>4 DEF FacesAgree
    <3>6. At(k, p) = FaceXAt(nx, y, nx) /\ At(k, q) = FaceXAt(0, y, nx)
      BY DEF At, StaggeredX, NodeAt, FaceXAt
    <3> QED BY <3>1, <3>5, <3>6 DEF X!Is
  <2> QED BY <2>1, <2>2
<1>4. \A x, y : F(x, y) \in Int
  BY DEF X!Is
<1>5. X!Net(s, w) = net(x1, y1) + net(x2, y1) + net(x1, y2) + net(x2, y2)
  BY <1>1 DEF X!Net, OverX
<1>6. X!DualNet(s, w) = F(x1, y1) + F(x1, y2) - F(x2 + 1, y1) - F(x2 + 1, y2)
  BY <1>1 DEF X!DualNet, OverX
<1> HIDE DEF F, net
<1>7. /\ F(x1 + 1, y1) = F(x2, y1) /\ F(x1 + 1, y2) = F(x2, y2)
      /\ net(x1, y1) = F(x1, y1) - F(x1 + 1, y1) /\ net(x2, y1) = F(x2, y1) - F(x2 + 1, y1)
      /\ net(x1, y2) = F(x1, y2) - F(x1 + 1, y2) /\ net(x2, y2) = F(x2, y2) - F(x2 + 1, y2)
  BY <1>2, <1>3
<1> QED BY <1>4, <1>5, <1>6, <1>7

LEMMA BalancedY ==
  ASSUME WideGrid, FacesAgree(mem["mass_flux_y"], "facey"), NEW S, \A s \in S : DualY(s)
  PROVE  Y!Balanced(S)
<1> SUFFICES ASSUME NEW s \in S, NEW w PROVE Y!Net(s, w) = Y!DualNet(s, w)
  BY DEF Y!Balanced
<1> DEFINE F(x, y) == Y!Is(FaceYAt(x, y, nx), w)
           net(x, y) == Y!CellNet(CellAt(x, y, nx), w)
<1>1. PICK x1 \in 0 .. nx - 1, x2 \in 0 .. nx - 1, y1 \in 0 .. ny - 1, y2 \in 0 .. ny - 1 :
        FollowsY(y1, y2) /\ OverY(s, x1, x2, y1, y2)
  BY DEF DualY
<1>2. ASSUME NEW x \in 0 .. nx - 1, NEW y \in 0 .. ny - 1 PROVE net(x, y) = F(x, y) - F(x, y + 1)
  BY CellNetY
<1>3. ASSUME NEW x \in 0 .. nx - 1 PROVE F(x, y1 + 1) = F(x, y2)
  <2>1. CASE y2 = y1 + 1
    BY <2>1
  <2>2. CASE y2 # y1 + 1
    <3> DEFINE k == "facey"
               p == <<x, ny>>
               q == <<x, 0>>
    <3>1. ~WallsY /\ y1 + 1 = ny /\ y2 = 0
      BY <1>1, <2>2 DEF FollowsY, WideGrid
    <3>2. k \in FaceKinds
      BY DEF FaceKinds
    <3>3. p \in Places(k) /\ p[1] = x /\ p[2] = ny
      BY DEF Places, LastX, LastY, StaggeredX, StaggeredY, WideGrid
    <3>4. Fold(k, p) = q
      BY <3>1, <3>2, <3>3, FaceFold
    <3>5. mem["mass_flux_y"][At(k, p)] = mem["mass_flux_y"][At(k, q)]
      BY <3>3, <3>4 DEF FacesAgree
    <3>6. At(k, p) = FaceYAt(x, ny, nx) /\ At(k, q) = FaceYAt(x, 0, nx)
      BY DEF At, StaggeredX, CellAt, FaceYAt
    <3> QED BY <3>1, <3>5, <3>6 DEF Y!Is
  <2> QED BY <2>1, <2>2
<1>4. \A x, y : F(x, y) \in Int
  BY DEF Y!Is
<1>5. Y!Net(s, w) = net(x1, y1) + net(x2, y1) + net(x1, y2) + net(x2, y2)
  BY <1>1 DEF Y!Net, OverY
<1>6. Y!DualNet(s, w) = F(x1, y1) + F(x2, y1) - F(x1, y2 + 1) - F(x2, y2 + 1)
  BY <1>1 DEF Y!DualNet, OverY
<1> HIDE DEF F, net
<1>7. /\ F(x1, y1 + 1) = F(x1, y2) /\ F(x2, y1 + 1) = F(x2, y2)
      /\ net(x1, y1) = F(x1, y1) - F(x1, y1 + 1) /\ net(x2, y1) = F(x2, y1) - F(x2, y1 + 1)
      /\ net(x1, y2) = F(x1, y2) - F(x1, y2 + 1) /\ net(x2, y2) = F(x2, y2) - F(x2, y2 + 1)
  BY <1>2, <1>3
<1> QED BY <1>4, <1>5, <1>6, <1>7

\* The stencils of the nodes inside, and of those along the seams or along the walls that the
\* sweep follows, have such dual cells.
LEMMA DualsX ==
  ASSUME WideGrid
  PROVE  /\ \A iy \in Inner : \A s \in X!InnerStencils(iy) : DualX(s)
         /\ \A a : ~WallsX \/ a = "out_u" => \A s \in X!BoundaryStencils(a) : DualX(s)
<1>1. /\ nx \in Int /\ ny \in Int /\ nx > 1 /\ ny > 1 /\ nx - 1 \in Int /\ ny - 1 \in Int
      /\ \A i \in Int : i - 1 \in Int /\ i - 1 + 1 = i
  BY DEF WideGrid
<1>2. \A x, y, n : X!NodeAt(x, y, n) = NodeAt(x, y, n)
  BY SameMapsX
<1>3. \A at, to, m1, node, p1, cells, faces :
        /\ X!Stencil(at, to, m1, node, p1, cells, faces).cells = cells
        /\ X!Stencil(at, to, m1, node, p1, cells, faces).faces = faces
  BY DEF X!Stencil
<1>4. ASSUME NEW iy \in Inner, NEW s \in X!InnerStencils(iy) PROVE DualX(s)
  <2> DEFINE n(ix) == X!NodeAt(ix, iy, nx)
             st(ix) == X!Stencil(<<ix, iy>>, {n(ix)}, X!NodeNodeM1O(n(ix), iy, nx), n(ix),
                                 X!NodeNodeP1O(n(ix), iy, nx),
                                 X!CellsAround(n(ix), n(ix), n(ix), n(ix), iy, iy),
                                 X!FacesAround(n(ix), n(ix), n(ix), n(ix), iy, iy))
  <2>1. PICK ix \in 1 .. nx - 1 : s = st(ix)
    BY DEF X!InnerStencils
  <2>2. /\ ix \in Int /\ iy \in Int /\ ix - 1 \in Int /\ iy - 1 \in Int
        /\ ix - 1 + 1 = ix /\ iy - 1 + 1 = iy /\ n(ix) = NodeAt(ix, iy, nx)
    BY <1>1, <1>2 DEF Inner
  <2>3. OverX(s, ix - 1, ix, iy - 1, iy)
    <3> HIDE DEF n
    <3>1. OverX(st(ix), ix - 1, ix, iy - 1, iy)
      BY <2>2, AroundX
    <3> QED BY <2>1, <3>1
  <2>4. /\ ix - 1 \in 0 .. nx - 1 /\ ix \in 0 .. nx - 1 /\ iy - 1 \in 0 .. ny - 1 /\ iy \in 0 .. ny - 1
        /\ FollowsX(ix - 1, ix)
    BY <1>1, <2>2 DEF Inner, FollowsX
  <2> QED BY <2>3, <2>4 DEF DualX
<1>5. ASSUME ~WallsX, NEW s \in X!PeriodicSides \cup X!PeriodicEnds \cup {X!PeriodicCorner} PROVE DualX(s)
  <2>1. FollowsX(nx - 1, 0) /\ nx - 1 \in 0 .. nx - 1 /\ 0 \in 0 .. nx - 1 /\ ny - 1 \in 0 .. ny - 1
        /\ 0 \in 0 .. ny - 1
    BY <1>1, <1>5 DEF FollowsX
  <2>2. CASE s \in X!PeriodicSides
    <3>1. PICK iy \in Inner : OverX(s, nx - 1, 0, iy - 1, iy)
      BY <2>2, StencilsX
    <3>2. iy - 1 \in 0 .. ny - 1 /\ iy \in 0 .. ny - 1
      BY <1>1 DEF Inner
    <3> QED BY <2>1, <3>1, <3>2 DEF DualX
  <2>3. CASE s \in X!PeriodicEnds
    <3>1. PICK ix \in 1 .. nx - 1 : OverX(s, ix - 1, ix, ny - 1, 0)
      BY <2>3, StencilsX
    <3>2. ix - 1 \in 0 .. nx - 1 /\ ix \in 0 .. nx - 1 /\ FollowsX(ix - 1, ix)
      BY <1>1 DEF FollowsX
    <3> QED BY <2>1, <3>1, <3>2 DEF DualX
  <2>4. CASE s = X!PeriodicCorner
    BY <2>1, <2>4, StencilsX DEF DualX
  <2> QED BY <2>2, <2>3, <2>4
<1>6. ASSUME NEW s \in X!ProjectNodalIntensiveVariableOrder2UxXWallBoundary PROVE DualX(s)
  <2> DEFINE n(ix, y) == X!NodeAt(ix, y, nx)
             above(ix) == <<X!NodeFaceXM1P1(n(ix, 0), 0, nx), X!NodeFaceXOOP1(n(ix, 0), 0, nx),
                            X!NodeFaceXP1P1(n(ix, 0), 0, nx)>>
             below(ix) == <<X!NodeFaceXM1M1(n(ix, ny), ny, nx), X!NodeFaceXOOM1(n(ix, ny), ny, nx),
                            X!NodeFaceXP1M1(n(ix, ny), ny, nx)>>
             nw(ix) == X!NodeCellM1P1(n(ix, 0), 0, nx)
             ne(ix) == X!NodeCellP1P1(n(ix, 0), 0, nx)
             sw(ix) == X!NodeCellM1M1(n(ix, ny), ny, nx)
             se(ix) == X!NodeCellP1M1(n(ix, ny), ny, nx)
             first(ix) == X!Stencil(<<ix, 0>>, {n(ix, 0)}, X!NodeNodeM1O(n(ix, 0), 0, nx), n(ix, 0),
                                    X!NodeNodeP1O(n(ix, 0), 0, nx),
                                    <<nw(ix), ne(ix), nw(ix), ne(ix)>>, above(ix) \o above(ix))
             last(ix) == X!Stencil(<<ix, ny>>, {n(ix, ny)}, X!NodeNodeM1O(n(ix, ny), ny, nx), n(ix, ny),
                                   X!NodeNodeP1O(n(ix, ny), ny, nx),
                                   <<sw(ix), se(ix), sw(ix), se(ix)>>, below(ix) \o below(ix))
  <2>1. X!ProjectNodalIntensiveVariableOrder2UxXWallBoundary
          = {first(ix) : ix \in 1 .. nx - 1} \cup {last(ix) : ix \in 1 .. nx - 1}
    BY DEF X!ProjectNodalIntensiveVariableOrder2UxXWallBoundary
  <2>2. \A p, q, r : /\ (<<p, q, r>> \o <<p, q, r>>)[1] = p /\ (<<p, q, r>> \o <<p, q, r>>)[3] = r
                     /\ (<<p, q, r>> \o <<p, q, r>>)[4] = p /\ (<<p, q, r>> \o <<p, q, r>>)[6] = r
    OBVIOUS
  <2>3. ASSUME NEW ix \in 1 .. nx - 1
        PROVE  OverX(first(ix), ix - 1, ix, 0, 0) /\ OverX(last(ix), ix - 1, ix, ny - 1, ny - 1)
    <3> DEFINE m == NodeAt(ix, 0, nx)
               o == NodeAt(ix, ny, nx)
    <3>0. n(ix, 0) = m /\ n(ix, ny) = o /\ ix \in Int
      BY <1>2
    <3>1. /\ nw(ix) = CellAt(ix - 1, 0, nx) /\ ne(ix) = CellAt(ix, 0, nx)
          /\ sw(ix) = CellAt(ix - 1, ny - 1, nx) /\ se(ix) = CellAt(ix, ny - 1, nx)
      <4>1. /\ NodeCellM1P1(m, 0, nx) = CellAt(ix - 1, 0, nx) /\ NodeCellP1P1(m, 0, nx) = CellAt(ix, 0, nx)
            /\ NodeCellM1M1(o, ny, nx) = CellAt(ix - 1, ny - 1, nx)
            /\ NodeCellP1M1(o, ny, nx) = CellAt(ix, ny - 1, nx)
        BY <1>1, <3>0, NodeMaps
      <4> HIDE DEF n, m, o
      <4> QED BY <3>0, <4>1, SameMapsX
    <3>2. /\ above(ix)[1] = FaceXAt(ix - 1, 0, nx) /\ above(ix)[3] = FaceXAt(ix + 1, 0, nx)
          /\ below(ix)[1] = FaceXAt(ix - 1, ny - 1, nx) /\ below(ix)[3] = FaceXAt(ix + 1, ny - 1, nx)
      <4>1. /\ NodeFaceXM1P1(m, 0, nx) = FaceXAt(ix - 1, 0, nx)
            /\ NodeFaceXP1P1(m, 0, nx) = FaceXAt(ix + 1, 0, nx)
            /\ NodeFaceXM1M1(o, ny, nx) = FaceXAt(ix - 1, ny - 1, nx)
            /\ NodeFaceXP1M1(o, ny, nx) = FaceXAt(ix + 1, ny - 1, nx)
        BY <1>1, <3>0, NodeMaps
      <4> HIDE DEF n, m, o
      <4> QED BY <3>0, <4>1, SameMapsX
    <3>3. /\ first(ix).cells = <<nw(ix), ne(ix), nw(ix), ne(ix)>> /\ first(ix).faces = above(ix) \o above(ix)
          /\ last(ix).cells = <<sw(ix), se(ix), sw(ix), se(ix)>> /\ last(ix).faces = below(ix) \o below(ix)
      <4> HIDE DEF n, m, o, above, below, nw, ne, sw, se
      <4>1. first(ix).cells = <<nw(ix), ne(ix), nw(ix), ne(ix)>> /\ first(ix).faces = above(ix) \o above(ix)
        BY Zenon DEF X!Stencil
      <4>2. last(ix).cells = <<sw(ix), se(ix), sw(ix), se(ix)>> /\ last(ix).faces = below(ix) \o below(ix)
        BY Zenon DEF X!Stencil
      <4> QED BY <4>1, <4>2
    <3>4. /\ first(ix).faces[1] = above(ix)[1] /\ first(ix).faces[3] = above(ix)[3]
          /\ first(ix).faces[4] = above(ix)[1] /\ first(ix).faces[6] = above(ix)[3]
          /\ last(ix).faces[1] = below(ix)[1] /\ last(ix).faces[3] = below(ix)[3]
          /\ last(ix).faces[4] = below(ix)[1] /\ last(ix).faces[6] = below(ix)[3]
      <4> HIDE DEF first, last
      <4> QED BY <2>2, <3>3
    <3> HIDE DEF nw, ne, sw, se, above, below, first, last
    <3> QED BY <3>1, <3>2, <3>3, <3>4 DEF OverX
  <2>4. \A ix \in 1 .. nx - 1 : ix - 1 \in 0 .. nx - 1 /\ ix \in 0 .. nx - 1 /\ FollowsX(ix - 1, ix)
    BY <1>1 DEF FollowsX
  <2>5. 0 \in 0 .. ny - 1 /\ ny - 1 \in 0 .. ny - 1
    BY <1>1
  <2> HIDE DEF first, last
  <2> QED BY <2>1, <2>3, <2>4, <2>5 DEF DualX
<1>7. ASSUME NEW a, ~WallsX \/ a = "out_u", NEW s \in X!BoundaryStencils(a) PROVE DualX(s)
  BY <1>5, <1>6, <1>7
     DEF X!BoundaryStencils, X!ProjectNodalIntensiveVariableOrder2XBoundaryRt,
         X!ProjectNodalIntensiveVariableOrder2XPeriodicBoundary, WallsX
<1> QED BY <1>4, <1>7

LEMMA DualsY ==
  ASSUME WideGrid
  PROVE  /\ \A iy \in Inner : \A s \in Y!InnerStencils(iy) : DualY(s)
         /\ \A a : BoundaryConditions # "Wall" \/ a = "out_v" => \A s \in Y!BoundaryStencils(a) : DualY(s)
<1>1. /\ nx \in Int /\ ny \in Int /\ nx > 1 /\ ny > 1 /\ nx - 1 \in Int /\ ny - 1 \in Int
      /\ \A i \in Int : i - 1 \in Int /\ i - 1 + 1 = i
  BY DEF WideGrid
<1>2. \A x, y, n : Y!NodeAt(x, y, n) = NodeAt(x, y, n)
  BY SameMapsY
<1>3. Y!Inner = Inner
  BY SameGridY
<1>4. ASSUME NEW iy \in Inner, NEW s \in Y!InnerStencils(iy) PROVE DualY(s)
  <2> DEFINE n(ix) == Y!NodeAt(ix, iy, nx)
             st(ix) == Y!Stencil(<<ix, iy>>, {n(ix)}, Y!NodeNodeOM1(n(ix), iy, nx), n(ix),
                                 Y!NodeNodeOP1(n(ix), iy, nx),
                                 Y!CellsAround(n(ix), n(ix), n(ix), n(ix), iy, iy),
                                 Y!FacesAcross(n(ix), n(ix), iy))
  <2>1. PICK ix \in 1 .. nx - 1 : s = st(ix)
    BY DEF Y!InnerStencils
  <2>2. /\ ix \in Int /\ iy \in Int /\ ix - 1 \in Int /\ iy - 1 \in Int
        /\ ix - 1 + 1 = ix /\ iy - 1 + 1 = iy /\ n(ix) = NodeAt(ix, iy, nx)
    BY <1>1, <1>2 DEF Inner
  <2>3. OverY(s, ix - 1, ix, iy - 1, iy)
    <3> HIDE DEF n
    <3>1. OverY(st(ix), ix - 1, ix, iy - 1, iy)
      BY <2>2, AroundY, SMTT(40)
    <3> QED BY <2>1, <3>1
  <2>4. /\ ix - 1 \in 0 .. nx - 1 /\ ix \in 0 .. nx - 1 /\ iy - 1 \in 0 .. ny - 1 /\ iy \in 0 .. ny - 1
        /\ FollowsY(iy - 1, iy)
    BY <1>1, <2>2 DEF Inner, FollowsY
  <2> QED BY <2>3, <2>4 DEF DualY
<1>5. ASSUME NEW s \in Y!PeriodicSides PROVE DualY(s)
  <2>1. PICK iy \in Inner : OverY(s, nx - 1, 0, iy - 1, iy)
    BY StencilsY
  <2>2. /\ iy - 1 \in 0 .. ny - 1 /\ iy \in 0 .. ny - 1 /\ FollowsY(iy - 1, iy)
        /\ nx - 1 \in 0 .. nx - 1 /\ 0 \in 0 .. nx - 1
    BY <1>1 DEF Inner, FollowsY
  <2> QED BY <2>1, <2>2 DEF DualY
<1>6. ASSUME ~WallsY, NEW s \in Y!PeriodicEnds \cup {Y!PeriodicCorner} PROVE DualY(s)
  <2>1. FollowsY(ny - 1, 0) /\ nx - 1 \in 0 .. nx - 1 /\ 0 \in 0 .. nx - 1 /\ ny - 1 \in 0 .. ny - 1
        /\ 0 \in 0 .. ny - 1
    BY <1>1, <1>6 DEF FollowsY
  <2>2. CASE s \in Y!PeriodicEnds
    <3>1. PICK ix \in 1 .. nx - 1 : OverY(s, ix - 1, ix, ny - 1, 0)
      BY <2>2, StencilsY
    <3>2. ix - 1 \in 0 .. nx - 1 /\ ix \in 0 .. nx - 1
      BY <1>1
    <3> QED BY <2>1, <3>1, <3>2 DEF DualY
  <2>3. CASE s = Y!PeriodicCorner
    BY <2>1, <2>3, StencilsY DEF DualY
  <2> QED BY <2>2, <2>3
<1>7. ASSUME NEW s \in Y!ProjectNodalIntensiveVariableOrder2UyYWallBoundary PROVE DualY(s)
  <2> DEFINE n(x, iy) == Y!NodeAt(x, iy, nx)
             two(p, q, r) == <<p, p, q, q, r, r>>
             se(iy) == Y!NodeCellP1M1(n(0, iy), iy, nx)
             ne(iy) == Y!NodeCellP1P1(n(0, iy), iy, nx)
             sw(iy) == Y!NodeCellM1M1(n(nx, iy), iy, nx)
             nw(iy) == Y!NodeCellM1P1(n(nx, iy), iy, nx)
             p1m1(iy) == Y!NodeFaceYP1M1(n(0, iy), iy, nx)
             p1p1(iy) == Y!NodeFaceYP1P1(n(0, iy), iy, nx)
             m1m1(iy) == Y!NodeFaceYM1M1(n(nx, iy), iy, nx)
             m1p1(iy) == Y!NodeFaceYM1P1(n(nx, iy), iy, nx)
             first(iy) == Y!Stencil(<<0, iy>>, {n(0, iy)}, Y!NodeNodeOM1(n(0, iy), iy, nx), n(0, iy),
                                    Y!NodeNodeOP1(n(0, iy), iy, nx), <<se(iy), se(iy), ne(iy), ne(iy)>>,
                                    two(p1m1(iy), Y!NodeFaceYP1OO(n(0, iy), iy, nx), p1p1(iy)))
             last(iy) == Y!Stencil(<<nx, iy>>, {n(nx, iy)}, Y!NodeNodeOM1(n(nx, iy), iy, nx), n(nx, iy),
                                   Y!NodeNodeOP1(n(nx, iy), iy, nx), <<sw(iy), sw(iy), nw(iy), nw(iy)>>,
                                   two(m1m1(iy), Y!NodeFaceYM1OO(n(nx, iy), iy, nx), m1p1(iy)))
  <2>1. Y!ProjectNodalIntensiveVariableOrder2UyYWallBoundary
          = {first(iy) : iy \in Inner} \cup {last(iy) : iy \in Inner}
    BY <1>3 DEF Y!ProjectNodalIntensiveVariableOrder2UyYWallBoundary
  <2>2. \A p, q, r : two(p, q, r)[1] = p /\ two(p, q, r)[2] = p /\ two(p, q, r)[5] = r /\ two(p, q, r)[6] = r
    OBVIOUS
  <2>3. ASSUME NEW iy \in Inner
        PROVE  OverY(first(iy), 0, 0, iy - 1, iy) /\ OverY(last(iy), nx - 1, nx - 1, iy - 1, iy)
    <3> DEFINE m == NodeAt(0, iy, nx)
               o == NodeAt(nx, iy, nx)
    <3>1. n(0, iy) = m /\ n(nx, iy) = o /\ iy \in Int
      BY <1>2 DEF Inner
    <3>2. /\ NodeCellP1M1(m, iy, nx) = CellAt(0, iy - 1, nx) /\ NodeCellP1P1(m, iy, nx) = CellAt(0, iy, nx)
          /\ NodeFaceYP1M1(m, iy, nx) = FaceYAt(0, iy - 1, nx)
          /\ NodeFaceYP1P1(m, iy, nx) = FaceYAt(0, iy + 1, nx)
      BY <1>1, <3>1, NodeMaps
    <3>3. /\ NodeCellM1M1(o, iy, nx) = CellAt(nx - 1, iy - 1, nx)
          /\ NodeCellM1P1(o, iy, nx) = CellAt(nx - 1, iy, nx)
          /\ NodeFaceYM1M1(o, iy, nx) = FaceYAt(nx - 1, iy - 1, nx)
          /\ NodeFaceYM1P1(o, iy, nx) = FaceYAt(nx - 1, iy + 1, nx)
      BY <1>1, <3>1, NodeMaps
    <3>4. /\ se(iy) = CellAt(0, iy - 1, nx) /\ ne(iy) = CellAt(0, iy, nx)
          /\ sw(iy) = CellAt(nx - 1, iy - 1, nx) /\ nw(iy) = CellAt(nx - 1, iy, nx)
          /\ p1m1(iy) = FaceYAt(0, iy - 1, nx) /\ p1p1(iy) = FaceYAt(0, iy + 1, nx)
          /\ m1m1(iy) = FaceYAt(nx - 1, iy - 1, nx) /\ m1p1(iy) = FaceYAt(nx - 1, iy + 1, nx)
      <4> HIDE DEF n, m, o
      <4> QED BY <3>1, <3>2, <3>3, SameMapsY
    <3>5. /\ first(iy).cells = <<se(iy), se(iy), ne(iy), ne(iy)>>
          /\ first(iy).faces = two(p1m1(iy), Y!NodeFaceYP1OO(n(0, iy), iy, nx), p1p1(iy))
      <4> HIDE DEF n, two, se, ne, p1m1, p1p1
      <4> QED BY Zenon DEF Y!Stencil
    <3>6. /\ last(iy).cells = <<sw(iy), sw(iy), nw(iy), nw(iy)>>
          /\ last(iy).faces = two(m1m1(iy), Y!NodeFaceYM1OO(n(nx, iy), iy, nx), m1p1(iy))
      <4> HIDE DEF n, two, sw, nw, m1m1, m1p1
      <4> QED BY Zenon DEF Y!Stencil
    <3> HIDE DEF n, m, o, two, se, ne, sw, nw, p1m1, p1p1, m1m1, m1p1, first, last
    <3>7. OverY(first(iy), 0, 0, iy - 1, iy)
      BY <2>2, <3>4, <3>5 DEF OverY
    <3>8. OverY(last(iy), nx - 1, nx - 1, iy - 1, iy)
      BY <2>2, <3>4, <3>6 DEF OverY
    <3> QED BY <3>7, <3>8
  <2>4. \A iy \in Inner : iy - 1 \in 0 .. ny - 1 /\ iy \in 0 .. ny - 1 /\ FollowsY(iy - 1, iy)
    BY <1>1 DEF Inner, FollowsY
  <2>5. 0 \in 0 .. nx - 1 /\ nx - 1 \in 0 .. nx - 1
    BY <1>1
  <2> HIDE DEF first, last
  <2> QED BY <2>1, <2>3, <2>4, <2>5 DEF DualY
<1>8. ASSUME NEW a, BoundaryConditions # "Wall" \/ a = "out_v", NEW s \in Y!BoundaryStencils(a) PROVE DualY(s)
  BY <1>5, <1>6, <1>7, <1>8
     DEF Y!BoundaryStencils, Y!ProjectNodalIntensiveVariableOrder2YBoundaryRt,
         Y!ProjectNodalIntensiveVariableOrder2YPeriodicBoundary, WallsY
<1> QED BY <1>4, <1>8

\* What the balances need of the fluxes and of the rows that are left.
LEMMA BalancesX ==
  ASSUME WideGrid, FacesAgree(mem["mass_flux_x"], "facex")
  PROVE  /\ todo \subseteq Inner => X!Balanced(UNION {X!InnerStencils(iy) : iy \in todo})
         /\ \A a : ~WallsX \/ a = "out_u" => X!Balanced(X!BoundaryStencils(a))
<1>1. ASSUME todo \subseteq Inner PROVE X!Balanced(UNION {X!InnerStencils(iy) : iy \in todo})
  <2> DEFINE S == UNION {X!InnerStencils(iy) : iy \in todo}
  <2>1. \A s \in S : DualX(s)
    BY <1>1, DualsX
  <2> HIDE DEF S
  <2>2. X!Balanced(S)
    BY <2>1, BalancedX
  <2> QED BY <2>2 DEF S
<1> QED BY <1>1, DualsX, BalancedX

LEMMA BalancesY ==
  ASSUME WideGrid, FacesAgree(mem["mass_flux_y"], "facey")
  PROVE  /\ todo \subseteq Inner => Y!Balanced(UNION {Y!InnerStencils(iy) : iy \in todo})
         /\ \A a : BoundaryConditions # "Wall" \/ a = "out_v" => Y!Balanced(Y!BoundaryStencils(a))
<1>1. ASSUME todo \subseteq Inner PROVE Y!Balanced(UNION {Y!InnerStencils(iy) : iy \in todo})
  <2> DEFINE S == UNION {Y!InnerStencils(iy) : iy \in todo}
  <2>1. \A s \in S : DualY(s)
    BY <1>1, DualsY
  <2> HIDE DEF S
  <2>2. Y!Balanced(S)
    BY <2>1, BalancedY
  <2> QED BY <2>2 DEF S
<1> QED BY <1>1, DualsY, BalancedY
-----------------------------------------------------------------------------
(* The loops of the two sweeps: where a row stores, and what. *)

\* The places of the grid of nodes: those of every kind of array are among them.
GridPlaces == (0 .. nx) \X (0 .. ny)

\* What a formula gives for a place of the grid is a value of the model.
LEMMA ResultsAreValues ==
  ASSUME WideGrid, NEW k, NEW p \in GridPlaces
  PROVE  Results(k, p) \subseteq Values /\ Zero \in Values /\ Garbage \in Values
<1>1. p = <<p[1], p[2]>> /\ p[1] \in 0 .. nx /\ p[2] \in 0 .. ny
  BY DEF GridPlaces
<1> DEFINE x == p[1]
           y == p[2]
           fx == Folded(x, nx, WallsX, StaggeredX(k))
           fy == Folded(y, ny, WallsY, StaggeredY(k))
<1>2. /\ x \in Int /\ y \in Int /\ nx \in Nat /\ ny \in Nat /\ nx > 1 /\ ny > 1
      /\ (x \in 0 .. nx - 1 \/ x = nx) /\ (y \in 0 .. ny - 1 \/ y = ny)
  BY <1>1 DEF WideGrid
<1>3. fx \in {x, nx, 0, nx - 1} /\ fy \in {y, ny, 0, ny - 1}
  <2> HIDE DEF x, y
  <2>1. fx \in {x, nx, 0, nx - 1}
    BY <1>2, FoldedXNear
  <2>2. fy \in {y, ny, 0, ny - 1}
    BY <1>2, FoldedYNear
  <2> QED BY <2>1, <2>2
<1>4. Fold(k, p) = p \/ Fold(k, p) = <<fx, fy>>
  BY DEF Fold
<1>5. Fold(k, p) \in Nat \X Nat
  <2>1. fx \in Nat /\ fy \in Nat
    BY <1>1, <1>2, <1>3
  <2> HIDE DEF fx, fy
  <2>2. p \in Nat \X Nat
    BY <1>1
  <2> QED BY <1>4, <2>1, <2>2
<1>6. PICK q \in Nat \X Nat : Fold(k, p) = q
  BY <1>5
<1>7. Derived(q) \in Values /\ Off(q) \in Values /\ q \in Values
  BY DEF Derived, Off, Values
<1> QED BY <1>6, <1>7 DEF Results, Stamps, Values

\* A store of a value of the model into the element of a place; stores into the elements of S.
Put(s, k, p) == s[1] = At(k, p) /\ s[2] \in Values
Placed(stores, k, S) == \A s \in stores : \E p \in S : Put(s, k, p)

\* Every result of a place, and 0, is a value of the model stored into the element of that place.
LEMMA ResultsArePut ==
  ASSUME WideGrid, NEW k, NEW p \in GridPlaces, NEW v \in Results(k, p)
  PROVE  Put(<<At(k, p), v>>, k, p) /\ Put(<<At(k, p), Zero>>, k, p)
  BY ResultsAreValues DEF Put

\* The row of a kernel of the sweep in x stores into the elements of that row alone, the
\* columns of the loop, and what it stores there is a value of the model.
LEMMA LoopsX ==
  ASSUME WideGrid, NEW a, NEW iy \in 0 .. ny
  PROVE  /\ Placed(X!VolumeFluxStores(a, iy), "facex", (0 .. nx) \X {iy})
         /\ Placed(X!DirectionalStores(a, iy), "cell", (0 .. nx - 1) \X {iy})
         /\ Placed(X!ReconstructGradientX(a, iy), "cell", (1 .. nx - 2) \X {iy})
         /\ Placed(X!ReconstructFluxOrder2X(a, iy), "facex", (1 .. nx - 1) \X {iy})
         /\ Placed(X!ProjectMassX(a, iy), "cell", (0 .. nx - 1) \X {iy})
         /\ Placed(X!MassProjectIntensiveVariableX(a, iy), "cell", (0 .. nx - 1) \X {iy})
         /\ Placed(X!ReconstructDensity(a, iy), "cell", (0 .. nx - 1) \X {iy})
         /\ Placed(X!ReconstructGradientNodalX(a, iy), "node", (1 .. nx - 1) \X {iy})
         /\ Placed(X!ProjectNodalIntensiveVariableOrder2X(a, iy), "node", (1 .. nx - 1) \X {iy})
<1>1. \A ix \in 0 .. nx : \A k, reads : Put(<<At(k, <<ix, iy>>), X!Computed(k, <<ix, iy>>, reads)>>, k, <<ix, iy>>)
  <2> TAKE ix \in 0 .. nx
  <2> TAKE k, reads
  <2>1. <<ix, iy>> \in GridPlaces
    BY DEF GridPlaces
  <2> QED BY <2>1, SameStoresX, ResultsArePut
<1>2. \A ix : /\ At("facex", <<ix, iy>>) = X!FaceXAt(ix, iy, nx)
              /\ At("cell", <<ix, iy>>) = X!CellAt(ix, iy, nx)
              /\ At("node", <<ix, iy>>) = X!NodeAt(ix, iy, nx)
  BY DEF At, StaggeredX, NodeAt, CellAt, X!FaceXAt, X!CellAt, X!NodeAt
<1>3. \A v, f, i, k, p : Put(<<i, f>>, k, p) => Put(<<i, X!Driven(v, f)>>, k, p)
  BY DEF X!Driven, X!Zero, Values, Zero, Put
<1>4. /\ 1 .. nx - 1 \subseteq 0 .. nx /\ 0 .. nx - 1 \subseteq 0 .. nx /\ 1 .. nx - 2 \subseteq 0 .. nx
      /\ \A C, x : x \in C => <<x, iy>> \in C \X {iy}
  BY DEF WideGrid
<1>5. Placed(X!VolumeFluxStores(a, iy), "facex", (0 .. nx) \X {iy})
  <2> SUFFICES ASSUME NEW s \in X!VolumeFluxStores(a, iy) PROVE \E p \in (0 .. nx) \X {iy} : Put(s, "facex", p)
    BY DEF Placed
  <2>1. PICK ix \in 0 .. nx :
               \E v, reads : s = <<X!FaceXAt(ix, iy, nx), X!Driven(v, X!Computed("facex", <<ix, iy>>, reads))>>
    BY Zenon DEF X!VolumeFluxStores
  <2>2. <<ix, iy>> \in (0 .. nx) \X {iy} /\ ix \in 0 .. nx
    BY <1>4
  <2> QED BY <1>1, <1>2, <1>3, <2>1, <2>2
<1>6. Placed(X!DirectionalStores(a, iy), "cell", (0 .. nx - 1) \X {iy})
  <2> SUFFICES ASSUME NEW s \in X!DirectionalStores(a, iy)
               PROVE  \E p \in (0 .. nx - 1) \X {iy} : Put(s, "cell", p)
    BY DEF Placed
  <2>1. PICK ix \in 0 .. nx - 1 : \E reads : s = <<X!CellAt(ix, iy, nx), X!Computed("cell", <<ix, iy>>, reads)>>
    BY Zenon DEF X!DirectionalStores
  <2> QED BY <1>1, <1>2, <1>4, <2>1
<1>7. Placed(X!ReconstructGradientX(a, iy), "cell", (1 .. nx - 2) \X {iy})
  <2> SUFFICES ASSUME NEW s \in X!ReconstructGradientX(a, iy)
               PROVE  \E p \in (1 .. nx - 2) \X {iy} : Put(s, "cell", p)
    BY DEF Placed
  <2>1. PICK ix \in 1 .. nx - 2 : \E reads : s = <<X!CellAt(ix, iy, nx), X!Computed("cell", <<ix, iy>>, reads)>>
    BY Zenon DEF X!ReconstructGradientX, X!GradientAt
  <2> QED BY <1>1, <1>2, <1>4, <2>1
<1>8. Placed(X!ProjectMassX(a, iy), "cell", (0 .. nx - 1) \X {iy})
  <2> SUFFICES ASSUME NEW s \in X!ProjectMassX(a, iy) PROVE \E p \in (0 .. nx - 1) \X {iy} : Put(s, "cell", p)
    BY DEF Placed
  <2>1. PICK ix \in 0 .. nx - 1 : \E reads : s = <<X!CellAt(ix, iy, nx), X!Computed("cell", <<ix, iy>>, reads)>>
    BY Zenon DEF X!ProjectMassX
  <2> QED BY <1>1, <1>2, <1>4, <2>1
<1>9. Placed(X!MassProjectIntensiveVariableX(a, iy), "cell", (0 .. nx - 1) \X {iy})
  <2> SUFFICES ASSUME NEW s \in X!MassProjectIntensiveVariableX(a, iy)
               PROVE  \E p \in (0 .. nx - 1) \X {iy} : Put(s, "cell", p)
    BY DEF Placed
  <2>1. PICK ix \in 0 .. nx - 1 : \E reads : s = <<X!CellAt(ix, iy, nx), X!Computed("cell", <<ix, iy>>, reads)>>
    BY Zenon DEF X!MassProjectIntensiveVariableX
  <2> QED BY <1>1, <1>2, <1>4, <2>1
<1>10. Placed(X!ReconstructDensity(a, iy), "cell", (0 .. nx - 1) \X {iy})
  <2> SUFFICES ASSUME NEW s \in X!ReconstructDensity(a, iy)
               PROVE  \E p \in (0 .. nx - 1) \X {iy} : Put(s, "cell", p)
    BY DEF Placed
  <2>1. PICK ix \in 0 .. nx - 1 : \E reads : s = <<X!CellAt(ix, iy, nx), X!Computed("cell", <<ix, iy>>, reads)>>
    BY Zenon DEF X!ReconstructDensity
  <2> QED BY <1>1, <1>2, <1>4, <2>1
<1>11. Placed(X!ReconstructGradientNodalX(a, iy), "node", (1 .. nx - 1) \X {iy})
  <2> SUFFICES ASSUME NEW s \in X!ReconstructGradientNodalX(a, iy)
               PROVE  \E p \in (1 .. nx - 1) \X {iy} : Put(s, "node", p)
    BY DEF Placed
  <2>1. PICK ix \in 1 .. nx - 1 : \E reads : s = <<X!NodeAt(ix, iy, nx), X!Computed("node", <<ix, iy>>, reads)>>
    BY Zenon DEF X!ReconstructGradientNodalX, X!NodalGradientAt
  <2> QED BY <1>1, <1>2, <1>4, <2>1
<1>12. Placed(X!ReconstructFluxOrder2X(a, iy), "facex", (1 .. nx - 1) \X {iy})
  <2> SUFFICES ASSUME NEW s \in X!ReconstructFluxOrder2X(a, iy)
               PROVE  \E p \in (1 .. nx - 1) \X {iy} : Put(s, "facex", p)
    BY DEF Placed
  <2>1. PICK c \in X!InnerFaces(iy) : \E f \in c.to : s = <<f, X!Computed("facex", c.at, X!FluxReads(a, c))>>
    BY DEF X!ReconstructFluxOrder2X, X!Fluxes
  <2>2. PICK ix \in 1 .. nx - 1 : c.at = <<ix, iy>> /\ c.to = {X!FaceXAt(ix, iy, nx)}
    BY DEF X!InnerFaces, X!Crossing
  <2> QED BY <1>1, <1>2, <1>4, <2>1, <2>2
<1>13. Placed(X!ProjectNodalIntensiveVariableOrder2X(a, iy), "node", (1 .. nx - 1) \X {iy})
  <2> SUFFICES ASSUME NEW s \in X!ProjectNodalIntensiveVariableOrder2X(a, iy)
               PROVE  \E p \in (1 .. nx - 1) \X {iy} : Put(s, "node", p)
    BY DEF Placed
  <2>1. PICK c \in X!InnerStencils(iy) : \E n \in c.to : s = <<n, X!ProjectedAt(a, c)>>
    BY DEF X!ProjectNodalIntensiveVariableOrder2X, X!Projected
  <2>2. PICK ix \in 1 .. nx - 1 : \E m1, p1, cells, faces :
               c = X!Stencil(<<ix, iy>>, {X!NodeAt(ix, iy, nx)}, m1, X!NodeAt(ix, iy, nx), p1, cells, faces)
    BY Zenon DEF X!InnerStencils
  <2>3. c.at = <<ix, iy>> /\ c.to = {X!NodeAt(ix, iy, nx)}
    BY <2>2 DEF X!Stencil
  <2> QED BY <1>1, <1>2, <1>4, <2>1, <2>3 DEF X!ProjectedAt
<1> QED BY <1>5, <1>6, <1>7, <1>8, <1>9, <1>10, <1>11, <1>12, <1>13

\* The same of the kernels of the sweep in y.
LEMMA LoopsY ==
  ASSUME WideGrid, NEW a, NEW iy \in 0 .. ny
  PROVE  /\ Placed(Y!VolumeFluxStores(a, iy), "facey", (0 .. nx - 1) \X {iy})
         /\ Placed(Y!DirectionalStores(a, iy), "cell", (0 .. nx - 1) \X {iy})
         /\ Placed(Y!ReconstructGradientY(a, iy), "cell", (0 .. nx - 1) \X {iy})
         /\ Placed(Y!ReconstructFluxOrder2Y(a, iy), "facey", (0 .. nx - 1) \X {iy})
         /\ Placed(Y!ProjectMassY(a, iy), "cell", (0 .. nx - 1) \X {iy})
         /\ Placed(Y!MassProjectIntensiveVariableY(a, iy), "cell", (0 .. nx - 1) \X {iy})
         /\ Placed(Y!ReconstructDensity(a, iy), "cell", (0 .. nx - 1) \X {iy})
         /\ Placed(Y!ReconstructGradientNodalY(a, iy), "node", (0 .. nx) \X {iy})
         /\ Placed(Y!ProjectNodalIntensiveVariableOrder2Y(a, iy), "node", (1 .. nx - 1) \X {iy})
<1>1. \A ix \in 0 .. nx : \A k, reads : Put(<<At(k, <<ix, iy>>), Y!Computed(k, <<ix, iy>>, reads)>>, k, <<ix, iy>>)
  <2> TAKE ix \in 0 .. nx
  <2> TAKE k, reads
  <2>1. <<ix, iy>> \in GridPlaces
    BY DEF GridPlaces
  <2> QED BY <2>1, SameStoresY, ResultsArePut
<1>2. \A ix : /\ At("facey", <<ix, iy>>) = Y!FaceYAt(ix, iy, nx)
              /\ At("cell", <<ix, iy>>) = Y!CellAt(ix, iy, nx)
              /\ At("node", <<ix, iy>>) = Y!NodeAt(ix, iy, nx)
  BY DEF At, StaggeredX, NodeAt, CellAt, Y!FaceYAt, Y!CellAt, Y!NodeAt
<1>3. \A v, f, i, k, p : Put(<<i, f>>, k, p) => Put(<<i, Y!Driven(v, f)>>, k, p)
  BY DEF Y!Driven, Y!Zero, Values, Zero, Put
<1>4. /\ 1 .. nx - 1 \subseteq 0 .. nx /\ 0 .. nx - 1 \subseteq 0 .. nx /\ 1 .. nx - 2 \subseteq 0 .. nx
      /\ \A C, x : x \in C => <<x, iy>> \in C \X {iy}
  BY DEF WideGrid
<1>5. Placed(Y!VolumeFluxStores(a, iy), "facey", (0 .. nx - 1) \X {iy})
  <2> SUFFICES ASSUME NEW s \in Y!VolumeFluxStores(a, iy)
               PROVE  \E p \in (0 .. nx - 1) \X {iy} : Put(s, "facey", p)
    BY DEF Placed
  <2>1. PICK ix \in 0 .. nx - 1 :
               \E v, reads : s = <<Y!FaceYAt(ix, iy, nx), Y!Driven(v, Y!Computed("facey", <<ix, iy>>, reads))>>
    BY Zenon DEF Y!VolumeFluxStores
  <2>2. <<ix, iy>> \in (0 .. nx - 1) \X {iy} /\ ix \in 0 .. nx
    BY <1>4
  <2> QED BY <1>1, <1>2, <1>3, <2>1, <2>2
<1>6. Placed(Y!DirectionalStores(a, iy), "cell", (0 .. nx - 1) \X {iy})
  <2> SUFFICES ASSUME NEW s \in Y!DirectionalStores(a, iy)
               PROVE  \E p \in (0 .. nx - 1) \X {iy} : Put(s, "cell", p)
    BY DEF Placed
  <2>1. PICK ix \in 0 .. nx - 1 : \E reads : s = <<Y!CellAt(ix, iy, nx), Y!Computed("cell", <<ix, iy>>, reads)>>
    BY Zenon DEF Y!DirectionalStores
  <2> QED BY <1>1, <1>2, <1>4, <2>1
<1>7. Placed(Y!ReconstructGradientY(a, iy), "cell", (0 .. nx - 1) \X {iy})
  <2> SUFFICES ASSUME NEW s \in Y!ReconstructGradientY(a, iy)
               PROVE  \E p \in (0 .. nx - 1) \X {iy} : Put(s, "cell", p)
    BY DEF Placed
  <2>1. PICK ix \in 0 .. nx - 1 : \E reads : s = <<Y!CellAt(ix, iy, nx), Y!Computed("cell", <<ix, iy>>, reads)>>
    BY Zenon DEF Y!ReconstructGradientY, Y!GradientAt
  <2> QED BY <1>1, <1>2, <1>4, <2>1
<1>8. Placed(Y!ProjectMassY(a, iy), "cell", (0 .. nx - 1) \X {iy})
  <2> SUFFICES ASSUME NEW s \in Y!ProjectMassY(a, iy) PROVE \E p \in (0 .. nx - 1) \X {iy} : Put(s, "cell", p)
    BY DEF Placed
  <2>1. PICK ix \in 0 .. nx - 1 : \E reads : s = <<Y!CellAt(ix, iy, nx), Y!Computed("cell", <<ix, iy>>, reads)>>
    BY Zenon DEF Y!ProjectMassY
  <2> QED BY <1>1, <1>2, <1>4, <2>1
<1>9. Placed(Y!MassProjectIntensiveVariableY(a, iy), "cell", (0 .. nx - 1) \X {iy})
  <2> SUFFICES ASSUME NEW s \in Y!MassProjectIntensiveVariableY(a, iy)
               PROVE  \E p \in (0 .. nx - 1) \X {iy} : Put(s, "cell", p)
    BY DEF Placed
  <2>1. PICK ix \in 0 .. nx - 1 : \E reads : s = <<Y!CellAt(ix, iy, nx), Y!Computed("cell", <<ix, iy>>, reads)>>
    BY Zenon DEF Y!MassProjectIntensiveVariableY
  <2> QED BY <1>1, <1>2, <1>4, <2>1
<1>10. Placed(Y!ReconstructDensity(a, iy), "cell", (0 .. nx - 1) \X {iy})
  <2> SUFFICES ASSUME NEW s \in Y!ReconstructDensity(a, iy)
               PROVE  \E p \in (0 .. nx - 1) \X {iy} : Put(s, "cell", p)
    BY DEF Placed
  <2>1. PICK ix \in 0 .. nx - 1 : \E reads : s = <<Y!CellAt(ix, iy, nx), Y!Computed("cell", <<ix, iy>>, reads)>>
    BY Zenon DEF Y!ReconstructDensity
  <2> QED BY <1>1, <1>2, <1>4, <2>1
<1>11. Placed(Y!ReconstructGradientNodalY(a, iy), "node", (0 .. nx) \X {iy})
  <2> SUFFICES ASSUME NEW s \in Y!ReconstructGradientNodalY(a, iy)
               PROVE  \E p \in (0 .. nx) \X {iy} : Put(s, "node", p)
    BY DEF Placed
  <2>1. PICK ix \in 0 .. nx : \E reads : s = <<Y!NodeAt(ix, iy, nx), Y!Computed("node", <<ix, iy>>, reads)>>
    BY Zenon DEF Y!ReconstructGradientNodalY, Y!NodalGradientAt
  <2> QED BY <1>1, <1>2, <1>4, <2>1
<1>12. Placed(Y!ReconstructFluxOrder2Y(a, iy), "facey", (0 .. nx - 1) \X {iy})
  <2> SUFFICES ASSUME NEW s \in Y!ReconstructFluxOrder2Y(a, iy)
               PROVE  \E p \in (0 .. nx - 1) \X {iy} : Put(s, "facey", p)
    BY DEF Placed
  <2>1. PICK c \in Y!InnerFaces(iy) : \E f \in c.to : s = <<f, Y!Computed("facey", c.at, Y!FluxReads(a, c))>>
    BY DEF Y!ReconstructFluxOrder2Y, Y!Fluxes
  <2>2. PICK ix \in 0 .. nx - 1 : c.at = <<ix, iy>> /\ c.to = {Y!FaceYAt(ix, iy, nx)}
    BY DEF Y!InnerFaces, Y!Crossing
  <2> QED BY <1>1, <1>2, <1>4, <2>1, <2>2
<1>13. Placed(Y!ProjectNodalIntensiveVariableOrder2Y(a, iy), "node", (1 .. nx - 1) \X {iy})
  <2> SUFFICES ASSUME NEW s \in Y!ProjectNodalIntensiveVariableOrder2Y(a, iy)
               PROVE  \E p \in (1 .. nx - 1) \X {iy} : Put(s, "node", p)
    BY DEF Placed
  <2>1. PICK c \in Y!InnerStencils(iy) : \E n \in c.to : s = <<n, Y!ProjectedAt(a, c)>>
    BY DEF Y!ProjectNodalIntensiveVariableOrder2Y, Y!Projected
  <2>2. PICK ix \in 1 .. nx - 1 : \E m1, p1, cells, faces :
               c = Y!Stencil(<<ix, iy>>, {Y!NodeAt(ix, iy, nx)}, m1, Y!NodeAt(ix, iy, nx), p1, cells, faces)
    BY Zenon DEF Y!InnerStencils
  <2>3. c.at = <<ix, iy>> /\ c.to = {Y!NodeAt(ix, iy, nx)}
    BY <2>2 DEF Y!Stencil
  <2> QED BY <1>1, <1>2, <1>4, <2>1, <2>3 DEF Y!ProjectedAt
<1> QED BY <1>5, <1>6, <1>7, <1>8, <1>9, <1>10, <1>11, <1>12, <1>13

-----------------------------------------------------------------------------
(* The boundary kernels of the two sweeps. *)

\* What the sweeps compute for a place of the grid is a value of the model.
LEMMA ComputedInX ==
  ASSUME WideGrid
  PROVE  /\ \A q \in GridPlaces : \A k, reads : X!Computed(k, q, reads) \in Values
         /\ \A q \in GridPlaces : \A k : X!Off(X!Fold(k, q)) \in Values
         /\ X!Zero \in Values
<1>1. X!Zero \in Values
  BY DEF X!Zero, Values, Zero
<1>2. ASSUME NEW q \in GridPlaces, NEW k, NEW reads PROVE X!Computed(k, q, reads) \in Values
  BY ResultsAreValues, SameStoresX
<1>3. ASSUME NEW q \in GridPlaces, NEW k PROVE X!Off(X!Fold(k, q)) \in Values
  <2>1. X!Fold(k, q) = Fold(k, q) /\ \A p : X!Off(p) = Off(p)
    BY SameGridX DEF X!Off, Off
  <2> QED BY <2>1, ResultsAreValues DEF Results, Stamps
<1> QED BY <1>1, <1>2, <1>3

\* The boundary kernels of the sweep in x store into the first and the last column, that of
\* the nodal gradient into nothing on a grid with walls.
LEMMA EdgesX ==
  ASSUME WideGrid, NEW a
  PROVE  /\ Placed(X!ReconstructGradientXBoundary(a), "cell", {0, nx - 1} \X CellRows)
         /\ Placed(X!ReconstructFluxOrder2XBoundary(a), "facex", {0, nx} \X CellRows)
         /\ Placed(X!ReconstructGradientNodalXBoundary(a), "node", {0, nx} \X NodeRows)
         /\ WallsX => X!ReconstructGradientNodalXBoundary(a) = {}
<1>1. /\ nx \in Nat /\ ny \in Nat /\ nx > 1 /\ ny > 1 /\ nx - 1 \in Nat
      /\ \A iy \in CellRows : iy \in Nat /\ iy \in 0 .. ny
      /\ \A iy \in NodeRows : iy \in Nat /\ iy \in 0 .. ny
      /\ 0 \in 0 .. nx /\ nx \in 0 .. nx /\ nx - 1 \in 0 .. nx
  BY DEF WideGrid, CellRows, NodeRows
<1>2. /\ \A x \in 0 .. nx, y \in 0 .. ny : <<x, y>> \in GridPlaces
      /\ \A x, y, C, R : x \in C /\ y \in R => <<x, y>> \in C \X R
  BY DEF GridPlaces
<1>3. X!CellRows = CellRows /\ X!NodeRows = NodeRows
  BY SameGridX DEF X!NodeRows, NodeRows
<1>4. /\ \A iy \in CellRows : At("cell", <<0, iy>>) = nx * iy /\ At("cell", <<nx - 1, iy>>) = nx * iy + nx - 1
      /\ \A iy \in CellRows : At("facex", <<0, iy>>) = X!FirstFace(iy) /\ At("facex", <<nx, iy>>) = X!LastFace(iy)
      /\ \A ix, iy : At("node", <<ix, iy>>) = X!NodeAt(ix, iy, nx)
  BY <1>1 DEF At, StaggeredX, CellAt, NodeAt, X!FirstFace, X!LastFace, X!NodeAt
<1>5. \A p, k, v : v \in Values => Put(<<At(k, p), v>>, k, p)
  BY DEF Put
<1>6. \A S, k : Placed({}, k, S)
  BY DEF Placed
<1>7. Placed(X!ReconstructGradientXBoundary(a), "cell", {0, nx - 1} \X CellRows)
  <2>1. Placed(X!ReconstructGradientXPeriodicBoundary(a), "cell", {0, nx - 1} \X CellRows)
    <3> SUFFICES ASSUME NEW s \in X!ReconstructGradientXPeriodicBoundary(a)
                 PROVE  \E p \in {0, nx - 1} \X CellRows : Put(s, "cell", p)
      BY DEF Placed
    <3>1. PICK iy \in CellRows : \E reads : \/ s = <<nx * iy, X!Computed("cell", <<0, iy>>, reads)>>
                                            \/ s = <<nx * iy + nx - 1, X!Computed("cell", <<nx - 1, iy>>, reads)>>
      BY <1>3, Zenon DEF X!ReconstructGradientXPeriodicBoundary, X!GradientAt
    <3>2. /\ <<0, iy>> \in {0, nx - 1} \X CellRows /\ <<nx - 1, iy>> \in {0, nx - 1} \X CellRows
          /\ <<0, iy>> \in GridPlaces /\ <<nx - 1, iy>> \in GridPlaces
      BY <1>1, <1>2
    <3> QED BY <1>4, <1>5, <3>1, <3>2, ComputedInX
  <2> QED BY <1>6, <2>1 DEF X!ReconstructGradientXBoundary, X!ReconstructGradientXBoundaryRt
<1>8. Placed(X!ReconstructFluxOrder2XBoundary(a), "facex", {0, nx} \X CellRows)
  <2>1. Placed(X!ReconstructFluxOrder2XPeriodicBoundary(a), "facex", {0, nx} \X CellRows)
    <3> SUFFICES ASSUME NEW s \in X!ReconstructFluxOrder2XPeriodicBoundary(a)
                 PROVE  \E p \in {0, nx} \X CellRows : Put(s, "facex", p)
      BY DEF Placed
    <3>1. PICK c \in X!SeamFaces : \E f \in c.to : s = <<f, X!Computed("facex", c.at, X!FluxReads(a, c))>>
      BY DEF X!ReconstructFluxOrder2XPeriodicBoundary, X!Fluxes
    <3>2. PICK iy \in CellRows : c.at = <<0, iy>> /\ c.to = {X!FirstFace(iy), X!LastFace(iy)}
      BY <1>3 DEF X!SeamFaces, X!Crossing
    <3>3. <<0, iy>> \in {0, nx} \X CellRows /\ <<nx, iy>> \in {0, nx} \X CellRows /\ <<0, iy>> \in GridPlaces
      BY <1>1, <1>2
    <3> QED BY <1>4, <1>5, <3>1, <3>2, <3>3, ComputedInX
  <2>2. Placed(X!ReconstructFluxOrder2XWallBoundary(a), "facex", {0, nx} \X CellRows)
    <3> SUFFICES ASSUME NEW s \in X!ReconstructFluxOrder2XWallBoundary(a)
                 PROVE  \E p \in {0, nx} \X CellRows : Put(s, "facex", p)
      BY DEF Placed
    <3>1. PICK iy \in CellRows : s = <<X!FirstFace(iy), X!Zero>> \/ s = <<X!LastFace(iy), X!Zero>>
      BY <1>3 DEF X!ReconstructFluxOrder2XWallBoundary
    <3>2. <<0, iy>> \in {0, nx} \X CellRows /\ <<nx, iy>> \in {0, nx} \X CellRows
      BY <1>2
    <3> QED BY <1>4, <1>5, <3>1, <3>2, ComputedInX
  <2> QED BY <2>1, <2>2 DEF X!ReconstructFluxOrder2XBoundary, X!ReconstructFluxOrder2XBoundaryRt
<1>9. Placed(X!ReconstructGradientNodalXBoundary(a), "node", {0, nx} \X NodeRows)
  <2>1. Placed(X!ReconstructGradientNodalXPeriodicBoundary(a), "node", {0, nx} \X NodeRows)
    <3> SUFFICES ASSUME NEW s \in X!ReconstructGradientNodalXPeriodicBoundary(a)
                 PROVE  \E p \in {0, nx} \X NodeRows : Put(s, "node", p)
      BY DEF Placed
    <3>1. PICK iy \in NodeRows :
            \E reads : \/ s = <<X!NodeAt(0, iy, nx), X!Computed("node", <<0, iy>>, reads)>>
                       \/ s = <<X!NodeAt(nx, iy, nx), X!Computed("node", <<nx, iy>>, reads)>>
      BY <1>3, Zenon DEF X!ReconstructGradientNodalXPeriodicBoundary, X!NodalGradientAt
    <3>2. /\ <<0, iy>> \in {0, nx} \X NodeRows /\ <<nx, iy>> \in {0, nx} \X NodeRows
          /\ <<0, iy>> \in GridPlaces /\ <<nx, iy>> \in GridPlaces
      BY <1>1, <1>2
    <3> QED BY <1>4, <1>5, <3>1, <3>2, ComputedInX
  <2> QED BY <1>6, <2>1 DEF X!ReconstructGradientNodalXBoundary, X!ReconstructGradientNodalXBoundaryRt
<1>10. WallsX => X!ReconstructGradientNodalXBoundary(a) = {}
  BY DEF WallsX, X!ReconstructGradientNodalXBoundary
<1> QED BY <1>7, <1>8, <1>9, <1>10

\* A stencil of nodes on the boundary of the grid.
EdgeStencil(s) == s.at \in GridPlaces /\ \A n \in s.to : \E p \in EdgeNodes : n = At("node", p)

\* The nodes that the boundary kernels of the nodal arrays store into are those of the four edges.
LEMMA NodesOfEdges ==
  ASSUME WideGrid
  PROVE  /\ \A ix \in 0 .. nx, iy \in 0 .. ny : /\ <<ix, iy>> \in GridPlaces
                                                /\ At("node", <<ix, iy>>) = NodeAt(ix, iy, nx)
                                                /\ ix \in {0, nx} \/ iy \in {0, ny} => <<ix, iy>> \in EdgeNodes
         /\ \A iy \in Inner : SidesAt(iy) \subseteq EdgeNodes
         /\ \A ix \in 1 .. nx - 1 : EndsAt(ix) \subseteq EdgeNodes
         /\ CornersAt \subseteq EdgeNodes
         /\ \A n \in CornerNodes \cup Sides \cup Ends : \E p \in EdgeNodes : n = At("node", p)
<1>1. /\ nx \in Nat /\ ny \in Nat /\ nx > 1 /\ ny > 1
      /\ \A iy \in Inner : iy \in 0 .. ny
      /\ \A ix \in 1 .. nx - 1 : ix \in 0 .. nx
      /\ 0 \in 0 .. nx /\ nx \in 0 .. nx /\ 0 \in 0 .. ny /\ ny \in 0 .. ny
  BY DEF WideGrid, Inner
<1>2. \A ix \in 0 .. nx, iy \in 0 .. ny : /\ <<ix, iy>> \in GridPlaces
                                          /\ At("node", <<ix, iy>>) = NodeAt(ix, iy, nx)
                                          /\ ix \in {0, nx} \/ iy \in {0, ny} => <<ix, iy>> \in EdgeNodes
  BY DEF GridPlaces, At, StaggeredX, EdgeNodes, OnEdge, Places, LastX, LastY, StaggeredY
<1>3. \A iy \in Inner : SidesAt(iy) \subseteq EdgeNodes
  BY <1>1, <1>2 DEF SidesAt
<1>4. \A ix \in 1 .. nx - 1 : EndsAt(ix) \subseteq EdgeNodes
  BY <1>1, <1>2 DEF EndsAt
<1>5. CornersAt \subseteq EdgeNodes
  BY <1>1, <1>2 DEF CornersAt
<1>6. ASSUME NEW n \in CornerNodes \cup Sides \cup Ends PROVE \E p \in EdgeNodes : n = At("node", p)
  <2>1. CASE n \in CornerNodes
    <3>1. n \in NodesOf(CornersAt)
      BY <2>1, SeamNodes
    <3> QED BY <1>5, <3>1 DEF NodesOf
  <2>2. CASE n \in Sides
    <3>1. PICK ix \in {0, nx}, iy \in Inner : n = NodeAt(ix, iy, nx)
      BY <2>2 DEF Sides
    <3>2. <<ix, iy>> \in EdgeNodes /\ n = At("node", <<ix, iy>>)
      BY <1>1, <1>2, <3>1
    <3> QED BY <3>2
  <2>3. CASE n \in Ends
    <3>1. PICK ix \in 1 .. nx - 1, iy \in {0, ny} : n = NodeAt(ix, iy, nx)
      BY <2>3 DEF Ends
    <3>2. <<ix, iy>> \in EdgeNodes /\ n = At("node", <<ix, iy>>)
      BY <1>1, <1>2, <3>1
    <3> QED BY <3>2
  <2> QED BY <2>1, <2>2, <2>3
<1> QED BY <1>2, <1>3, <1>4, <1>5, <1>6

\* The stencils of the sides, the ends and the corner of a periodic grid are those of edges.
LEMMA SeamStencils ==
  ASSUME WideGrid
  PROVE  /\ \A S : SideStencils(S) => \A s \in S : EdgeStencil(s)
         /\ \A S : EndStencils(S) => \A s \in S : EdgeStencil(s)
         /\ \A s : CornerStencil(s) => EdgeStencil(s)
<1>1. \A s, P : s.at \in GridPlaces /\ s.to = NodesOf(P) /\ P \subseteq EdgeNodes => EdgeStencil(s)
  BY DEF NodesOf, EdgeStencil
<1>2. /\ \A iy \in Inner : <<0, iy>> \in GridPlaces
      /\ \A ix \in 1 .. nx - 1 : <<ix, 0>> \in GridPlaces
      /\ <<0, 0>> \in GridPlaces
  BY DEF GridPlaces, Inner, WideGrid
<1>3. ASSUME NEW S, SideStencils(S), NEW s \in S PROVE EdgeStencil(s)
  <2>1. PICK iy \in Inner : s.at = <<0, iy>> /\ s.to = NodesOf(SidesAt(iy))
    BY <1>3 DEF SideStencils
  <2> QED BY <1>1, <1>2, <2>1, NodesOfEdges
<1>4. ASSUME NEW S, EndStencils(S), NEW s \in S PROVE EdgeStencil(s)
  <2>1. PICK ix \in 1 .. nx - 1 : s.at = <<ix, 0>> /\ s.to = NodesOf(EndsAt(ix))
    BY <1>4 DEF EndStencils
  <2> QED BY <1>1, <1>2, <2>1, NodesOfEdges
<1>5. ASSUME NEW s, CornerStencil(s) PROVE EdgeStencil(s)
  BY <1>1, <1>2, <1>5, NodesOfEdges DEF CornerStencil
<1> QED BY <1>3, <1>4, <1>5

\* The boundary stencils of the sweep in x, with walls or without, are those of edges.
LEMMA EdgeStencilsX ==
  ASSUME WideGrid
  PROVE  /\ \A a : \A s \in X!BoundaryStencils(a) : EdgeStencil(s)
         /\ \A s \in X!PeriodicSides \cup X!PeriodicEnds \cup {X!PeriodicCorner} : EdgeStencil(s)
         /\ \A s \in X!ProjectNodalIntensiveVariableOrder2UxXWallBoundary : EdgeStencil(s)
         /\ \A s \in X!ProjectNodalIntensiveVariableOrder2UyXWallBoundary : EdgeStencil(s)
<1>1. \A s \in X!PeriodicSides \cup X!PeriodicEnds \cup {X!PeriodicCorner} : EdgeStencil(s)
  BY SeamStencils, StencilsX
<1>2. \A at, to, m1, node, p1, cells, faces :
        /\ X!Stencil(at, to, m1, node, p1, cells, faces).at = at
        /\ X!Stencil(at, to, m1, node, p1, cells, faces).to = to
  BY DEF X!Stencil
<1>3. ASSUME NEW ix \in 0 .. nx, NEW iy \in 0 .. ny, ix \in {0, nx} \/ iy \in {0, ny},
             NEW m1, NEW n, NEW p1, NEW cells, NEW faces
      PROVE  EdgeStencil(X!Stencil(<<ix, iy>>, {X!NodeAt(ix, iy, nx)}, m1, n, p1, cells, faces))
  <2>1. /\ <<ix, iy>> \in GridPlaces /\ <<ix, iy>> \in EdgeNodes
        /\ X!NodeAt(ix, iy, nx) = At("node", <<ix, iy>>)
    BY <1>3, NodesOfEdges, SameMapsX
  <2> QED BY <1>2, <2>1 DEF EdgeStencil
<1>4. /\ \A ix \in 1 .. nx - 1 : ix \in 0 .. nx
      /\ \A iy \in Inner : iy \in 0 .. ny
      /\ 0 \in 0 .. nx /\ nx \in 0 .. nx /\ 0 \in 0 .. ny /\ ny \in 0 .. ny /\ X!Inner = Inner
  BY SameGridX DEF Inner, WideGrid
<1>5. ASSUME NEW s \in X!ProjectNodalIntensiveVariableOrder2UxXWallBoundary PROVE EdgeStencil(s)
  <2>1. PICK ix \in 1 .. nx - 1 : \E m1, n, p1, cells, faces :
          \/ s = X!Stencil(<<ix, 0>>, {X!NodeAt(ix, 0, nx)}, m1, n, p1, cells, faces)
          \/ s = X!Stencil(<<ix, ny>>, {X!NodeAt(ix, ny, nx)}, m1, n, p1, cells, faces)
    BY Zenon DEF X!ProjectNodalIntensiveVariableOrder2UxXWallBoundary
  <2> QED BY <1>3, <1>4, <2>1
<1>6. ASSUME NEW s \in X!ProjectNodalIntensiveVariableOrder2UyXWallBoundary PROVE EdgeStencil(s)
  <2>1. PICK iy \in Inner : \E m1, n, p1, cells, faces :
          \/ s = X!Stencil(<<0, iy>>, {X!NodeAt(0, iy, nx)}, m1, n, p1, cells, faces)
          \/ s = X!Stencil(<<nx, iy>>, {X!NodeAt(nx, iy, nx)}, m1, n, p1, cells, faces)
    BY <1>4, Zenon DEF X!ProjectNodalIntensiveVariableOrder2UyXWallBoundary
  <2> QED BY <1>3, <1>4, <2>1
<1>7. \A a : \A s \in X!BoundaryStencils(a) : EdgeStencil(s)
  BY <1>1, <1>5, <1>6 DEF X!BoundaryStencils, X!ProjectNodalIntensiveVariableOrder2XBoundaryRt,
                          X!ProjectNodalIntensiveVariableOrder2XPeriodicBoundary
<1> QED BY <1>1, <1>5, <1>6, <1>7

\* The boundary kernel of the nodal projection in x stores into the nodes of the edges.
LEMMA NodalEdgeX ==
  ASSUME WideGrid, NEW a
  PROVE  Placed(X!ProjectNodalIntensiveVariableOrder2XBoundary(a), "node", EdgeNodes)
<1> SUFFICES ASSUME NEW s \in X!ProjectNodalIntensiveVariableOrder2XBoundary(a)
             PROVE  \E p \in EdgeNodes : Put(s, "node", p)
  BY DEF Placed
<1>1. CASE s \in X!Projected(a, X!BoundaryStencils(a))
  <2>1. PICK t \in X!BoundaryStencils(a) : \E n \in t.to : s = <<n, X!ProjectedAt(a, t)>>
    BY <1>1 DEF X!Projected
  <2>2. X!ProjectedAt(a, t) \in Values
    BY EdgeStencilsX, ComputedInX DEF EdgeStencil, X!ProjectedAt
  <2> QED BY <2>1, <2>2, EdgeStencilsX DEF EdgeStencil, Put
<1>2. CASE s \in X!Zeros(X!BoundaryZeros(a))
  <2>1. X!CornerNodes = CornerNodes /\ X!Ends = Ends /\ X!Sides = Sides
    BY SameGridX, SameMapsX DEF X!CornerNodes, CornerNodes, X!Ends, Ends, X!Sides, Sides
  <2>2. PICK n \in CornerNodes \cup Sides \cup Ends : s = <<n, X!Zero>>
    BY <1>2, <2>1 DEF X!Zeros, X!BoundaryZeros
  <2> QED BY <2>2, NodesOfEdges, ComputedInX DEF Put
<1> QED BY <1>1, <1>2 DEF X!ProjectNodalIntensiveVariableOrder2XBoundary

\* What the sweep in y computes for a place of the grid is a value of the model, the mirrored
\* gradients of a wall included.
LEMMA ComputedInY ==
  ASSUME WideGrid
  PROVE  /\ \A q \in GridPlaces : \A k, reads : Y!Computed(k, q, reads) \in Values
         /\ \A q \in GridPlaces : \A k : Y!Off(Y!Fold(k, q)) \in Values
         /\ \A q \in GridPlaces : \A m1, p1 : Y!Mirrored(q, m1, p1) \in Values
         /\ Y!Zero \in Values
<1>1. Y!Zero \in Values
  BY DEF Y!Zero, Values, Zero
<1>2. ASSUME NEW q \in GridPlaces, NEW k, NEW reads PROVE Y!Computed(k, q, reads) \in Values
  BY ResultsAreValues, SameStoresY
<1>3. ASSUME NEW q \in GridPlaces, NEW k PROVE Y!Off(Y!Fold(k, q)) \in Values
  <2>1. Y!Fold(k, q) = Fold(k, q) /\ \A p : Y!Off(p) = Off(p)
    BY SameGridY DEF Y!Off, Off
  <2> QED BY <2>1, ResultsAreValues DEF Results, Stamps
<1>4. ASSUME NEW q \in GridPlaces, NEW m1, NEW p1 PROVE Y!Mirrored(q, m1, p1) \in Values
  <2>1. Y!Off(q) \in Nat \X Nat \X {-1, -2}
    BY DEF GridPlaces, Y!Off, WideGrid
  <2> QED BY <1>1, <2>1 DEF Y!Mirrored, Values
<1> QED BY <1>1, <1>2, <1>3, <1>4

\* The boundary kernels of the sweep in y store into the first and the last row.
LEMMA EdgesY ==
  ASSUME WideGrid, NEW a
  PROVE  /\ Placed(Y!ReconstructGradientYBoundary(a), "cell", (0 .. nx - 1) \X {0, ny - 1})
         /\ Placed(Y!ReconstructFluxOrder2YBoundary(a), "facey", (0 .. nx - 1) \X {0, ny})
         /\ Placed(Y!ReconstructGradientNodalYBoundary(a), "node", (0 .. nx) \X {0, ny})
<1>1. /\ nx \in Nat /\ ny \in Nat /\ nx > 1 /\ ny > 1 /\ nx - 1 \in Nat
      /\ \A ix \in 0 .. nx - 1 : ix \in Nat /\ ix \in 0 .. nx
      /\ \A ix \in 0 .. nx : ix \in Nat
      /\ 0 \in 0 .. ny /\ ny \in 0 .. ny /\ ny - 1 \in 0 .. ny
  BY DEF WideGrid
<1>2. /\ \A x \in 0 .. nx, y \in 0 .. ny : <<x, y>> \in GridPlaces
      /\ \A x, y, C, R : x \in C /\ y \in R => <<x, y>> \in C \X R
  BY DEF GridPlaces
<1>4. /\ \A ix, iy : At("cell", <<ix, iy>>) = Y!CellAt(ix, iy, nx)
      /\ \A ix \in 0 .. nx - 1 : At("facey", <<ix, 0>>) = Y!FirstFace(ix) /\ At("facey", <<ix, ny>>) = Y!LastFace(ix)
      /\ \A ix, iy : At("node", <<ix, iy>>) = Y!NodeAt(ix, iy, nx)
      /\ \A ix \in 0 .. nx : At("node", <<ix, 0>>) = ix
  BY <1>1 DEF At, StaggeredX, CellAt, NodeAt, Y!FirstFace, Y!LastFace, Y!NodeAt, Y!CellAt
<1>5. \A p, k, v : v \in Values => Put(<<At(k, p), v>>, k, p)
  BY DEF Put
<1>6. \A S, k : Placed({}, k, S)
  BY DEF Placed
<1>7. Placed(Y!ReconstructGradientYBoundary(a), "cell", (0 .. nx - 1) \X {0, ny - 1})
  <2> DEFINE S == (0 .. nx - 1) \X {0, ny - 1}
  <2>3. \A ix \in 0 .. nx - 1 : /\ <<ix, 0>> \in S /\ <<ix, ny - 1>> \in S
                                /\ <<ix, 0>> \in GridPlaces /\ <<ix, ny - 1>> \in GridPlaces
    BY <1>1, <1>2
  <2> HIDE DEF S
  <2>1. Placed(Y!ReconstructGradientYPeriodicBoundary(a), "cell", S)
    <3> SUFFICES ASSUME NEW s \in Y!ReconstructGradientYPeriodicBoundary(a)
                 PROVE  \E p \in S : Put(s, "cell", p)
      BY DEF Placed
    <3>1. PICK ix \in 0 .. nx - 1 :
            \E reads : \/ s = <<Y!CellAt(ix, 0, nx), Y!Computed("cell", <<ix, 0>>, reads)>>
                       \/ s = <<Y!CellAt(ix, ny - 1, nx), Y!Computed("cell", <<ix, ny - 1>>, reads)>>
      BY Zenon DEF Y!ReconstructGradientYPeriodicBoundary, Y!GradientAt
    <3> QED BY <1>4, <1>5, <2>3, <3>1, ComputedInY
  <2>2. Placed(Y!ReconstructGradientYBoundaryRt(a), "cell", S)
    <3> SUFFICES ASSUME NEW s \in Y!ReconstructGradientYBoundaryRt(a)
                 PROVE  \E p \in S : Put(s, "cell", p)
      BY DEF Placed
    <3>1. PICK ix \in 0 .. nx - 1 :
            \E m1, p1 : \/ s = <<Y!CellAt(ix, 0, nx), Y!Mirrored(<<ix, 0>>, m1, p1)>>
                        \/ s = <<Y!CellAt(ix, ny - 1, nx), Y!Mirrored(<<ix, ny - 1>>, m1, p1)>>
      BY Zenon DEF Y!ReconstructGradientYBoundaryRt
    <3> QED BY <1>4, <1>5, <2>3, <3>1, ComputedInY
  <2>4. Placed(Y!ReconstructGradientYBoundary(a), "cell", S)
    BY <1>6, <2>1, <2>2 DEF Y!ReconstructGradientYBoundary
  <2> QED BY <2>4 DEF S
<1>8. Placed(Y!ReconstructFluxOrder2YBoundary(a), "facey", (0 .. nx - 1) \X {0, ny})
  <2>1. Placed(Y!ReconstructFluxOrder2YPeriodicBoundary(a), "facey", (0 .. nx - 1) \X {0, ny})
    <3> SUFFICES ASSUME NEW s \in Y!ReconstructFluxOrder2YPeriodicBoundary(a)
                 PROVE  \E p \in (0 .. nx - 1) \X {0, ny} : Put(s, "facey", p)
      BY DEF Placed
    <3>1. PICK c \in Y!SeamFaces : \E f \in c.to : s = <<f, Y!Computed("facey", c.at, Y!FluxReads(a, c))>>
      BY DEF Y!ReconstructFluxOrder2YPeriodicBoundary, Y!Fluxes
    <3>2. PICK ix \in 0 .. nx - 1 : c.at = <<ix, 0>> /\ c.to = {Y!FirstFace(ix), Y!LastFace(ix)}
      BY DEF Y!SeamFaces, Y!Crossing
    <3>3. /\ <<ix, 0>> \in (0 .. nx - 1) \X {0, ny} /\ <<ix, ny>> \in (0 .. nx - 1) \X {0, ny}
          /\ <<ix, 0>> \in GridPlaces
      BY <1>1, <1>2
    <3> QED BY <1>4, <1>5, <3>1, <3>2, <3>3, ComputedInY
  <2>2. Placed(Y!ReconstructFluxOrder2YWallBoundary(a), "facey", (0 .. nx - 1) \X {0, ny})
    <3> SUFFICES ASSUME NEW s \in Y!ReconstructFluxOrder2YWallBoundary(a)
                 PROVE  \E p \in (0 .. nx - 1) \X {0, ny} : Put(s, "facey", p)
      BY DEF Placed
    <3>1. PICK ix \in 0 .. nx - 1 : s = <<Y!FirstFace(ix), Y!Zero>> \/ s = <<Y!LastFace(ix), Y!Zero>>
      BY DEF Y!ReconstructFluxOrder2YWallBoundary
    <3>2. <<ix, 0>> \in (0 .. nx - 1) \X {0, ny} /\ <<ix, ny>> \in (0 .. nx - 1) \X {0, ny}
      BY <1>2
    <3> QED BY <1>4, <1>5, <3>1, <3>2, ComputedInY
  <2> QED BY <2>1, <2>2 DEF Y!ReconstructFluxOrder2YBoundary, Y!ReconstructFluxOrder2YBoundaryRt
<1>9. Placed(Y!ReconstructGradientNodalYBoundary(a), "node", (0 .. nx) \X {0, ny})
  <2> DEFINE S == (0 .. nx) \X {0, ny}
  <2>3. \A ix \in 0 .. nx : /\ <<ix, 0>> \in S /\ <<ix, ny>> \in S
                            /\ <<ix, 0>> \in GridPlaces /\ <<ix, ny>> \in GridPlaces
    BY <1>1, <1>2
  <2> HIDE DEF S
  <2>1. Placed(Y!ReconstructGradientNodalYPeriodicBoundary(a), "node", S)
    <3> SUFFICES ASSUME NEW s \in Y!ReconstructGradientNodalYPeriodicBoundary(a)
                 PROVE  \E p \in S : Put(s, "node", p)
      BY DEF Placed
    <3>1. PICK ix \in 0 .. nx :
            \E reads : \/ s = <<ix, Y!Computed("node", <<ix, 0>>, reads)>>
                       \/ s = <<Y!NodeAt(ix, ny, nx), Y!Computed("node", <<ix, ny>>, reads)>>
      BY Zenon DEF Y!ReconstructGradientNodalYPeriodicBoundary, Y!NodalGradientAt
    <3> QED BY <1>4, <1>5, <2>3, <3>1, ComputedInY
  <2>2. Placed(Y!ReconstructGradientNodalYBoundaryRt(a), "node", S)
    <3> SUFFICES ASSUME NEW s \in Y!ReconstructGradientNodalYBoundaryRt(a)
                 PROVE  \E p \in S : Put(s, "node", p)
      BY DEF Placed
    <3>1. PICK ix \in 0 .. nx :
            \E m1, p1 : \/ s = <<ix, Y!Mirrored(<<ix, 0>>, m1, p1)>>
                        \/ s = <<Y!NodeAt(ix, ny, nx), Y!Mirrored(<<ix, ny>>, m1, p1)>>
      BY Zenon DEF Y!ReconstructGradientNodalYBoundaryRt
    <3> QED BY <1>4, <1>5, <2>3, <3>1, ComputedInY
  <2>4. Placed(Y!ReconstructGradientNodalYBoundary(a), "node", S)
    BY <1>6, <2>1, <2>2 DEF Y!ReconstructGradientNodalYBoundary
  <2> QED BY <2>4 DEF S
<1> QED BY <1>7, <1>8, <1>9

\* The boundary stencils of the sweep in y, with walls or without, are those of edges.
LEMMA EdgeStencilsY ==
  ASSUME WideGrid
  PROVE  /\ \A a : \A s \in Y!BoundaryStencils(a) : EdgeStencil(s)
         /\ \A s \in Y!PeriodicSides \cup Y!PeriodicEnds \cup {Y!PeriodicCorner} : EdgeStencil(s)
         /\ \A s \in Y!ProjectNodalIntensiveVariableOrder2UxYWallBoundary : EdgeStencil(s)
         /\ \A s \in Y!ProjectNodalIntensiveVariableOrder2UyYWallBoundary : EdgeStencil(s)
<1>1. \A s \in Y!PeriodicSides \cup Y!PeriodicEnds \cup {Y!PeriodicCorner} : EdgeStencil(s)
  BY SeamStencils, StencilsY
<1>2. \A at, to, m1, node, p1, cells, faces :
        /\ Y!Stencil(at, to, m1, node, p1, cells, faces).at = at
        /\ Y!Stencil(at, to, m1, node, p1, cells, faces).to = to
  BY DEF Y!Stencil
<1>3. ASSUME NEW ix \in 0 .. nx, NEW iy \in 0 .. ny, ix \in {0, nx} \/ iy \in {0, ny},
             NEW m1, NEW n, NEW p1, NEW cells, NEW faces
      PROVE  EdgeStencil(Y!Stencil(<<ix, iy>>, {Y!NodeAt(ix, iy, nx)}, m1, n, p1, cells, faces))
  <2>1. /\ <<ix, iy>> \in GridPlaces /\ <<ix, iy>> \in EdgeNodes
        /\ Y!NodeAt(ix, iy, nx) = At("node", <<ix, iy>>)
    BY <1>3, NodesOfEdges, SameMapsY
  <2> QED BY <1>2, <2>1 DEF EdgeStencil
<1>4. /\ \A ix \in 1 .. nx - 1 : ix \in 0 .. nx
      /\ \A iy \in Inner : iy \in 0 .. ny
      /\ 0 \in 0 .. nx /\ nx \in 0 .. nx /\ 0 \in 0 .. ny /\ ny \in 0 .. ny /\ Y!Inner = Inner
  BY SameGridY DEF Inner, WideGrid
<1>5. ASSUME NEW s \in Y!ProjectNodalIntensiveVariableOrder2UxYWallBoundary PROVE EdgeStencil(s)
  <2>1. PICK ix \in 1 .. nx - 1 : \E m1, n, p1, cells, faces :
          \/ s = Y!Stencil(<<ix, 0>>, {Y!NodeAt(ix, 0, nx)}, m1, n, p1, cells, faces)
          \/ s = Y!Stencil(<<ix, ny>>, {Y!NodeAt(ix, ny, nx)}, m1, n, p1, cells, faces)
    BY Zenon DEF Y!ProjectNodalIntensiveVariableOrder2UxYWallBoundary
  <2> QED BY <1>3, <1>4, <2>1
<1>6. ASSUME NEW s \in Y!ProjectNodalIntensiveVariableOrder2UyYWallBoundary PROVE EdgeStencil(s)
  <2>1. PICK iy \in Inner : \E m1, n, p1, cells, faces :
          \/ s = Y!Stencil(<<0, iy>>, {Y!NodeAt(0, iy, nx)}, m1, n, p1, cells, faces)
          \/ s = Y!Stencil(<<nx, iy>>, {Y!NodeAt(nx, iy, nx)}, m1, n, p1, cells, faces)
    BY <1>4, Zenon DEF Y!ProjectNodalIntensiveVariableOrder2UyYWallBoundary
  <2> QED BY <1>3, <1>4, <2>1
<1>7. \A a : \A s \in Y!BoundaryStencils(a) : EdgeStencil(s)
  BY <1>1, <1>5, <1>6 DEF Y!BoundaryStencils, Y!ProjectNodalIntensiveVariableOrder2YBoundaryRt,
                          Y!ProjectNodalIntensiveVariableOrder2YPeriodicBoundary
<1> QED BY <1>1, <1>5, <1>6, <1>7

\* The boundary kernel of the nodal projection in y stores into the nodes of the edges.
LEMMA NodalEdgeY ==
  ASSUME WideGrid, NEW a
  PROVE  Placed(Y!ProjectNodalIntensiveVariableOrder2YBoundary(a), "node", EdgeNodes)
<1> SUFFICES ASSUME NEW s \in Y!ProjectNodalIntensiveVariableOrder2YBoundary(a)
             PROVE  \E p \in EdgeNodes : Put(s, "node", p)
  BY DEF Placed
<1>1. CASE s \in Y!Projected(a, Y!BoundaryStencils(a))
  <2>1. PICK t \in Y!BoundaryStencils(a) : \E n \in t.to : s = <<n, Y!ProjectedAt(a, t)>>
    BY <1>1 DEF Y!Projected
  <2>2. Y!ProjectedAt(a, t) \in Values
    BY EdgeStencilsY, ComputedInY DEF EdgeStencil, Y!ProjectedAt
  <2> QED BY <2>1, <2>2, EdgeStencilsY DEF EdgeStencil, Put
<1>2. CASE s \in UNION {{<<n, Y!Off(Y!Fold("node", t.at))>> : n \in t.to} : t \in Y!BoundaryStencils(a)}
  <2>1. PICK t \in Y!BoundaryStencils(a) : \E n \in t.to : s = <<n, Y!Off(Y!Fold("node", t.at))>>
    BY <1>2
  <2>2. Y!Off(Y!Fold("node", t.at)) \in Values
    BY EdgeStencilsY, ComputedInY DEF EdgeStencil
  <2> QED BY <2>1, <2>2, EdgeStencilsY DEF EdgeStencil, Put
<1>3. CASE s \in Y!Zeros(Y!BoundaryZeros(a))
  <2>1. Y!CornerNodes = CornerNodes /\ Y!Ends = Ends /\ Y!Sides = Sides
    BY SameGridY, SameMapsY DEF Y!CornerNodes, CornerNodes, Y!Ends, Ends, Y!Sides, Sides
  <2>2. PICK n \in CornerNodes \cup Sides \cup Ends : s = <<n, Y!Zero>>
    BY <1>3, <2>1 DEF Y!Zeros, Y!BoundaryZeros
  <2> QED BY <2>2, NodesOfEdges, ComputedInY DEF Put
<1> QED BY <1>1, <1>2, <1>3 DEF Y!ProjectNodalIntensiveVariableOrder2YBoundary

-----------------------------------------------------------------------------
\* Stores of values of the model, wherever they go.
Valued(stores) == \A s \in stores : s[2] \in Values

\* What is stored into the elements of places is a value of the model.
LEMMA PlacedIsValued == \A stores, k, S : Placed(stores, k, S) => Valued(stores)
  BY DEF Placed, Put, Valued

\* An array of values of the model stays one, whatever the kernel's stores of such values.
LEMMA StoredValues ==
  ASSUME NEW f, \A i \in DOMAIN f : f[i] \in Values, NEW stores, Valued(stores)
  PROVE  \A i \in DOMAIN f : Stored(f, stores)[i] \in Values
<1>1. Garbage \in Values
  BY DEF Values
<1> SUFFICES ASSUME NEW i \in DOMAIN f PROVE Stored(f, stores)[i] \in Values
  OBVIOUS
<1> DEFINE vs == {s[2] : s \in {t \in stores : t[1] = i}}
<1>2. \A v \in vs : v \in Values
  BY DEF Valued
<1>3. Stored(f, stores)[i] \in {Garbage, f[i]} \/ (vs # {} /\ Stored(f, stores)[i] = CHOOSE v \in vs : TRUE)
  BY DEF Stored
<1> HIDE DEF vs
<1>4. vs # {} => (CHOOSE v \in vs : TRUE) \in vs
  OBVIOUS
<1> QED BY <1>1, <1>2, <1>3, <1>4
=============================================================================
