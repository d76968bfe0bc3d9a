-------------------------- MODULE HydroStep_proofs --------------------------
(***************************************************************************)
(* What a time step conserves, and where its kernels store, for every size *)
(* of grid, any order of the rows and each boundary condition.  Checked by *)
(* TLAPS.                                                                  *)
(*                                                                         *)
(* Mass and energy depend on the arrays of fluxes alone: what is stored    *)
(* into a face tells the face it was computed for, whichever values were   *)
(* read.  The stores are inside the array that they are given: a loop's in *)
(* its own row, a boundary kernel's on the edges.  From it, the type       *)
(* invariant of the time step; and, for the driver of both directions,     *)
(* that each element is stored once.                                       *)
(***************************************************************************)
EXTENDS LagrangeStep_proofs

-----------------------------------------------------------------------------
KernelsX ==
  \/ Kernel("volume_flux", {"volume_fluxes_x"}, "lagrangian", CellRows)
  \/ Kernel("lagrangian", {"lag_volume", "lag_density"}, "gradient_density", CellRows)
  \/ Kernel("gradient_density", {"density_gradient"}, "gradient_density_boundary", {})
  \/ Kernel("gradient_density_boundary", {"density_gradient"}, "flux_mass", CellRows)
  \/ Kernel("flux_mass", {"mass_flux_x"}, "flux_mass_boundary", {})
  \/ Kernel("flux_mass_boundary", {"mass_flux_x"}, "mass", CellRows)
  \/ Kernel("mass", {"out_mass"}, "gradient_energy", CellRows)
  \/ Kernel("gradient_energy", {"energy_gradient"}, "gradient_energy_boundary", {})
  \/ Kernel("gradient_energy_boundary", {"energy_gradient"}, "flux_energy", CellRows)
  \/ Kernel("flux_energy", {"energy_flux_x"}, "flux_energy_boundary", {})
  \/ Kernel("flux_energy_boundary", {"energy_flux_x"}, "energy", CellRows)
  \/ Kernel("energy", {"out_e"}, "density", CellRows)
  \/ Kernel("density", {"out_rho"}, "gradient_u", NodeRows)
  \/ Kernel("gradient_u", {"gradient_u"}, "gradient_u_boundary", {})
  \/ Kernel("gradient_u_boundary", {"gradient_u"}, "project_ux", Inner)
  \/ Kernel("project_ux", {"out_u"}, "project_ux_boundary", {})
  \/ Kernel("project_ux_boundary", {"out_u"}, "gradient_v", NodeRows)
  \/ Kernel("gradient_v", {"gradient_v"}, "gradient_v_boundary", {})
  \/ Kernel("gradient_v_boundary", {"gradient_v"}, "project_uy", Inner)
  \/ Kernel("project_uy", {"out_v"}, "project_uy_boundary", {})
  \/ Kernel("project_uy_boundary", {"out_v"}, "done", {})

LEMMA StepsX == X!Next => KernelsX
<1> SUFFICES ASSUME X!Next PROVE KernelsX
  OBVIOUS
<1>1. /\ \A f, stores : DOMAIN X!Stored(f, stores) = DOMAIN f
      /\ X!CellRows = CellRows /\ X!NodeRows = NodeRows /\ X!Inner = Inner
  BY StoredKeeps, SameStoresX, SameGridX DEF X!NodeRows, NodeRows
<1>2. CASE X!ComputeDirectionalLagrangianQuantitiesX
  BY <1>1, <1>2 DEF X!ComputeDirectionalLagrangianQuantitiesX, X!RowOf, X!RowDone, Kernel, Keeps, SameSize, KernelsX
<1>3. CASE X!Gradient
  BY <1>1, <1>3 DEF X!Gradient, X!RowOf, X!RowDone, Kernel, Keeps, SameSize, KernelsX
<1>4. CASE X!GradientBoundary
  BY <1>1, <1>4 DEF X!GradientBoundary, X!BoundaryOf, Kernel, Keeps, SameSize, KernelsX
<1>5. CASE X!Flux
  BY <1>1, <1>5 DEF X!Flux, X!RowOf, X!RowDone, Kernel, Keeps, SameSize, KernelsX
<1>6. CASE X!FluxBoundary
  BY <1>1, <1>6 DEF X!FluxBoundary, X!BoundaryOf, Kernel, Keeps, SameSize, KernelsX
<1>7. CASE X!Balance
  BY <1>1, <1>7 DEF X!Balance, X!RowOf, X!RowDone, Kernel, Keeps, SameSize, KernelsX
<1>8. CASE X!NodalGradient
  BY <1>1, <1>8 DEF X!NodalGradient, X!RowOf, X!RowDone, Kernel, Keeps, SameSize, KernelsX
<1>9. CASE X!NodalGradientBoundary
  BY <1>1, <1>9 DEF X!NodalGradientBoundary, X!BoundaryOf, Kernel, Keeps, SameSize, KernelsX
<1>10. CASE X!NodalBalance
  BY <1>1, <1>10 DEF X!NodalBalance, X!RowOf, X!RowDone, Kernel, Keeps, SameSize, KernelsX
<1>11. CASE X!NodalBalanceBoundary
  BY <1>1, <1>11 DEF X!NodalBalanceBoundary, X!BoundaryOf, Kernel, Keeps, SameSize, KernelsX
<1> QED BY <1>2, <1>3, <1>4, <1>5, <1>6, <1>7, <1>8, <1>9, <1>10, <1>11 DEF X!Next

KernelsY ==
  \/ Kernel("volume_flux", {"volume_fluxes_y"}, "lagrangian", CellRows)
  \/ Kernel("lagrangian", {"lag_volume_y", "lag_density_y"}, "gradient_density", 1 .. ny - 2)
  \/ Kernel("gradient_density", {"density_gradient_y"}, "gradient_density_boundary", {})
  \/ Kernel("gradient_density_boundary", {"density_gradient_y"}, "flux_mass", Inner)
  \/ Kernel("flux_mass", {"mass_flux_y"}, "flux_mass_boundary", {})
  \/ Kernel("flux_mass_boundary", {"mass_flux_y"}, "mass", CellRows)
  \/ Kernel("mass", {"out_mass"}, "density", CellRows)
  \/ Kernel("density", {"out_rho"}, "gradient_energy", 1 .. ny - 2)
  \/ Kernel("gradient_energy", {"energy_gradient_y"}, "gradient_energy_boundary", {})
  \/ Kernel("gradient_energy_boundary", {"energy_gradient_y"}, "flux_energy", Inner)
  \/ Kernel("flux_energy", {"energy_flux_y"}, "flux_energy_boundary", {})
  \/ Kernel("flux_energy_boundary", {"energy_flux_y"}, "energy", CellRows)
  \/ Kernel("energy", {"out_e"}, "gradient_u", Inner)
  \/ Kernel("gradient_u", {"gradient_u_y"}, "gradient_u_boundary", {})
  \/ Kernel("gradient_u_boundary", {"gradient_u_y"}, "project_ux", Inner)
  \/ Kernel("project_ux", {"out_u"}, "project_ux_boundary", {})
  \/ Kernel("project_ux_boundary", {"out_u"}, "gradient_v", Inner)
  \/ Kernel("gradient_v", {"gradient_v_y"}, "gradient_v_boundary", {})
  \/ Kernel("gradient_v_boundary", {"gradient_v_y"}, "project_uy", Inner)
  \/ Kernel("project_uy", {"out_v"}, "project_uy_boundary", {})
  \/ Kernel("project_uy_boundary", {"out_v"}, "done", {})

LEMMA StepsY == Y!Next => KernelsY
<1> SUFFICES ASSUME Y!Next PROVE KernelsY
  OBVIOUS
<1>1. /\ \A f, stores : DOMAIN Y!Stored(f, stores) = DOMAIN f
      /\ Y!CellRows = CellRows /\ Y!NodeRows = NodeRows /\ Y!Inner = Inner
  BY StoredKeeps, SameStoresY, SameGridY DEF Y!NodeRows, NodeRows
<1>2. CASE Y!ComputeDirectionalLagrangianQuantitiesY
  BY <1>1, <1>2 DEF Y!ComputeDirectionalLagrangianQuantitiesY, Y!RowOf, Y!RowDone, Kernel, Keeps, SameSize, KernelsY
<1>3. CASE Y!Gradient
  BY <1>1, <1>3 DEF Y!Gradient, Y!RowOf, Y!RowDone, Kernel, Keeps, SameSize, KernelsY
<1>4. CASE Y!GradientBoundary
  BY <1>1, <1>4 DEF Y!GradientBoundary, Y!BoundaryOf, Kernel, Keeps, SameSize, KernelsY
<1>5. CASE Y!Flux
  BY <1>1, <1>5 DEF Y!Flux, Y!RowOf, Y!RowDone, Kernel, Keeps, SameSize, KernelsY
<1>6. CASE Y!FluxBoundary
  BY <1>1, <1>6 DEF Y!FluxBoundary, Y!BoundaryOf, Kernel, Keeps, SameSize, KernelsY
<1>7. CASE Y!Balance
  BY <1>1, <1>7 DEF Y!Balance, Y!RowOf, Y!RowDone, Kernel, Keeps, SameSize, KernelsY
<1>8. CASE Y!NodalGradient
  BY <1>1, <1>8 DEF Y!NodalGradient, Y!RowOf, Y!RowDone, Kernel, Keeps, SameSize, KernelsY
<1>9. CASE Y!NodalGradientBoundary
  BY <1>1, <1>9 DEF Y!NodalGradientBoundary, Y!BoundaryOf, Kernel, Keeps, SameSize, KernelsY
<1>10. CASE Y!NodalBalance
  BY <1>1, <1>10 DEF Y!NodalBalance, Y!RowOf, Y!RowDone, Kernel, Keeps, SameSize, KernelsY
<1>11. CASE Y!NodalBalanceBoundary
  BY <1>1, <1>11 DEF Y!NodalBalanceBoundary, Y!BoundaryOf, Kernel, Keeps, SameSize, KernelsY
<1> QED BY <1>2, <1>3, <1>4, <1>5, <1>6, <1>7, <1>8, <1>9, <1>10, <1>11 DEF Y!Next

\* The kernels of the fluxes do what their stages ask.
LEMMA FluxKernelsX ==
  ASSUME WideGrid, X!Next, MassAndEnergyX \subseteq DOMAIN mem,
         \A a \in MassAndEnergyX : DOMAIN mem[a] = 0 .. Size("facex") - 1
  PROVE  /\ pc = "flux_mass" => FluxLoop("mass_flux_x", "flux_mass", "flux_mass_boundary")
         /\ pc = "flux_energy" => FluxLoop("energy_flux_x", "flux_energy", "flux_energy_boundary")
         /\ pc = "flux_mass_boundary" => FluxEdge("mass_flux_x", "mass")
         /\ pc = "flux_energy_boundary" => FluxEdge("energy_flux_x", "energy")
<1> DEFINE k == "facex"
<1>1. \A a \in MassAndEnergyX : KindOf(a) = k /\ a \in DOMAIN mem
  BY FluxKindsX
<1>2. FaceRows(k) = CellRows
  BY DEF FaceRows
<1>3. \A a \in MassAndEnergyX : \A iy \in CellRows : \A rows :
        FluxesOn(mem[a], k, FacesOf(k, rows)) =>
        FluxesOn(X!Stored(mem[a], X!ReconstructFluxOrder2X(a, iy)), k, FacesOf(k, rows \cup {iy}))
  BY FluxRowX
<1>4. \A a \in MassAndEnergyX :
        FluxesOn(mem[a], k, FacesOf(k, CellRows)) =>
        Complete(X!Stored(mem[a], X!ReconstructFluxOrder2XBoundary(a)), k)
  BY FluxEdgeX
<1> HIDE DEF k
<1>5. "mass_flux_x" \in MassAndEnergyX /\ "energy_flux_x" \in MassAndEnergyX
  BY DEF MassAndEnergyX
<1>6. ASSUME pc = "flux_mass" PROVE FluxLoop("mass_flux_x", "flux_mass", "flux_mass_boundary")
  <2>1. X!RowOf({"mass_flux_x"}, X!ReconstructFluxOrder2X, "flux_mass_boundary", {})
    BY <1>6 DEF X!Next, X!ComputeDirectionalLagrangianQuantitiesX, X!Gradient, X!GradientBoundary, X!Flux,
                X!FluxBoundary, X!Balance, X!NodalGradient, X!NodalGradientBoundary, X!NodalBalance,
                X!NodalBalanceBoundary
  <2> QED BY <1>1, <1>2, <1>3, <1>5, <1>6, <2>1 DEF X!RowOf, X!RowDone, FluxLoop
<1>7. ASSUME pc = "flux_energy" PROVE FluxLoop("energy_flux_x", "flux_energy", "flux_energy_boundary")
  <2>1. X!RowOf({"energy_flux_x"}, X!ReconstructFluxOrder2X, "flux_energy_boundary", {})
    BY <1>7 DEF X!Next, X!ComputeDirectionalLagrangianQuantitiesX, X!Gradient, X!GradientBoundary, X!Flux,
                X!FluxBoundary, X!Balance, X!NodalGradient, X!NodalGradientBoundary, X!NodalBalance,
                X!NodalBalanceBoundary
  <2> QED BY <1>1, <1>2, <1>3, <1>5, <1>7, <2>1 DEF X!RowOf, X!RowDone, FluxLoop
<1>8. ASSUME pc = "flux_mass_boundary" PROVE FluxEdge("mass_flux_x", "mass")
  <2>1. X!BoundaryOf({"mass_flux_x"}, X!ReconstructFluxOrder2XBoundary, "mass", X!CellRows)
    BY <1>8 DEF X!Next, X!ComputeDirectionalLagrangianQuantitiesX, X!Gradient, X!GradientBoundary, X!Flux,
                X!FluxBoundary, X!Balance, X!NodalGradient, X!NodalGradientBoundary, X!NodalBalance,
                X!NodalBalanceBoundary
  <2> QED BY <1>1, <1>2, <1>4, <1>5, <2>1 DEF X!BoundaryOf, FluxEdge
<1>9. ASSUME pc = "flux_energy_boundary" PROVE FluxEdge("energy_flux_x", "energy")
  <2>1. X!BoundaryOf({"energy_flux_x"}, X!ReconstructFluxOrder2XBoundary, "energy", X!CellRows)
    BY <1>9 DEF X!Next, X!ComputeDirectionalLagrangianQuantitiesX, X!Gradient, X!GradientBoundary, X!Flux,
                X!FluxBoundary, X!Balance, X!NodalGradient, X!NodalGradientBoundary, X!NodalBalance,
                X!NodalBalanceBoundary
  <2> QED BY <1>1, <1>2, <1>4, <1>5, <2>1 DEF X!BoundaryOf, FluxEdge
<1> QED BY <1>6, <1>7, <1>8, <1>9

\* The kernels of a sweep before which the fluxes of mass are complete.
UKnown == {"gradient_v", "gradient_v_boundary", "project_uy", "project_uy_boundary", "done"}
MassKnown == {"mass", "gradient_energy", "gradient_energy_boundary", "flux_energy", "flux_energy_boundary",
              "energy", "density", "gradient_u", "gradient_u_boundary", "project_ux",
              "project_ux_boundary"} \cup UKnown

SweepFluxes(mass, energy) ==
  /\ FluxStage(mass, "flux_mass", {"flux_mass_boundary"}, MassKnown)
  /\ FluxStage(energy, "flux_energy", {"flux_energy_boundary"}, {"energy"})

LEMMA SweepFluxesX ==
  ASSUME WideGrid, X!Next, MassAndEnergyX \subseteq DOMAIN mem,
         \A a \in MassAndEnergyX : DOMAIN mem[a] = 0 .. Size("facex") - 1,
         SweepFluxes("mass_flux_x", "energy_flux_x")
  PROVE  SweepFluxes("mass_flux_x", "energy_flux_x")'
<1> DEFINE m == "mass_flux_x"
           e == "energy_flux_x"
           massStage == FluxStage(m, "flux_mass", {"flux_mass_boundary"}, MassKnown)
           energyStage == FluxStage(e, "flux_energy", {"flux_energy_boundary"}, {"energy"})
<1>1. KernelsX /\ m \in DOMAIN mem /\ e \in DOMAIN mem
  BY StepsX DEF MassAndEnergyX
<1>2. SameSize
  BY <1>1 DEF KernelsX, Kernel, Keeps
<1>3. FaceRows(KindOf(m)) = CellRows /\ FaceRows(KindOf(e)) = CellRows
  BY FluxKindsX DEF FaceRows, MassAndEnergyX
<1>4. massStage'
  <2>1. CASE pc = "flux_mass"
    <3>1. FluxLoop(m, "flux_mass", "flux_mass_boundary")
      BY <2>1, FluxKernelsX
    <3> QED BY <1>2, <3>1, StageLoop DEF SweepFluxes, MassKnown, UKnown
  <2>2. CASE pc = "flux_mass_boundary"
    <3>1. FluxEdge(m, "mass")
      BY <2>2, FluxKernelsX
    <3>2. "mass" # "flux_mass" /\ "mass" \notin {"flux_mass_boundary"} /\ pc \in {"flux_mass_boundary"}
      BY <2>2
    <3> DEFINE edges == {"flux_mass_boundary"}
    <3> HIDE DEF edges
    <3>3. \A after : FluxStage(m, "flux_mass", edges, after) => FluxStage(m, "flux_mass", edges, after)'
      BY <1>2, <3>1, <3>2, StageEdge DEF edges
    <3> QED BY <3>3 DEF SweepFluxes, MassKnown, UKnown, edges
  <2>3. CASE pc \notin {"flux_mass", "flux_mass_boundary"}
    <3>1. /\ mem'[m] = mem[m] /\ pc' # "flux_mass_boundary"
          /\ pc' = "flux_mass" => pc # "flux_mass" /\ todo' = CellRows
          /\ pc' \in MassKnown => pc \in MassKnown
      BY <1>1, <2>3 DEF KernelsX, Kernel, Keeps, MassKnown, UKnown
    <3> QED BY <1>2, <1>3, <3>1, StageAside DEF SweepFluxes, MassKnown, UKnown
  <2> QED BY <2>1, <2>2, <2>3
<1>5. energyStage'
  <2>1. CASE pc = "flux_energy"
    <3>1. FluxLoop(e, "flux_energy", "flux_energy_boundary")
      BY <2>1, FluxKernelsX
    <3> QED BY <1>2, <3>1, StageLoop DEF SweepFluxes
  <2>2. CASE pc = "flux_energy_boundary"
    <3>1. FluxEdge(e, "energy")
      BY <2>2, FluxKernelsX
    <3> QED BY <1>2, <2>2, <3>1, StageEdge DEF SweepFluxes
  <2>3. CASE pc \notin {"flux_energy", "flux_energy_boundary"}
    <3>1. /\ mem'[e] = mem[e] /\ pc' # "flux_energy_boundary"
          /\ pc' = "flux_energy" => pc # "flux_energy" /\ todo' = CellRows
          /\ pc' = "energy" => pc = "energy"
      BY <1>1, <2>3 DEF KernelsX, Kernel, Keeps
    <3> QED BY <1>2, <1>3, <3>1, StageAside DEF SweepFluxes
  <2> QED BY <2>1, <2>2, <2>3
<1> QED BY <1>4, <1>5 DEF SweepFluxes

LEMMA FluxKernelsY ==
  ASSUME WideGrid, Y!Next, MassAndEnergyY \subseteq DOMAIN mem,
         \A a \in MassAndEnergyY : DOMAIN mem[a] = 0 .. Size("facey") - 1
  PROVE  /\ pc = "flux_mass" => FluxLoop("mass_flux_y", "flux_mass", "flux_mass_boundary")
         /\ pc = "flux_energy" => FluxLoop("energy_flux_y", "flux_energy", "flux_energy_boundary")
         /\ pc = "flux_mass_boundary" => FluxEdge("mass_flux_y", "mass")
         /\ pc = "flux_energy_boundary" => FluxEdge("energy_flux_y", "energy")
<1> DEFINE k == "facey"
<1>1. \A a \in MassAndEnergyY : KindOf(a) = k /\ a \in DOMAIN mem
  BY FluxKindsY
<1>2. FaceRows(k) = Inner
  BY DEF FaceRows
<1>3. \A a \in MassAndEnergyY : \A iy \in Inner : \A rows :
        FluxesOn(mem[a], k, FacesOf(k, rows)) =>
        FluxesOn(Y!Stored(mem[a], Y!ReconstructFluxOrder2Y(a, iy)), k, FacesOf(k, rows \cup {iy}))
  BY FluxRowY
<1>4. \A a \in MassAndEnergyY :
        FluxesOn(mem[a], k, FacesOf(k, Inner)) =>
        Complete(Y!Stored(mem[a], Y!ReconstructFluxOrder2YBoundary(a)), k)
  BY FluxEdgeY
<1> HIDE DEF k
<1>5. "mass_flux_y" \in MassAndEnergyY /\ "energy_flux_y" \in MassAndEnergyY
  BY DEF MassAndEnergyY
<1>6. ASSUME pc = "flux_mass" PROVE FluxLoop("mass_flux_y", "flux_mass", "flux_mass_boundary")
  <2>1. Y!RowOf({"mass_flux_y"}, Y!ReconstructFluxOrder2Y, "flux_mass_boundary", {})
    BY <1>6 DEF Y!Next, Y!ComputeDirectionalLagrangianQuantitiesY, Y!Gradient, Y!GradientBoundary, Y!Flux,
                Y!FluxBoundary, Y!Balance, Y!NodalGradient, Y!NodalGradientBoundary, Y!NodalBalance,
                Y!NodalBalanceBoundary
  <2> QED BY <1>1, <1>2, <1>3, <1>5, <1>6, <2>1 DEF Y!RowOf, Y!RowDone, FluxLoop
<1>7. ASSUME pc = "flux_energy" PROVE FluxLoop("energy_flux_y", "flux_energy", "flux_energy_boundary")
  <2>1. Y!RowOf({"energy_flux_y"}, Y!ReconstructFluxOrder2Y, "flux_energy_boundary", {})
    BY <1>7 DEF Y!Next, Y!ComputeDirectionalLagrangianQuantitiesY, Y!Gradient, Y!GradientBoundary, Y!Flux,
                Y!FluxBoundary, Y!Balance, Y!NodalGradient, Y!NodalGradientBoundary, Y!NodalBalance,
                Y!NodalBalanceBoundary
  <2> QED BY <1>1, <1>2, <1>3, <1>5, <1>7, <2>1 DEF Y!RowOf, Y!RowDone, FluxLoop
<1>8. ASSUME pc = "flux_mass_boundary" PROVE FluxEdge("mass_flux_y", "mass")
  <2>1. Y!BoundaryOf({"mass_flux_y"}, Y!ReconstructFluxOrder2YBoundary, "mass", Y!CellRows)
    BY <1>8 DEF Y!Next, Y!ComputeDirectionalLagrangianQuantitiesY, Y!Gradient, Y!GradientBoundary, Y!Flux,
                Y!FluxBoundary, Y!Balance, Y!NodalGradient, Y!NodalGradientBoundary, Y!NodalBalance,
                Y!NodalBalanceBoundary
  <2> QED BY <1>1, <1>2, <1>4, <1>5, <2>1 DEF Y!BoundaryOf, FluxEdge
<1>9. ASSUME pc = "flux_energy_boundary" PROVE FluxEdge("energy_flux_y", "energy")
  <2>1. Y!BoundaryOf({"energy_flux_y"}, Y!ReconstructFluxOrder2YBoundary, "energy", Y!CellRows)
    BY <1>9 DEF Y!Next, Y!ComputeDirectionalLagrangianQuantitiesY, Y!Gradient, Y!GradientBoundary, Y!Flux,
                Y!FluxBoundary, Y!Balance, Y!NodalGradient, Y!NodalGradientBoundary, Y!NodalBalance,
                Y!NodalBalanceBoundary
  <2> QED BY <1>1, <1>2, <1>4, <1>5, <2>1 DEF Y!BoundaryOf, FluxEdge
<1> QED BY <1>6, <1>7, <1>8, <1>9

LEMMA SweepFluxesY ==
  ASSUME WideGrid, Y!Next, MassAndEnergyY \subseteq DOMAIN mem,
         \A a \in MassAndEnergyY : DOMAIN mem[a] = 0 .. Size("facey") - 1,
         SweepFluxes("mass_flux_y", "energy_flux_y")
  PROVE  SweepFluxes("mass_flux_y", "energy_flux_y")'
<1> DEFINE m == "mass_flux_y"
           e == "energy_flux_y"
           massStage == FluxStage(m, "flux_mass", {"flux_mass_boundary"}, MassKnown)
           energyStage == FluxStage(e, "flux_energy", {"flux_energy_boundary"}, {"energy"})
<1>1. KernelsY /\ m \in DOMAIN mem /\ e \in DOMAIN mem
  BY StepsY DEF MassAndEnergyY
<1>2. SameSize
  BY <1>1 DEF KernelsY, Kernel, Keeps
<1>3. FaceRows(KindOf(m)) = Inner /\ FaceRows(KindOf(e)) = Inner
  BY FluxKindsY DEF FaceRows, MassAndEnergyY
<1>4. massStage'
  <2>1. CASE pc = "flux_mass"
    <3>1. FluxLoop(m, "flux_mass", "flux_mass_boundary")
      BY <2>1, FluxKernelsY
    <3> QED BY <1>2, <3>1, StageLoop DEF SweepFluxes, MassKnown, UKnown
  <2>2. CASE pc = "flux_mass_boundary"
    <3>1. FluxEdge(m, "mass")
      BY <2>2, FluxKernelsY
    <3>2. "mass" # "flux_mass" /\ "mass" \notin {"flux_mass_boundary"} /\ pc \in {"flux_mass_boundary"}
      BY <2>2
    <3> DEFINE edges == {"flux_mass_boundary"}
    <3> HIDE DEF edges
    <3>3. \A after : FluxStage(m, "flux_mass", edges, after) => FluxStage(m, "flux_mass", edges, after)'
      BY <1>2, <3>1, <3>2, StageEdge DEF edges
    <3> QED BY <3>3 DEF SweepFluxes, MassKnown, UKnown, edges
  <2>3. CASE pc \notin {"flux_mass", "flux_mass_boundary"}
    <3>1. /\ mem'[m] = mem[m] /\ pc' # "flux_mass_boundary"
          /\ pc' = "flux_mass" => pc # "flux_mass" /\ todo' = Inner
          /\ pc' \in MassKnown => pc \in MassKnown
      BY <1>1, <2>3 DEF KernelsY, Kernel, Keeps, MassKnown, UKnown
    <3> QED BY <1>2, <1>3, <3>1, StageAside DEF SweepFluxes, MassKnown, UKnown
  <2> QED BY <2>1, <2>2, <2>3
<1>5. energyStage'
  <2>1. CASE pc = "flux_energy"
    <3>1. FluxLoop(e, "flux_energy", "flux_energy_boundary")
      BY <2>1, FluxKernelsY
    <3> QED BY <1>2, <3>1, StageLoop DEF SweepFluxes
  <2>2. CASE pc = "flux_energy_boundary"
    <3>1. FluxEdge(e, "energy")
      BY <2>2, FluxKernelsY
    <3> QED BY <1>2, <2>2, <3>1, StageEdge DEF SweepFluxes
  <2>3. CASE pc \notin {"flux_energy", "flux_energy_boundary"}
    <3>1. /\ mem'[e] = mem[e] /\ pc' # "flux_energy_boundary"
          /\ pc' = "flux_energy" => pc # "flux_energy" /\ todo' = Inner
          /\ pc' = "energy" => pc = "energy"
      BY <1>1, <2>3 DEF KernelsY, Kernel, Keeps
    <3> QED BY <1>2, <1>3, <3>1, StageAside DEF SweepFluxes
  <2> QED BY <2>1, <2>2, <2>3
<1> QED BY <1>4, <1>5 DEF SweepFluxes
-----------------------------------------------------------------------------
\* The calls of the driver of both directions, by their numbers.
LEMMA Calls ==
  /\ Len(D!Driver) = 35 /\ DOMAIN D!Driver = 1 .. 35
  /\ D!Driver[1] = Loop({"volume_fluxes_x"})
  /\ D!Driver[2] = Loop({"lag_volume", "lag_density"})
  /\ D!Driver[3] = Loop({"volume_fluxes_y"})
  /\ D!Driver[4] = Loop({"lag_volume_y", "lag_density_y"})
  /\ D!Driver[5] = Loop({"density_gradient"})
  /\ D!Driver[6] = Loop({"density_gradient_y"})
  /\ D!Driver[7] = Boundary({"density_gradient"})
  /\ D!Driver[8] = Boundary({"density_gradient_y"})
  /\ D!Driver[9] = Loop({"mass_flux_x"})
  /\ D!Driver[10] = Loop({"mass_flux_y"})
  /\ D!Driver[11] = Boundary({"mass_flux_x"})
  /\ D!Driver[12] = Boundary({"mass_flux_y"})
  /\ D!Driver[13] = Loop({"out_mass"})
  /\ D!Driver[14] = Loop({"energy_gradient"})
  /\ D!Driver[15] = Loop({"energy_gradient_y"})
  /\ D!Driver[16] = Boundary({"energy_gradient"})
  /\ D!Driver[17] = Boundary({"energy_gradient_y"})
  /\ D!Driver[18] = Loop({"energy_flux_x"})
  /\ D!Driver[19] = Loop({"energy_flux_y"})
  /\ D!Driver[20] = Boundary({"energy_flux_x"})
  /\ D!Driver[21] = Boundary({"energy_flux_y"})
  /\ D!Driver[22] = Loop({"out_e"})
  /\ D!Driver[23] = Loop({"gradient_u"})
  /\ D!Driver[24] = Loop({"gradient_u_y"})
  /\ D!Driver[25] = Boundary({"gradient_u"})
  /\ D!Driver[26] = Boundary({"gradient_u_y"})
  /\ D!Driver[27] = Loop({"out_u"})
  /\ D!Driver[28] = Boundary({"out_u"})
  /\ D!Driver[29] = Loop({"gradient_v"})
  /\ D!Driver[30] = Loop({"gradient_v_y"})
  /\ D!Driver[31] = Boundary({"gradient_v"})
  /\ D!Driver[32] = Boundary({"gradient_v_y"})
  /\ D!Driver[33] = Loop({"out_v"})
  /\ D!Driver[34] = Boundary({"out_v"})
  /\ D!Driver[35] = Loop({"out_rho"})
<1>1. \A outs : D!Loop(outs) = Loop(outs) /\ D!Boundary(outs) = Boundary(outs)
  BY DEF D!Loop, Loop, D!Boundary, Boundary
<1> QED BY <1>1 DEF D!Driver, D!MassCalls, D!EnergyCalls, D!VelocityCalls

\* The number of the call that runs; which arrays it may store into, and what follows.
KernelD(outs) ==
  /\ pc \in 1 .. 35 /\ outs = D!Driver[pc].outs /\ Keeps(outs)
  /\ \/ pc' = pc + 1 /\ todo' = D!RowsFor(D!Driver, pc + 1, D!Rows)
     \/ pc' = pc /\ todo' \subseteq todo

LEMMA SameStoresD ==
  /\ \A f, stores : D!Stored(f, stores) = Stored(f, stores)
  /\ D!CellRows = CellRows /\ D!NodeRows = NodeRows /\ D!Inner = Inner
<1>1. D!Garbage = Garbage
  BY DEF D!Garbage, Garbage
<1> QED BY <1>1 DEF D!Stored, Stored, D!CellRows, CellRows, D!NodeRows, NodeRows, D!Inner, Inner

LEMMA StepsD == D!Next => \E outs : KernelD(outs)
<1> SUFFICES ASSUME D!Next PROVE KernelD(D!Driver[pc].outs)
  OBVIOUS
<1>1. \A f, stores : DOMAIN D!Stored(f, stores) = DOMAIN f
  BY StoredKeeps, SameStoresD
<1>2. DOMAIN D!Driver = 1 .. 35
  BY Calls
<1>3. CASE D!Row
  BY <1>1, <1>2, <1>3 DEF D!Row, D!LoopRow, D!RowOf, D!RowDone, KernelD, Keeps, SameSize
<1>4. CASE D!Edge
  BY <1>1, <1>2, <1>4 DEF D!Edge, D!BoundaryCall, D!BoundaryOf, KernelD, Keeps, SameSize
<1> QED BY <1>3, <1>4 DEF D!Next

\* The rows that the loops of fluxes, and those of the balances of the nodes, take.
LEMMA RowsD ==
  /\ D!RowsFor(D!Driver, 9, D!Rows) = CellRows /\ D!RowsFor(D!Driver, 10, D!Rows) = Inner
  /\ D!RowsFor(D!Driver, 18, D!Rows) = CellRows /\ D!RowsFor(D!Driver, 19, D!Rows) = Inner
  /\ D!RowsFor(D!Driver, 27, D!Rows) = Inner /\ D!RowsFor(D!Driver, 33, D!Rows) = Inner
<1>1. /\ D!Rows(Loop({"mass_flux_x"})) = CellRows /\ D!Rows(Loop({"mass_flux_y"})) = Inner
      /\ D!Rows(Loop({"energy_flux_x"})) = CellRows /\ D!Rows(Loop({"energy_flux_y"})) = Inner
      /\ D!Rows(Loop({"out_u"})) = Inner /\ D!Rows(Loop({"out_v"})) = Inner
  BY SameStoresD DEF D!Rows, Loop
<1> QED BY <1>1, Calls DEF D!RowsFor

\* The calls that store into an array.
LEMMA StoringCalls ==
  ASSUME NEW n \in 1 .. 35
  PROVE  /\ "mass_flux_x" \in D!Driver[n].outs <=> n \in {9, 11}
         /\ "mass_flux_y" \in D!Driver[n].outs <=> n \in {10, 12}
         /\ "energy_flux_x" \in D!Driver[n].outs <=> n \in {18, 20}
         /\ "energy_flux_y" \in D!Driver[n].outs <=> n \in {19, 21}
         /\ "out_mass" \in D!Driver[n].outs <=> n = 13
         /\ "out_e" \in D!Driver[n].outs <=> n = 22
         /\ "out_u" \in D!Driver[n].outs <=> n \in {27, 28}
         /\ "out_v" \in D!Driver[n].outs <=> n \in {33, 34}
<1>1. \A outs : Loop(outs).outs = outs /\ Boundary(outs).outs = outs
  BY DEF Loop, Boundary
<1>2. CASE n \in 1 .. 12
  BY <1>1, <1>2, Calls
<1>3. CASE n \in 13 .. 22
  BY <1>1, <1>3, Calls
<1>4. CASE n \in 23 .. 35
  BY <1>1, <1>4, Calls
<1> QED BY <1>2, <1>3, <1>4

\* The fluxes that this driver stores are those of the two sweeps.
LEMMA SameFluxesX ==
  /\ \A a, iy : D!X!ReconstructFluxOrder2X(a, iy) = X!ReconstructFluxOrder2X(a, iy)
  /\ \A a : D!X!ReconstructFluxOrder2XBoundary(a) = X!ReconstructFluxOrder2XBoundary(a)
<1>1. \A a, crossings : D!X!Fluxes(a, crossings) = X!Fluxes(a, crossings)
  BY DEF D!X!Fluxes, X!Fluxes, D!X!FluxReads, X!FluxReads, D!X!VariableOf, X!VariableOf, D!X!GradientOf,
       X!GradientOf, D!X!Beside, X!Beside, D!X!CellFaceM1O, X!CellFaceM1O, D!X!CellFaceP1O,
       X!CellFaceP1O, D!X!Computed, X!Computed, D!X!ReadsRight, X!ReadsRight, D!X!ReadsDerived,
       X!ReadsDerived, D!X!Expected, X!Expected, D!X!Right, X!Right, D!X!Held, X!Held, D!X!OnWallX,
       X!OnWallX, D!X!OnWallY, X!OnWallY, D!X!WallsX, X!WallsX, D!X!WallsY, X!WallsY, D!X!Fold, X!Fold,
       D!X!Folded, X!Folded, D!X!StaggeredX, X!StaggeredX, D!X!StaggeredY, X!StaggeredY, D!X!KindOf,
       X!KindOf, D!X!Neighbour, X!Neighbour, D!X!Lagged, X!Lagged, D!X!Off, X!Off, D!X!Derived,
       X!Derived, D!X!Zero, X!Zero, D!X!Garbage, X!Garbage, D!X!At, X!At, D!X!NodeAt, X!NodeAt,
       D!X!CellAt, X!CellAt
<1>2. D!X!SeamFaces = X!SeamFaces /\ \A iy : D!X!InnerFaces(iy) = X!InnerFaces(iy)
  BY DEF D!X!InnerFaces, X!InnerFaces, D!X!SeamFaces, X!SeamFaces, D!X!Crossing, X!Crossing,
       D!X!FaceXCellM1, X!FaceXCellM1, D!X!FaceXCellP1, X!FaceXCellP1, D!X!FaceXAt, X!FaceXAt,
       D!X!FirstFace, X!FirstFace, D!X!LastFace, X!LastFace, D!X!CellRows, X!CellRows
<1>3. \A a : D!X!ReconstructFluxOrder2XWallBoundary(a) = X!ReconstructFluxOrder2XWallBoundary(a)
  BY DEF D!X!ReconstructFluxOrder2XWallBoundary, X!ReconstructFluxOrder2XWallBoundary, D!X!FirstFace,
       X!FirstFace, D!X!LastFace, X!LastFace, D!X!Zero, X!Zero, D!X!CellRows, X!CellRows
<1> QED BY <1>1, <1>2, <1>3
    DEF D!X!ReconstructFluxOrder2X, X!ReconstructFluxOrder2X, D!X!ReconstructFluxOrder2XBoundary,
       X!ReconstructFluxOrder2XBoundary, D!X!ReconstructFluxOrder2XBoundaryRt,
       X!ReconstructFluxOrder2XBoundaryRt, D!X!ReconstructFluxOrder2XPeriodicBoundary,
       X!ReconstructFluxOrder2XPeriodicBoundary

LEMMA SameFluxesY ==
  /\ \A a, iy : D!Y!ReconstructFluxOrder2Y(a, iy) = Y!ReconstructFluxOrder2Y(a, iy)
  /\ \A a : D!Y!ReconstructFluxOrder2YBoundary(a) = Y!ReconstructFluxOrder2YBoundary(a)
<1>1. \A a, crossings : D!Y!Fluxes(a, crossings) = Y!Fluxes(a, crossings)
  BY DEF D!Y!Fluxes, Y!Fluxes, D!Y!FluxReads, Y!FluxReads, D!Y!VariableOf, Y!VariableOf, D!Y!GradientOf,
       Y!GradientOf, D!Y!Beside, Y!Beside, D!Y!CellFaceOM1, Y!CellFaceOM1, D!Y!CellFaceOP1,
       Y!CellFaceOP1, D!Y!Computed, Y!Computed, D!Y!ReadsRight, Y!ReadsRight, D!Y!ReadsDerived,
       Y!ReadsDerived, D!Y!Expected, Y!Expected, D!Y!Right, Y!Right, D!Y!Held, Y!Held, D!Y!OnWallX,
       Y!OnWallX, D!Y!OnWallY, Y!OnWallY, D!Y!WallsX, Y!WallsX, D!Y!WallsY, Y!WallsY, D!Y!Fold, Y!Fold,
       D!Y!Folded, Y!Folded, D!Y!StaggeredX, Y!StaggeredX, D!Y!StaggeredY, Y!StaggeredY, D!Y!KindOf,
       Y!KindOf, D!Y!Neighbour, Y!Neighbour, D!Y!Lagged, Y!Lagged, D!Y!Off, Y!Off, D!Y!Derived,
       Y!Derived, D!Y!Zero, Y!Zero, D!Y!Garbage, Y!Garbage, D!Y!At, Y!At, D!Y!NodeAt, Y!NodeAt,
       D!Y!CellAt, Y!CellAt
<1>2. D!Y!SeamFaces = Y!SeamFaces /\ \A iy : D!Y!InnerFaces(iy) = Y!InnerFaces(iy)
  BY DEF D!Y!InnerFaces, Y!InnerFaces, D!Y!SeamFaces, Y!SeamFaces, D!Y!Crossing, Y!Crossing,
       D!Y!FaceYCellM1, Y!FaceYCellM1, D!Y!FaceYCellP1, Y!FaceYCellP1, D!Y!FaceYAt, Y!FaceYAt,
       D!Y!FirstFace, Y!FirstFace, D!Y!LastFace, Y!LastFace
<1>3. \A a : D!Y!ReconstructFluxOrder2YWallBoundary(a) = Y!ReconstructFluxOrder2YWallBoundary(a)
  BY DEF D!Y!ReconstructFluxOrder2YWallBoundary, Y!ReconstructFluxOrder2YWallBoundary, D!Y!FirstFace,
       Y!FirstFace, D!Y!LastFace, Y!LastFace, D!Y!Zero, Y!Zero
<1> QED BY <1>1, <1>2, <1>3
    DEF D!Y!ReconstructFluxOrder2Y, Y!ReconstructFluxOrder2Y, D!Y!ReconstructFluxOrder2YBoundary,
       Y!ReconstructFluxOrder2YBoundary, D!Y!ReconstructFluxOrder2YBoundaryRt,
       Y!ReconstructFluxOrder2YBoundaryRt, D!Y!ReconstructFluxOrder2YPeriodicBoundary,
       Y!ReconstructFluxOrder2YPeriodicBoundary

LEMMA FluxKernelsD ==
  ASSUME WideGrid, D!Next, MassAndEnergyX \cup MassAndEnergyY \subseteq DOMAIN mem,
         \A a \in MassAndEnergyX : DOMAIN mem[a] = 0 .. Size("facex") - 1,
         \A a \in MassAndEnergyY : DOMAIN mem[a] = 0 .. Size("facey") - 1
  PROVE  /\ pc = 9  => FluxLoop("mass_flux_x", 9, 10)
         /\ pc = 10 => FluxLoop("mass_flux_y", 10, 11)
         /\ pc = 11 => FluxEdge("mass_flux_x", 12)
         /\ pc = 12 => FluxEdge("mass_flux_y", 13)
         /\ pc = 18 => FluxLoop("energy_flux_x", 18, 19)
         /\ pc = 19 => FluxLoop("energy_flux_y", 19, 20)
         /\ pc = 20 => FluxEdge("energy_flux_x", 21)
         /\ pc = 21 => FluxEdge("energy_flux_y", 22)
<1>1. /\ \A a \in MassAndEnergyX : KindOf(a) = "facex" /\ a \in DOMAIN mem
      /\ \A a \in MassAndEnergyY : KindOf(a) = "facey" /\ a \in DOMAIN mem
  BY FluxKindsX, FluxKindsY
<1>2. FaceRows("facex") = CellRows /\ FaceRows("facey") = Inner
  BY DEF FaceRows
<1>3. /\ \A a \in MassAndEnergyX : \A iy :
           D!LoopStores(a, iy) = X!ReconstructFluxOrder2X(a, iy)
      /\ \A a \in MassAndEnergyY : \A iy :
           D!LoopStores(a, iy) = Y!ReconstructFluxOrder2Y(a, iy)
  BY SameFluxesX, SameFluxesY DEF D!LoopStores, D!SweepLoop, MassAndEnergyX, MassAndEnergyY
<1>4. /\ \A a \in MassAndEnergyX : D!BoundaryStores(a) = X!ReconstructFluxOrder2XBoundary(a)
      /\ \A a \in MassAndEnergyY : D!BoundaryStores(a) = Y!ReconstructFluxOrder2YBoundary(a)
  BY SameFluxesX, SameFluxesY DEF D!BoundaryStores, D!SweepBoundary, MassAndEnergyX, MassAndEnergyY
<1>5. /\ \A a \in MassAndEnergyX : \A iy \in CellRows : \A rows :
           FluxesOn(mem[a], "facex", FacesOf("facex", rows)) =>
           FluxesOn(D!Stored(mem[a], D!LoopStores(a, iy)), "facex", FacesOf("facex", rows \cup {iy}))
      /\ \A a \in MassAndEnergyY : \A iy \in Inner : \A rows :
           FluxesOn(mem[a], "facey", FacesOf("facey", rows)) =>
           FluxesOn(D!Stored(mem[a], D!LoopStores(a, iy)), "facey", FacesOf("facey", rows \cup {iy}))
  BY <1>3, FluxRowX, FluxRowY, SameStoresX, SameStoresY, SameStoresD
<1>6. /\ \A a \in MassAndEnergyX :
           FluxesOn(mem[a], "facex", FacesOf("facex", CellRows)) =>
           Complete(D!Stored(mem[a], D!BoundaryStores(a)), "facex")
      /\ \A a \in MassAndEnergyY :
           FluxesOn(mem[a], "facey", FacesOf("facey", Inner)) =>
           Complete(D!Stored(mem[a], D!BoundaryStores(a)), "facey")
  BY <1>4, FluxEdgeX, FluxEdgeY, SameStoresX, SameStoresY, SameStoresD
<1>7. \A outs : /\ Loop(outs).part = "loop" /\ Loop(outs).outs = outs
                 /\ Boundary(outs).part = "boundary" /\ Boundary(outs).outs = outs
  BY DEF Loop, Boundary
<1>8. /\ \A a \in MassAndEnergyX : FaceRows(KindOf(a)) = CellRows
      /\ \A a \in MassAndEnergyY : FaceRows(KindOf(a)) = Inner
  BY <1>1, <1>2
<1>9. ASSUME NEW a, a \in DOMAIN mem, NEW n \in 1 .. 35, pc = n, D!Driver[n] = Loop({a})
      PROVE  \/ todo = {} /\ pc' = n + 1 /\ mem'[a] = mem[a]
             \/ \E iy \in todo :
                  /\ pc' = IF todo = {iy} THEN n + 1 ELSE n
                  /\ todo # {iy} => todo' = todo \ {iy}
                  /\ mem'[a] = D!Stored(mem[a], D!LoopStores(a, iy))
  <2>1. ~D!Edge
    BY <1>7, <1>9 DEF D!Edge, D!BoundaryCall
  <2>2. D!Row
    BY <2>1 DEF D!Next
  <2> QED BY <1>7, <1>9, <2>2 DEF D!Row, D!LoopRow, D!RowOf, D!RowDone
<1>10. ASSUME NEW a, a \in DOMAIN mem, NEW n \in 1 .. 35, pc = n, D!Driver[n] = Boundary({a})
       PROVE  pc' = n + 1 /\ mem'[a] = D!Stored(mem[a], D!BoundaryStores(a))
  <2>1. ~D!Row
    BY <1>7, <1>10 DEF D!Row, D!LoopRow
  <2>2. D!Edge
    BY <2>1 DEF D!Next
  <2> QED BY <1>7, <1>10, <2>2 DEF D!Edge, D!BoundaryCall, D!BoundaryOf
<1>11. ASSUME NEW a \in MassAndEnergyX \cup MassAndEnergyY, NEW n \in 1 .. 35, pc = n,
              D!Driver[n] = Loop({a})
       PROVE  FluxLoop(a, n, n + 1)
  <2> DEFINE k == KindOf(a)
  <2>1. a \in DOMAIN mem /\ n + 1 # n
    BY <1>1
  <2>2. ASSUME NEW iy \in FaceRows(k), NEW rows, FluxesOn(mem[a], k, FacesOf(k, rows))
        PROVE  FluxesOn(D!Stored(mem[a], D!LoopStores(a, iy)), k, FacesOf(k, rows \cup {iy}))
    BY <1>1, <1>5, <1>8, <2>2
  <2> HIDE DEF k
  <2>3. CASE todo = {} /\ pc' = n + 1 /\ mem'[a] = mem[a]
    BY <1>11, <2>3 DEF FluxLoop
  <2>4. CASE ~(todo = {} /\ pc' = n + 1 /\ mem'[a] = mem[a])
    <3>1. PICK iy \in todo : /\ pc' = IF todo = {iy} THEN n + 1 ELSE n
                             /\ todo # {iy} => todo' = todo \ {iy}
                             /\ mem'[a] = D!Stored(mem[a], D!LoopStores(a, iy))
      BY <1>9, <1>11, <2>1, <2>4
    <3>2. iy \in FaceRows(k) => \A rows : FluxesOn(mem[a], k, FacesOf(k, rows)) =>
                                           FluxesOn(mem'[a], k, FacesOf(k, rows \cup {iy}))
      BY <2>2, <3>1
    <3> QED BY <1>11, <2>1, <3>1, <3>2 DEF FluxLoop, k
  <2> QED BY <2>3, <2>4
<1>12. ASSUME NEW a \in MassAndEnergyX \cup MassAndEnergyY, NEW n \in 1 .. 35, pc = n,
              D!Driver[n] = Boundary({a})
       PROVE  FluxEdge(a, n + 1)
  BY <1>1, <1>6, <1>8, <1>10, <1>12 DEF FluxEdge
<1> QED BY <1>11, <1>12, Calls DEF MassAndEnergyX, MassAndEnergyY

\* The stages of an array that call n and the boundary kernel of call b fill; it is needed
\* until call last.
DirectStage(a, n, b, last) == FluxStage(a, n, n + 1 .. b, b + 1 .. last)

LEMMA DirectStageKept ==
  ASSUME D!Next, NEW a \in DOMAIN mem, NEW n \in 1 .. 35, NEW b \in 1 .. 35, NEW last \in Int, n < b,
         \A i \in 1 .. 35 : a \in D!Driver[i].outs <=> i \in {n, b},
         D!RowsFor(D!Driver, n, D!Rows) = FaceRows(KindOf(a)),
         pc = n => FluxLoop(a, n, n + 1),
         pc = b => FluxEdge(a, b + 1),
         DirectStage(a, n, b, last)
  PROVE  DirectStage(a, n, b, last)'
<1> DEFINE edges == n + 1 .. b
           after == b + 1 .. last
<1>1. PICK outs : KernelD(outs)
  BY StepsD
<1>2. SameSize /\ pc \in 1 .. 35 /\ (a \notin D!Driver[pc].outs => mem'[a] = mem[a])
  BY <1>1 DEF KernelD, Keeps
<1>3. \A i \in Int : (i \in edges <=> n < i /\ i <= b) /\ (i \in after <=> b < i /\ i <= last)
  OBVIOUS
<1>4. FluxStage(a, n, edges, after)
  BY DEF DirectStage
<1> SUFFICES FluxStage(a, n, edges, after)'
  BY DEF DirectStage
<1>5. CASE pc = n
  <2>1. n + 1 # n /\ n + 1 \in edges /\ n \notin edges /\ n \notin after /\ n + 1 \notin after
    BY <1>3
  <2> HIDE DEF edges, after
  <2> QED BY <1>2, <1>4, <1>5, <2>1, StageLoop
<1>6. CASE pc = b
  <2>1. b + 1 # n /\ b + 1 \notin edges /\ b \in edges
    BY <1>3
  <2> HIDE DEF edges, after
  <2> QED BY <1>2, <1>4, <1>6, <2>1, StageEdge
<1>7. CASE pc \notin {n, b}
  <2>1. mem'[a] = mem[a]
    BY <1>2, <1>7
  <2>2. \/ pc' = pc + 1 /\ todo' = D!RowsFor(D!Driver, pc + 1, D!Rows)
        \/ pc' = pc
    BY <1>1 DEF KernelD
  <2>3. pc' = n => pc # n /\ todo' = FaceRows(KindOf(a))
    <3>1. pc' = n => pc + 1 = n
      BY <1>7, <2>2
    <3> QED BY <1>7, <2>2, <3>1
  <2>4. (pc' \in edges => pc \in edges) /\ (pc' \in after => pc \in after)
    BY <1>2, <1>3, <1>7, <2>2
  <2> HIDE DEF edges, after
  <2> QED BY <1>2, <1>4, <2>1, <2>3, <2>4, StageAside
<1> QED BY <1>5, <1>6, <1>7

DirectFluxes ==
  /\ DirectStage("mass_flux_x", 9, 11, 36)   /\ DirectStage("mass_flux_y", 10, 12, 36)
  /\ DirectStage("energy_flux_x", 18, 20, 22) /\ DirectStage("energy_flux_y", 19, 21, 22)

LEMMA DirectFluxesD ==
  ASSUME WideGrid, D!Next, MassAndEnergyX \cup MassAndEnergyY \subseteq DOMAIN mem,
         \A a \in MassAndEnergyX : DOMAIN mem[a] = 0 .. Size("facex") - 1,
         \A a \in MassAndEnergyY : DOMAIN mem[a] = 0 .. Size("facey") - 1,
         DirectFluxes
  PROVE  DirectFluxes'
<1>1. /\ {"mass_flux_x", "energy_flux_x", "mass_flux_y", "energy_flux_y"} \subseteq DOMAIN mem
      /\ FaceRows(KindOf("mass_flux_x")) = CellRows /\ FaceRows(KindOf("energy_flux_x")) = CellRows
      /\ FaceRows(KindOf("mass_flux_y")) = Inner /\ FaceRows(KindOf("energy_flux_y")) = Inner
  BY FluxKindsX, FluxKindsY DEF FaceRows, MassAndEnergyX, MassAndEnergyY
<1>2. /\ 9 \in 1 .. 35 /\ 10 \in 1 .. 35 /\ 11 \in 1 .. 35 /\ 12 \in 1 .. 35
      /\ 18 \in 1 .. 35 /\ 19 \in 1 .. 35 /\ 20 \in 1 .. 35 /\ 21 \in 1 .. 35
      /\ 9 + 1 = 10 /\ 11 + 1 = 12 /\ 10 + 1 = 11 /\ 12 + 1 = 13
      /\ 18 + 1 = 19 /\ 20 + 1 = 21 /\ 19 + 1 = 20 /\ 21 + 1 = 22
  OBVIOUS
<1>3. DirectStage("mass_flux_x", 9, 11, 36)'
  <2>1. \A i \in 1 .. 35 : "mass_flux_x" \in D!Driver[i].outs <=> i \in {9, 11}
    BY StoringCalls
  <2>2. (pc = 9 => FluxLoop("mass_flux_x", 9, 9 + 1)) /\ (pc = 11 => FluxEdge("mass_flux_x", 11 + 1))
    BY <1>2, FluxKernelsD
  <2>3. "mass_flux_x" \in DOMAIN mem /\ D!RowsFor(D!Driver, 9, D!Rows) = FaceRows(KindOf("mass_flux_x"))
    BY <1>1, RowsD
  <2>4. DirectStage("mass_flux_x", 9, 11, 36) /\ 36 \in Int /\ 9 < 11
    BY DEF DirectFluxes
  <2> QED BY <1>2, <2>1, <2>2, <2>3, <2>4, DirectStageKept
<1>4. DirectStage("mass_flux_y", 10, 12, 36)'
  <2>1. \A i \in 1 .. 35 : "mass_flux_y" \in D!Driver[i].outs <=> i \in {10, 12}
    BY StoringCalls
  <2>2. (pc = 10 => FluxLoop("mass_flux_y", 10, 10 + 1)) /\ (pc = 12 => FluxEdge("mass_flux_y", 12 + 1))
    BY <1>2, FluxKernelsD
  <2>3. "mass_flux_y" \in DOMAIN mem /\ D!RowsFor(D!Driver, 10, D!Rows) = FaceRows(KindOf("mass_flux_y"))
    BY <1>1, RowsD
  <2>4. DirectStage("mass_flux_y", 10, 12, 36) /\ 36 \in Int /\ 10 < 12
    BY DEF DirectFluxes
  <2> QED BY <1>2, <2>1, <2>2, <2>3, <2>4, DirectStageKept
<1>5. DirectStage("energy_flux_x", 18, 20, 22)'
  <2>1. \A i \in 1 .. 35 : "energy_flux_x" \in D!Driver[i].outs <=> i \in {18, 20}
    BY StoringCalls
  <2>2. (pc = 18 => FluxLoop("energy_flux_x", 18, 18 + 1)) /\ (pc = 20 => FluxEdge("energy_flux_x", 20 + 1))
    BY <1>2, FluxKernelsD
  <2>3. "energy_flux_x" \in DOMAIN mem /\ D!RowsFor(D!Driver, 18, D!Rows) = FaceRows(KindOf("energy_flux_x"))
    BY <1>1, RowsD
  <2>4. DirectStage("energy_flux_x", 18, 20, 22) /\ 22 \in Int /\ 18 < 20
    BY DEF DirectFluxes
  <2> QED BY <1>2, <2>1, <2>2, <2>3, <2>4, DirectStageKept
<1>6. DirectStage("energy_flux_y", 19, 21, 22)'
  <2>1. \A i \in 1 .. 35 : "energy_flux_y" \in D!Driver[i].outs <=> i \in {19, 21}
    BY StoringCalls
  <2>2. (pc = 19 => FluxLoop("energy_flux_y", 19, 19 + 1)) /\ (pc = 21 => FluxEdge("energy_flux_y", 21 + 1))
    BY <1>2, FluxKernelsD
  <2>3. "energy_flux_y" \in DOMAIN mem /\ D!RowsFor(D!Driver, 19, D!Rows) = FaceRows(KindOf("energy_flux_y"))
    BY <1>1, RowsD
  <2>4. DirectStage("energy_flux_y", 19, 21, 22) /\ 22 \in Int /\ 19 < 21
    BY DEF DirectFluxes
  <2> QED BY <1>2, <2>1, <2>2, <2>3, <2>4, DirectStageKept
<1> QED BY <1>3, <1>4, <1>5, <1>6 DEF DirectFluxes
-----------------------------------------------------------------------------
\* The arrays have the sizes of their kinds, whichever of them Run exchanges.
SizesInv == DOMAIN mem = Arrays /\ \A a \in Arrays : DOMAIN mem[a] = 0 .. Size(KindOf(a)) - 1

LEMMA SameArrays == Arrays' = Arrays
  BY DEF Arrays, Inputs, L!Inputs, L!Scratch, D!Scratch, D!X!Scratch, D!X!Zeroed, D!Y!Scratch,
         D!Outputs, D!X!Outputs

LEMMA FluxArrays == MassAndEnergyX \cup MassAndEnergyY \cup {"u", "v", "out_u", "out_v"} \subseteq Arrays
  BY DEF MassAndEnergyX, MassAndEnergyY, Arrays, Inputs, L!Inputs, D!Scratch, D!X!Scratch, D!Y!Scratch,
         D!Outputs, D!X!Outputs

LEMMA SizesOfFluxes ==
  ASSUME SizesInv
  PROVE  /\ MassAndEnergyX \cup MassAndEnergyY \subseteq DOMAIN mem
         /\ \A a \in MassAndEnergyX : DOMAIN mem[a] = 0 .. Size("facex") - 1
         /\ \A a \in MassAndEnergyY : DOMAIN mem[a] = 0 .. Size("facey") - 1
         /\ \A a \in {"u", "v", "out_u", "out_v"} :
              a \in DOMAIN mem /\ DOMAIN mem[a] = 0 .. Size("node") - 1
<1>1. \A a \in {"u", "v", "out_u", "out_v"} : KindOf(a) = "node"
  BY DEF KindOf
<1> QED BY <1>1, FluxArrays, FluxKindsX, FluxKindsY DEF SizesInv

LEMMA SizesInitially == Init => SizesInv
<1> SUFFICES ASSUME Init, NEW a \in Arrays PROVE DOMAIN mem[a] = 0 .. Size(KindOf(a)) - 1
  BY DEF Init, SizesInv
<1>1. KindOf("u") = "node" /\ KindOf("v") = "node"
  BY DEF KindOf
<1>2. DOMAIN Filled(a) = 0 .. Size(KindOf(a)) - 1 /\ DOMAIN Apart(a) = 0 .. Size("node") - 1
  BY DEF Filled, Apart
<1> QED BY <1>1, <1>2 DEF Init

\* A driver keeps the sizes.
LEMMA StepsL == L!Next => Keeps(L!Scratch)
<1> SUFFICES ASSUME L!Next PROVE Keeps(L!Scratch)
  OBVIOUS
<1>1. \A f, stores : DOMAIN L!Stored(f, stores) = DOMAIN f
  BY StoredKeeps, SameValues
<1>2. CASE L!LagrangePressurePredictedOptimised
  BY <1>1, <1>2 DEF L!LagrangePressurePredictedOptimised, L!RowOf, L!RowDone, L!Scratch, Keeps, SameSize
<1>3. CASE L!LagrangeVelocityPredicted
  BY <1>1, <1>3 DEF L!LagrangeVelocityPredicted, L!RowOf, L!RowDone, L!Scratch, Keeps, SameSize
<1>4. CASE L!BoundaryVelocityPrediction
  BY <1>1, <1>4 DEF L!BoundaryVelocityPrediction, L!BoundaryOf, L!Scratch, Keeps, SameSize
<1>5. CASE L!LagrangeCorrectionOptimised
  BY <1>1, <1>5 DEF L!LagrangeCorrectionOptimised, L!RowOf, L!RowDone, L!Scratch, Keeps, SameSize
<1>6. CASE L!LagrangeVelocityCorrection
  BY <1>1, <1>6 DEF L!LagrangeVelocityCorrection, L!RowOf, L!RowDone, L!Scratch, Keeps, SameSize
<1> QED BY <1>2, <1>3, <1>4, <1>5, <1>6 DEF L!Next

LEMMA DriversKeep ==
  ASSUME Lagrange2dDriver \/ AdProjection2dXDriver \/ AdProjection2dYDriver \/ DirectProjection2dDriver
  PROVE  (\E outs : Keeps(outs)) /\ drivers' = drivers
<1>1. L!Next \/ X!Next \/ Y!Next \/ D!Next
  BY DEF Lagrange2dDriver, AdProjection2dXDriver, AdProjection2dYDriver, DirectProjection2dDriver
<1>2. CASE L!Next
  BY <1>2, StepsL DEF Lagrange2dDriver, AdProjection2dXDriver, AdProjection2dYDriver,
                      DirectProjection2dDriver
<1>3. CASE X!Next
  <2>1. \E outs : Keeps(outs)
    BY <1>3, StepsX DEF KernelsX, Kernel
  <2> QED BY <2>1 DEF Lagrange2dDriver, AdProjection2dXDriver, AdProjection2dYDriver, DirectProjection2dDriver
<1>4. CASE Y!Next
  <2>1. \E outs : Keeps(outs)
    BY <1>4, StepsY DEF KernelsY, Kernel
  <2> QED BY <2>1 DEF Lagrange2dDriver, AdProjection2dXDriver, AdProjection2dYDriver, DirectProjection2dDriver
<1>5. CASE D!Next
  <2>1. \E outs : Keeps(outs)
    BY <1>5, StepsD DEF KernelD
  <2> QED BY <2>1 DEF Lagrange2dDriver, AdProjection2dXDriver, AdProjection2dYDriver, DirectProjection2dDriver
<1> QED BY <1>1, <1>2, <1>3, <1>4, <1>5

\* std::swap exchanges arrays of one kind.
LEMMA SwappedSizes ==
  ASSUME SizesInv, SameSize, NEW pairs, \A a, b : <<a, b>> \in pairs => KindOf(a) = KindOf(b),
         mem' = Swapped(pairs)
  PROVE  SizesInv'
<1>1. DOMAIN mem' = Arrays
  BY DEF Swapped
<1>2. ASSUME NEW a \in Arrays PROVE DOMAIN mem'[a] = 0 .. Size(KindOf(a)) - 1
  <2> DEFINE others == {b \in Arrays : <<a, b>> \in pairs \/ <<b, a>> \in pairs}
  <2>1. mem'[a] = IF others = {} THEN mem[a] ELSE mem[CHOOSE b \in others : TRUE]
    BY DEF Swapped
  <2>2. CASE others = {}
    BY <2>1, <2>2 DEF SizesInv
  <2>3. CASE others # {}
    <3>1. PICK b \in others : b = CHOOSE c \in others : TRUE
      BY <2>3
    <3>2. b \in Arrays /\ KindOf(b) = KindOf(a)
      OBVIOUS
    <3> QED BY <2>1, <2>3, <3>1, <3>2 DEF SizesInv
  <2> QED BY <2>2, <2>3
<1>3. \A k : Size(k)' = Size(k)
  BY SameGridNext DEF SameSize
<1> QED BY <1>1, <1>2, <1>3, SameArrays DEF SizesInv

LEMMA SizesNext ==
  ASSUME SizesInv, WideGrid, Next
  PROVE  SizesInv' /\ WideGrid' /\ SameSize
<1>1. CASE Lagrange2dDriver \/ AdProjection2dXDriver \/ AdProjection2dYDriver \/ DirectProjection2dDriver
  <2>1. PICK outs : Keeps(outs)
    BY <1>1, DriversKeep
  <2>2. SameSize
    BY <2>1 DEF Keeps
  <2>3. WideGrid' /\ \A k : Size(k)' = Size(k)
    BY <2>2, SameGridNext DEF SameSize
  <2> QED BY <2>1, <2>2, <2>3, SameArrays DEF Keeps, SizesInv
<1>2. CASE Project
  <2>1. SameSize /\ mem' = mem
    BY <1>2 DEF Project, Enter, SameSize
  <2>2. WideGrid' /\ \A k : Size(k)' = Size(k)
    BY <2>1, SameGridNext DEF SameSize
  <2> QED BY <2>1, <2>2, SameArrays DEF SizesInv
<1>3. CASE SecondSweep \/ EndStep
  <2>1. SameSize
    BY <1>3 DEF SecondSweep, EndStep, Enter, SameSize
  <2>2. WideGrid'
    BY <2>1, SameGridNext DEF SameSize
  <2>3. mem' = Swapped(SweepPairs) \/ mem' = Swapped(StepPairs)
    BY <1>3 DEF SecondSweep, EndStep
  <2>4. /\ \A a, b : <<a, b>> \in SweepPairs => KindOf(a) = KindOf(b)
        /\ \A a, b : <<a, b>> \in StepPairs => KindOf(a) = KindOf(b)
    BY DEF SweepPairs, StepPairs, KindOf
  <2> HIDE DEF SweepPairs, StepPairs
  <2> QED BY <2>1, <2>2, <2>3, <2>4, SwappedSizes
<1> QED BY <1>1, <1>2, <1>3 DEF Next
-----------------------------------------------------------------------------
\* The inductive invariant of the conservation of mass and energy: where the driver that runs
\* stands, and what it has stored of each array of fluxes.
FluxesInv ==
  /\ Running("X") => SweepFluxes("mass_flux_x", "energy_flux_x")
  /\ Running("Y") => SweepFluxes("mass_flux_y", "energy_flux_y")
  /\ Running("Direct") => DirectFluxes

FrameInv == DriversInv /\ WideGrid /\ SizesInv

LEMMA FrameInitially == Init => FrameInv
<1> SUFFICES ASSUME Init PROVE FrameInv
  OBVIOUS
<1>1. WideGrid
  <2>1. PICK s \in Shapes : nx = s[1] /\ ny = s[2]
    BY DEF Init
  <2> QED BY <2>1, ShapesAssumption DEF WideGrid
<1> QED BY <1>1, LagrangeInitially, SizesInitially DEF FrameInv, LagrangeInv

LEMMA FrameNext == FrameInv /\ [Next]_allvars => FrameInv'
<1> SUFFICES ASSUME FrameInv, [Next]_allvars PROVE FrameInv'
  OBVIOUS
<1>1. CASE UNCHANGED allvars
  <2>1. UNCHANGED <<nx, ny, BoundaryConditions, mem, drivers>>
    BY <1>1 DEF allvars, vars
  <2>2. WideGrid' /\ \A k : Size(k)' = Size(k)
    BY <2>1, SameGridNext DEF FrameInv, WideGrid
  <2> QED BY <2>1, <2>2, SameArrays DEF FrameInv, DriversInv, SizesInv
<1>2. CASE Next
  BY <1>2, DriversStep, SizesNext DEF FrameInv
<1> QED BY <1>1, <1>2

\* A driver begins before all of its kernels.
Entered == /\ Running("X")' \/ Running("Y")' => pc' = "volume_flux"
           /\ Running("Direct")' => pc' = 1

LEMMA DriverEnters ==
  ASSUME DriversInv, Project \/ SecondSweep \/ EndStep
  PROVE  Entered
<1>1. Enter(drivers')
  BY DEF Project, SecondSweep, EndStep, Enter
<1> QED BY <1>1 DEF Enter, Entered, Running, FirstKernel

\* The fluxes that the driver that runs needs later stay what they are, and what it stores is
\* what its stage asks.
LEMMA FluxesNext == FrameInv /\ FluxesInv /\ [Next]_allvars => FluxesInv'
<1> SUFFICES ASSUME FrameInv, FluxesInv, [Next]_allvars PROVE FluxesInv'
  OBVIOUS
<1>1. CASE UNCHANGED allvars
  <2>1. SameSize /\ UNCHANGED <<mem, pc, todo, drivers>>
    BY <1>1 DEF allvars, vars, SameSize
  <2>2. \A f, loop, edges, after : FluxStage(f, loop, edges, after) => FluxStage(f, loop, edges, after)'
    <3> TAKE f, loop, edges, after
    <3>1. /\ FaceRows(KindOf(f))' = FaceRows(KindOf(f))
          /\ \A iy : RowGiven(f, iy)' <=> RowGiven(f, iy)
          /\ Given(f)' <=> Given(f)
      BY <2>1, SameFacesNext DEF RowGiven, Given
    <3> QED BY <2>1, <3>1 DEF FluxStage
  <2>3. \A mass, energy : SweepFluxes(mass, energy) => SweepFluxes(mass, energy)'
    BY <2>2 DEF SweepFluxes, MassKnown, UKnown
  <2>4. DirectFluxes => DirectFluxes'
    BY <2>2 DEF DirectFluxes, DirectStage
  <2>5. \A d : Running(d)' = Running(d)
    BY <2>1 DEF Running
  <2> QED BY <2>3, <2>4, <2>5 DEF FluxesInv
<1>2. CASE Lagrange2dDriver
  <2>1. Running("Lagrange")' /\ drivers' # <<>>
    BY <1>2 DEF Lagrange2dDriver, Running
  <2> QED BY <2>1 DEF FluxesInv, Running
<1>3. CASE AdProjection2dXDriver
  <2>1. X!Next /\ Running("X") /\ ~Running("Y")' /\ ~Running("Direct")'
    BY <1>3 DEF AdProjection2dXDriver, Running
  <2> QED BY <2>1, SweepFluxesX, SizesOfFluxes DEF FluxesInv, FrameInv
<1>4. CASE AdProjection2dYDriver
  <2>1. Y!Next /\ Running("Y") /\ ~Running("X")' /\ ~Running("Direct")'
    BY <1>4 DEF AdProjection2dYDriver, Running
  <2> QED BY <2>1, SweepFluxesY, SizesOfFluxes DEF FluxesInv, FrameInv
<1>5. CASE DirectProjection2dDriver
  <2>1. D!Next /\ Running("Direct") /\ ~Running("X")' /\ ~Running("Y")'
    BY <1>5 DEF DirectProjection2dDriver, Running
  <2> QED BY <2>1, DirectFluxesD, SizesOfFluxes DEF FluxesInv, FrameInv
<1>6. CASE Project \/ SecondSweep \/ EndStep
  <2>1. Entered
    BY <1>6, DriverEnters DEF FrameInv
  <2>2. pc' = "volume_flux" => \A mass, energy : SweepFluxes(mass, energy)'
    BY DEF SweepFluxes, FluxStage, MassKnown, UKnown
  <2>3. pc' = 1 => DirectFluxes'
    BY DEF DirectFluxes, DirectStage, FluxStage
  <2> QED BY <2>1, <2>2, <2>3 DEF FluxesInv, Entered
<1> QED BY <1>1, <1>2, <1>3, <1>4, <1>5, <1>6 DEF Next

LEMMA ConservationInvariant == Spec => [](FrameInv /\ FluxesInv)
<1>1. Init => FrameInv /\ FluxesInv
  <2> SUFFICES ASSUME Init PROVE FluxesInv
    BY FrameInitially
  <2>1. drivers # <<>> /\ Head(drivers) = "Lagrange"
    BY DEF Init, DriversOf
  <2> QED BY <2>1 DEF FluxesInv, Running
<1>2. FrameInv /\ FluxesInv /\ [Next]_allvars => (FrameInv /\ FluxesInv)'
  BY FrameNext, FluxesNext
<1> QED BY <1>1, <1>2, PTL DEF Spec

\* The call that runs, by what it stores.
LEMMA CallsOfBalances ==
  /\ D!Calling(Loop({"out_mass"})) => pc = 13
  /\ D!Calling(Loop({"out_e"})) => pc = 22
<1>1. \A outs : Loop(outs).outs = outs
  BY DEF Loop
<1> QED BY <1>1, Calls, StoringCalls DEF D!Calling

\* The step conserves mass: on a grid of any size, with any order of the rows and each boundary
\* condition, a flux of mass that leaves a cell enters exactly one other, around a seam too, and
\* no flux goes through a wall, whichever driver of the projection runs.
THEOREM MassIsConserved == Spec => []MassConserved
<1>1. FrameInv /\ FluxesInv => MassConserved
  <2> SUFFICES ASSUME FrameInv, FluxesInv PROVE MassConserved
    OBVIOUS
  <2>1. /\ WideGrid /\ KindOf("mass_flux_x") = "facex" /\ KindOf("mass_flux_y") = "facey"
        /\ DOMAIN mem["mass_flux_x"] = 0 .. Size("facex") - 1
        /\ DOMAIN mem["mass_flux_y"] = 0 .. Size("facey") - 1
    BY SizesOfFluxes, FluxKindsX, FluxKindsY DEF FrameInv, MassAndEnergyX, MassAndEnergyY
  <2>2. Given("mass_flux_x") => X!Conserves("mass_flux_x")
    BY <2>1, CompleteConservesX DEF Given
  <2>3. Given("mass_flux_y") => Y!Conserves("mass_flux_y")
    BY <2>1, CompleteConservesY DEF Given
  <2>4. Running("X") => X!MassConserved
    BY <2>2 DEF FluxesInv, SweepFluxes, FluxStage, MassKnown, X!MassConserved
  <2>5. Running("Y") => Y!MassConserved
    BY <2>3 DEF FluxesInv, SweepFluxes, FluxStage, MassKnown, Y!MassConserved
  <2>6. Running("Direct") /\ D!Calling(Loop({"out_mass"})) => Given("mass_flux_x") /\ Given("mass_flux_y")
    BY CallsOfBalances DEF FluxesInv, DirectFluxes, DirectStage, FluxStage
  <2> QED BY <2>2, <2>3, <2>4, <2>5, <2>6 DEF MassConserved
<1> QED BY <1>1, ConservationInvariant, PTL

\* The same of energy, which the mass that moves carries.
THEOREM EnergyIsConserved == Spec => []EnergyConserved
<1>1. FrameInv /\ FluxesInv => EnergyConserved
  <2> SUFFICES ASSUME FrameInv, FluxesInv PROVE EnergyConserved
    OBVIOUS
  <2>1. /\ WideGrid /\ KindOf("energy_flux_x") = "facex" /\ KindOf("energy_flux_y") = "facey"
        /\ DOMAIN mem["energy_flux_x"] = 0 .. Size("facex") - 1
        /\ DOMAIN mem["energy_flux_y"] = 0 .. Size("facey") - 1
    BY SizesOfFluxes, FluxKindsX, FluxKindsY DEF FrameInv, MassAndEnergyX, MassAndEnergyY
  <2>2. Given("energy_flux_x") => X!Conserves("energy_flux_x")
    BY <2>1, CompleteConservesX DEF Given
  <2>3. Given("energy_flux_y") => Y!Conserves("energy_flux_y")
    BY <2>1, CompleteConservesY DEF Given
  <2>4. Running("X") => X!EnergyConserved
    BY <2>2 DEF FluxesInv, SweepFluxes, FluxStage, X!EnergyConserved
  <2>5. Running("Y") => Y!EnergyConserved
    BY <2>3 DEF FluxesInv, SweepFluxes, FluxStage, Y!EnergyConserved
  <2>6. Running("Direct") /\ D!Calling(Loop({"out_e"})) => Given("energy_flux_x") /\ Given("energy_flux_y")
    BY CallsOfBalances DEF FluxesInv, DirectFluxes, DirectStage, FluxStage
  <2> QED BY <2>2, <2>3, <2>4, <2>5, <2>6 DEF EnergyConserved
<1> QED BY <1>1, ConservationInvariant, PTL

-----------------------------------------------------------------------------
(***************************************************************************)
(* What a time step does to the velocity: the nodes of a seam that are one *)
(* get one velocity, and a uniform velocity stays uniform off the walls.   *)
(*                                                                         *)
(* Both depend on which nodes, cells and faces a kernel takes around a     *)
(* node: the first on the nodes that it stores into, the second on the     *)
(* cells and the faces whose fluxes it takes.                              *)
(***************************************************************************)
\* Which node is the twin of one: that of the first column or row for the last one, in a
\* direction without walls.
LEMMA TwinOf ==
  ASSUME WideGrid, NEW x \in 0 .. nx, NEW y \in 0 .. ny
  PROVE  /\ <<x, y>> \in Places("node") /\ At("node", <<x, y>>) = NodeAt(x, y, nx)
         /\ Twin(<<x, y>>) = <<IF x = nx /\ ~WallsX THEN 0 ELSE x, IF y = ny /\ ~WallsY THEN 0 ELSE y>>
<1> DEFINE k == "node"
<1>1. StaggeredX(k) /\ StaggeredY(k) /\ k # "position"
  BY DEF StaggeredX, StaggeredY
<1>2. <<x, y>> \in Places(k) /\ At(k, <<x, y>>) = NodeAt(x, y, nx)
  BY <1>1 DEF Places, LastX, LastY, At
<1>3. x \in Int /\ y \in Int /\ (x \in 0 .. nx - 1 \/ x = nx) /\ (y \in 0 .. ny - 1 \/ y = ny)
  BY DEF WideGrid
<1> DEFINE fx == Folded(x, nx, WallsX, StaggeredX(k))
           fy == Folded(y, ny, WallsY, StaggeredY(k))
<1>4. /\ x \in 0 .. nx - 1 => fx = x
      /\ x = nx => fx = IF WallsX THEN nx ELSE 0
  BY <1>1, <1>3, FoldedXNear
<1>5. /\ y \in 0 .. ny - 1 => fy = y
      /\ y = ny => fy = IF WallsY THEN ny ELSE 0
  BY <1>1, <1>3, FoldedYNear
<1>6. Twin(<<x, y>>) = <<fx, fy>>
  BY <1>1 DEF Twin, Fold
<1> HIDE DEF fx, fy
<1>7. fx = IF x = nx /\ ~WallsX THEN 0 ELSE x
  BY <1>3, <1>4 DEF WideGrid
<1>8. fy = IF y = ny /\ ~WallsY THEN 0 ELSE y
  BY <1>3, <1>5 DEF WideGrid
<1> QED BY <1>2, <1>6, <1>7, <1>8

\* The nodes of a set of places, and sets of places that hold twins together.
Closed(P)  == P \subseteq Places("node") /\ \A p \in Places("node") : p \in P <=> Twin(p) \in P

LEMMA ClosedNodes ==
  ASSUME WideGrid, NEW P, Closed(P), NEW p \in Places("node")
  PROVE  /\ At("node", p) \in NodesOf(P) <=> p \in P
         /\ At("node", Twin(p)) \in NodesOf(P) <=> p \in P
<1>1. \A q, r \in Places("node") : At("node", q) = At("node", r) => q = r
  BY ElementsApart, WideGridIsGrid DEF Kinds
<1>2. Twin(p) \in Places("node")
  BY FoldInside DEF Twin, Kinds
<1> QED BY <1>1, <1>2 DEF NodesOf, Closed

\* What a boundary kernel of the nodes stores: a result for each of its stencils, into all
\* the nodes of it, and zeros.
StoresOf(T, to, g, zeros) == (UNION {{<<n, g[t]>> : n \in to[t]} : t \in T}) \cup Zeros(zeros)

LEMMA StoresOfElements ==
  ASSUME NEW T, NEW to, NEW g, NEW zeros, NEW s
  PROVE  s \in StoresOf(T, to, g, zeros) <=> \/ \E t \in T : \E n \in to[t] : s = <<n, g[t]>>
                                             \/ \E n \in zeros : s = <<n, Zero>>
<1> DEFINE one(t) == {<<n, g[t]>> : n \in to[t]}
<1>1. \A t : s \in one(t) <=> \E n \in to[t] : s = <<n, g[t]>>
  OBVIOUS
<1>2. s \in Zeros(zeros) <=> \E n \in zeros : s = <<n, Zero>>
  BY DEF Zeros
<1>3. s \in UNION {one(t) : t \in T} <=> \E t \in T : s \in one(t)
  <2> HIDE DEF one
  <2> QED OBVIOUS
<1>4. StoresOf(T, to, g, zeros) = (UNION {one(t) : t \in T}) \cup Zeros(zeros)
  BY DEF StoresOf
<1> DEFINE all == UNION {one(t) : t \in T}
<1> HIDE DEF one, all
<1>5. s \in StoresOf(T, to, g, zeros) <=> s \in all \/ s \in Zeros(zeros)
  BY <1>4 DEF all
<1> QED BY <1>1, <1>2, <1>3, <1>5 DEF all

\* A result that is stored into every node of a set with its twins, and zeros likewise.
WithTwins(nodes) == \E P : Closed(P) /\ nodes = NodesOf(P)

Covers(T, to, zeros) ==
  \A p \in Places("node") : Twin(p) # p => At("node", p) \in zeros \/ \E t \in T : At("node", p) \in to[t]

LEMMA TwinStoresOf ==
  ASSUME WideGrid, NEW T, NEW to, NEW g, NEW zeros, \A t \in T : WithTwins(to[t]), WithTwins(zeros),
         Covers(T, to, zeros)
  PROVE  TwinStores(StoresOf(T, to, g, zeros))
<1> DEFINE stores == StoresOf(T, to, g, zeros)
<1>0. \A s : s \in stores <=> \/ \E t \in T : \E n \in to[t] : s = <<n, g[t]>>
                              \/ \E n \in zeros : s = <<n, Zero>>
  BY StoresOfElements
<1> HIDE DEF stores
<1>1. ASSUME NEW s \in stores PROVE s = <<s[1], s[2]>>
  BY <1>0, <1>1
<1>2. ASSUME NEW p \in Places("node"), Twin(p) # p
      PROVE  /\ \E v : <<At("node", p), v>> \in stores
             /\ \A v : <<At("node", p), v>> \in stores <=> <<At("node", Twin(p)), v>> \in stores
  <2> DEFINE i == At("node", p)
             j == At("node", Twin(p))
  <2>1. \A nodes : WithTwins(nodes) => (i \in nodes <=> j \in nodes)
    BY ClosedNodes DEF WithTwins
  <2>2. i \in zeros \/ \E t \in T : i \in to[t]
    BY <1>2 DEF Covers
  <2> HIDE DEF i, j
  <2>3. \A e, v : <<e, v>> \in stores <=> \/ \E t \in T : e \in to[t] /\ v = g[t]
                                          \/ e \in zeros /\ v = Zero
    <3> TAKE e, v
    <3>1. <<e, v>> \in stores <=> \/ \E t \in T : \E n \in to[t] : <<e, v>> = <<n, g[t]>>
                                  \/ \E n \in zeros : <<e, v>> = <<n, Zero>>
      BY <1>0
    <3>2. \A n, w : <<e, v>> = <<n, w>> <=> e = n /\ v = w
      OBVIOUS
    <3> QED BY <3>1, <3>2
  <2>4. \A v : <<i, v>> \in stores <=> <<j, v>> \in stores
    BY <2>1, <2>3
  <2>5. \E v : <<i, v>> \in stores
    BY <2>2, <2>3
  <2> QED BY <2>4, <2>5 DEF i, j
<1> QED BY <1>1, <1>2 DEF TwinStores, stores

LEMMA SeamsClosed ==
  ASSUME WideGrid, ~WallsX
  PROVE  /\ \A iy \in Inner : Closed(SidesAt(iy))
         /\ ~WallsY => Closed(CornersAt) /\ \A ix \in 1 .. nx - 1 : Closed(EndsAt(ix))
         /\ WallsY => Closed(CornersAt \cup (UNION {EndsAt(ix) : ix \in 1 .. nx - 1}))
         /\ \A p \in Places("node") : Twin(p) # p =>
              \/ \E iy \in Inner : p \in SidesAt(iy)
              \/ p \in CornersAt
              \/ ~WallsY /\ \E ix \in 1 .. nx - 1 : p \in EndsAt(ix)
<1>1. /\ nx \in Nat /\ nx > 1 /\ ny \in Nat /\ ny > 1
  BY DEF WideGrid
<1>2. \A p : p \in Places("node") <=> \E x \in 0 .. nx, y \in 0 .. ny : p = <<x, y>>
  BY DEF Places, LastX, LastY, StaggeredX, StaggeredY
<1>3. \A x \in 0 .. nx, y \in 0 .. ny :
        Twin(<<x, y>>) = <<IF x = nx THEN 0 ELSE x, IF y = ny /\ ~WallsY THEN 0 ELSE y>>
  BY TwinOf
<1>4. \A P : /\ \A p \in P : \E x \in 0 .. nx, y \in 0 .. ny : p = <<x, y>>
             /\ \A x \in 0 .. nx, y \in 0 .. ny : <<x, y>> \in P <=> Twin(<<x, y>>) \in P
             => Closed(P)
  BY <1>2 DEF Closed
<1>5. ASSUME NEW iy \in Inner PROVE Closed(SidesAt(iy))
  BY <1>1, <1>3, <1>4 DEF Inner, SidesAt
<1>6. ASSUME ~WallsY, NEW ix \in 1 .. nx - 1 PROVE Closed(EndsAt(ix))
  BY <1>1, <1>3, <1>4, <1>6 DEF EndsAt
<1>7. ASSUME ~WallsY PROVE Closed(CornersAt)
  BY <1>1, <1>3, <1>4, <1>7 DEF CornersAt
<1>8. ASSUME WallsY PROVE Closed(CornersAt \cup (UNION {EndsAt(ix) : ix \in 1 .. nx - 1}))
  <2> DEFINE P == CornersAt \cup (UNION {EndsAt(ix) : ix \in 1 .. nx - 1})
  <2>1. \A p : p \in P <=> \E x \in 0 .. nx, y \in {0, ny} : p = <<x, y>>
    BY <1>1 DEF EndsAt, CornersAt
  <2> HIDE DEF P
  <2>2. \A x \in 0 .. nx, y \in 0 .. ny : <<x, y>> \in P <=> y \in {0, ny}
    BY <2>1
  <2>3. \A p \in P : \E x \in 0 .. nx, y \in 0 .. ny : p = <<x, y>>
    BY <1>1, <2>1
  <2>4. \A x \in 0 .. nx, y \in 0 .. ny : Twin(<<x, y>>) = <<IF x = nx THEN 0 ELSE x, y>>
    BY <1>3, <1>8
  <2>5. ASSUME NEW x \in 0 .. nx, NEW y \in 0 .. ny PROVE <<x, y>> \in P <=> Twin(<<x, y>>) \in P
    <3>1. PICK z \in 0 .. nx : Twin(<<x, y>>) = <<z, y>>
      BY <1>1, <2>4
    <3> QED BY <2>2, <3>1
  <2>6. Closed(P)
    BY <1>4, <2>3, <2>5
  <2> QED BY <2>6 DEF P
<1>9. ASSUME NEW p \in Places("node"), Twin(p) # p
      PROVE  \/ \E iy \in Inner : p \in SidesAt(iy)
             \/ p \in CornersAt
             \/ ~WallsY /\ \E ix \in 1 .. nx - 1 : p \in EndsAt(ix)
  <2>1. PICK x \in 0 .. nx, y \in 0 .. ny : p = <<x, y>>
    BY <1>2
  <2>2. x = nx \/ (y = ny /\ ~WallsY)
    BY <1>3, <1>9, <2>1
  <2> QED BY <1>1, <2>1, <2>2 DEF Inner, SidesAt, EndsAt, CornersAt
<1> QED BY <1>5, <1>6, <1>7, <1>8, <1>9

-----------------------------------------------------------------------------
\* Along the seams the stencils have the nodes of the sides and, without walls below and
\* above, those of the ends and the corners; with them, the ends are set to 0.
Seams(T, to, zeros) ==
  /\ \A t \in T : \/ \E iy \in Inner : to[t] = NodesOf(SidesAt(iy))
                  \/ ~WallsY /\ \E ix \in 1 .. nx - 1 : to[t] = NodesOf(EndsAt(ix))
                  \/ ~WallsY /\ to[t] = NodesOf(CornersAt)
  /\ \A iy \in Inner : \E t \in T : to[t] = NodesOf(SidesAt(iy))
  /\ IF WallsY THEN zeros = CornerNodes \cup Ends
     ELSE /\ zeros = {}
          /\ \A ix \in 1 .. nx - 1 : \E t \in T : to[t] = NodesOf(EndsAt(ix))
          /\ \E t \in T : to[t] = NodesOf(CornersAt)

LEMMA SeamStores ==
  ASSUME WideGrid, NEW T, NEW to, NEW g, NEW zeros, ~WallsX => Seams(T, to, zeros), WallsX => WallsY
  PROVE  TwinStores(StoresOf(T, to, g, zeros))
<1> DEFINE stores == StoresOf(T, to, g, zeros)
<1>1. \A s : s \in stores <=> \/ \E t \in T : \E n \in to[t] : s = <<n, g[t]>>
                              \/ \E n \in zeros : s = <<n, Zero>>
  BY StoresOfElements
<1> HIDE DEF stores
<1>2. CASE WallsX
  <2>1. ASSUME NEW p \in Places("node") PROVE Twin(p) = p
    <3>1. p = <<p[1], p[2]>> /\ p[1] \in 0 .. nx /\ p[2] \in 0 .. ny
      BY DEF Places, LastX, LastY, StaggeredX, StaggeredY
    <3>2. Twin(<<p[1], p[2]>>) = <<IF p[1] = nx /\ ~WallsX THEN 0 ELSE p[1],
                                   IF p[2] = ny /\ ~WallsY THEN 0 ELSE p[2]>>
      BY <3>1, TwinOf
    <3>3. Twin(<<p[1], p[2]>>) = <<p[1], p[2]>>
      BY <1>2, <3>2
    <3> QED BY <3>1, <3>3
  <2>2. \A s \in stores : s = <<s[1], s[2]>>
    BY <1>1
  <2> QED BY <2>1, <2>2 DEF TwinStores, stores
<1>3. CASE ~WallsX
  <2>1. \A P : Closed(P) => WithTwins(NodesOf(P))
    BY DEF WithTwins
  <2>2. Closed({}) /\ NodesOf({}) = {}
    BY FoldInside DEF Closed, NodesOf
  <2>3. WithTwins(zeros)
    <3>1. CASE WallsY
      BY <1>3, <2>1, <3>1, SeamsClosed, SeamNodes DEF Seams
    <3>2. CASE ~WallsY
      BY <1>3, <2>1, <2>2, <3>2 DEF Seams
    <3> QED BY <3>1, <3>2
  <2>4. \A t \in T : WithTwins(to[t])
    BY <1>3, <2>1, SeamsClosed DEF Seams
  <2>5. Covers(T, to, zeros)
    <3> SUFFICES ASSUME NEW p \in Places("node"), Twin(p) # p
                 PROVE  At("node", p) \in zeros \/ \E t \in T : At("node", p) \in to[t]
      BY DEF Covers
    <3>1. \A P : p \in P => At("node", p) \in NodesOf(P)
      BY DEF NodesOf
    <3>2. \/ \E iy \in Inner : p \in SidesAt(iy)
          \/ p \in CornersAt
          \/ ~WallsY /\ \E ix \in 1 .. nx - 1 : p \in EndsAt(ix)
      BY <1>3, SeamsClosed
    <3>3. CASE \E iy \in Inner : p \in SidesAt(iy)
      BY <1>3, <3>1, <3>3 DEF Seams
    <3>4. CASE p \in CornersAt
      BY <1>3, <3>1, <3>4, SeamNodes DEF Seams
    <3>5. CASE ~WallsY /\ \E ix \in 1 .. nx - 1 : p \in EndsAt(ix)
      BY <1>3, <3>1, <3>5 DEF Seams
    <3> QED BY <3>2, <3>3, <3>4, <3>5
  <2>6. TwinStores(stores)
    BY <2>3, <2>4, <2>5, TwinStoresOf DEF stores
  <2> QED BY <2>6 DEF stores
<1> QED BY <1>2, <1>3

\* The boundary kernels of the two sweeps.
LEMMA TwinStoresX == WideGrid => \A a : TwinStores(X!ProjectNodalIntensiveVariableOrder2XBoundary(a))
<1> SUFFICES ASSUME WideGrid, NEW a PROVE TwinStores(X!ProjectNodalIntensiveVariableOrder2XBoundary(a))
  OBVIOUS
<1> DEFINE T == X!BoundaryStencils(a)
           to == [s \in T |-> s.to]
           g == [s \in T |-> X!ProjectedAt(a, s)]
           zeros == X!BoundaryZeros(a)
<1>1. X!ProjectNodalIntensiveVariableOrder2XBoundary(a) = StoresOf(T, to, g, zeros)
  <2>1. X!Projected(a, T) = UNION {{<<n, g[t]>> : n \in to[t]} : t \in T}
    BY DEF X!Projected
  <2>2. X!Zeros(zeros) = Zeros(zeros)
    BY SameGridX DEF X!Zeros, Zeros
  <2> DEFINE results == UNION {{<<n, g[t]>> : n \in to[t]} : t \in T}
  <2>3. X!ProjectNodalIntensiveVariableOrder2XBoundary(a) = X!Projected(a, T) \cup X!Zeros(zeros)
    BY DEF X!ProjectNodalIntensiveVariableOrder2XBoundary
  <2>4. StoresOf(T, to, g, zeros) = results \cup Zeros(zeros)
    BY DEF StoresOf
  <2>5. X!Projected(a, T) = results
    BY <2>1
  <2> HIDE DEF T, to, g, zeros, results
  <2> QED BY <2>2, <2>3, <2>4, <2>5
<1>2. WallsX => WallsY
  BY DEF WallsX, WallsY
<1>3. ASSUME ~WallsX PROVE Seams(T, to, zeros)
  <2>1. BoundaryConditions # "Wall" /\ (WallsY <=> BoundaryConditions = "RayleighTaylor")
    BY <1>3 DEF WallsX, WallsY
  <2>2. X!CornerNodes = CornerNodes /\ X!Ends = Ends
    BY SameGridX, SameMapsX DEF X!CornerNodes, CornerNodes, X!Ends, Ends
  <2>3. /\ WallsY => T = X!PeriodicSides /\ zeros = CornerNodes \cup Ends
        /\ ~WallsY => /\ T = X!PeriodicSides \cup X!PeriodicEnds \cup {X!PeriodicCorner}
                      /\ zeros = {}
    BY <2>1, <2>2 DEF X!BoundaryStencils, X!BoundaryZeros, X!ProjectNodalIntensiveVariableOrder2XBoundaryRt,
                      X!ProjectNodalIntensiveVariableOrder2XPeriodicBoundary
  <2>4. \A s \in T : to[s] = s.to
    OBVIOUS
  <2> HIDE DEF T, to, zeros
  <2> QED BY <2>3, <2>4, StencilsX DEF Seams, SideStencils, EndStencils, CornerStencil
<1> HIDE DEF T, to, g, zeros
<1> QED BY <1>1, <1>2, <1>3, SeamStores

LEMMA TwinStoresY == WideGrid => \A a : TwinStores(Y!ProjectNodalIntensiveVariableOrder2YBoundary(a))
<1> SUFFICES ASSUME WideGrid, NEW a PROVE TwinStores(Y!ProjectNodalIntensiveVariableOrder2YBoundary(a))
  OBVIOUS
<1> DEFINE T == Y!BoundaryStencils(a)
           to == [s \in T |-> s.to]
           g == [s \in T |-> IF Y!PassedHeight(a) THEN Y!ProjectedAt(a, s) ELSE Y!Off(Y!Fold("node", s.at))]
           zeros == Y!BoundaryZeros(a)
<1>1. Y!ProjectNodalIntensiveVariableOrder2YBoundary(a) = StoresOf(T, to, g, zeros)
  <2>1. Y!PassedHeight(a) => Y!Projected(a, T) = UNION {{<<n, g[t]>> : n \in to[t]} : t \in T}
    BY DEF Y!Projected
  <2>2. ~Y!PassedHeight(a) => UNION {{<<n, Y!Off(Y!Fold("node", s.at))>> : n \in s.to} : s \in T}
                                = UNION {{<<n, g[t]>> : n \in to[t]} : t \in T}
    OBVIOUS
  <2>3. Y!Zeros(zeros) = Zeros(zeros)
    BY SameGridY DEF Y!Zeros, Zeros
  <2> DEFINE results == UNION {{<<n, g[t]>> : n \in to[t]} : t \in T}
             wrong == UNION {{<<n, Y!Off(Y!Fold("node", s.at))>> : n \in s.to} : s \in T}
  <2>4. Y!ProjectNodalIntensiveVariableOrder2YBoundary(a)
          = (IF Y!PassedHeight(a) THEN Y!Projected(a, T) ELSE wrong) \cup Y!Zeros(zeros)
    BY DEF Y!ProjectNodalIntensiveVariableOrder2YBoundary
  <2>5. StoresOf(T, to, g, zeros) = results \cup Zeros(zeros)
    BY DEF StoresOf
  <2>6. (Y!PassedHeight(a) => Y!Projected(a, T) = results) /\ (~Y!PassedHeight(a) => wrong = results)
    BY <2>1, <2>2
  <2> HIDE DEF T, to, g, zeros, results, wrong
  <2> QED BY <2>3, <2>4, <2>5, <2>6
<1>2. WallsX => WallsY
  BY DEF WallsX, WallsY
<1>3. ASSUME ~WallsX PROVE Seams(T, to, zeros)
  <2>1. BoundaryConditions # "Wall" /\ (WallsY <=> BoundaryConditions = "RayleighTaylor")
    BY <1>3 DEF WallsX, WallsY
  <2>2. Y!CornerNodes = CornerNodes /\ Y!Ends = Ends
    BY SameGridY, SameMapsY DEF Y!CornerNodes, CornerNodes, Y!Ends, Ends
  <2>3. /\ WallsY => T = Y!PeriodicSides /\ zeros = CornerNodes \cup Ends
        /\ ~WallsY => /\ T = Y!PeriodicSides \cup Y!PeriodicEnds \cup {Y!PeriodicCorner}
                      /\ zeros = {}
    BY <2>1, <2>2 DEF Y!BoundaryStencils, Y!BoundaryZeros, Y!ProjectNodalIntensiveVariableOrder2YBoundaryRt,
                      Y!ProjectNodalIntensiveVariableOrder2YPeriodicBoundary
  <2>4. \A s \in T : to[s] = s.to
    OBVIOUS
  <2> HIDE DEF T, to, zeros
  <2> QED BY <2>3, <2>4, StencilsY DEF Seams, SideStencils, EndStencils, CornerStencil
<1> HIDE DEF T, to, g, zeros
<1> QED BY <1>1, <1>2, <1>3, SeamStores

\* The stencils that the driver of both directions has for a node are those of the two sweeps.
LEMMA SameStencilsX ==
  /\ \A iy : D!X!InnerStencils(iy) = X!InnerStencils(iy)
  /\ D!X!PeriodicSides = X!PeriodicSides /\ D!X!PeriodicEnds = X!PeriodicEnds
  /\ D!X!PeriodicCorner = X!PeriodicCorner
  /\ \A a : D!X!BoundaryStencils(a) = X!BoundaryStencils(a)
  BY DEF D!X!InnerStencils, X!InnerStencils, D!X!PeriodicSides, X!PeriodicSides, D!X!PeriodicEnds,
         X!PeriodicEnds, D!X!PeriodicCorner, X!PeriodicCorner,
         D!X!ProjectNodalIntensiveVariableOrder2UxXWallBoundary,
         X!ProjectNodalIntensiveVariableOrder2UxXWallBoundary,
         D!X!ProjectNodalIntensiveVariableOrder2UyXWallBoundary,
         X!ProjectNodalIntensiveVariableOrder2UyXWallBoundary, D!X!NodeAt, X!NodeAt, D!X!Stencil,
         X!Stencil, D!X!NodeNodeM1O, X!NodeNodeM1O, D!X!NodeNodeP1O, X!NodeNodeP1O, D!X!CellsAround,
         X!CellsAround, D!X!FacesAround, X!FacesAround, D!X!NodeCellM1M1, X!NodeCellM1M1,
         D!X!NodeCellP1M1, X!NodeCellP1M1, D!X!NodeCellM1P1, X!NodeCellM1P1, D!X!NodeCellP1P1,
         X!NodeCellP1P1, D!X!NodeFaceXM1M1, X!NodeFaceXM1M1, D!X!NodeFaceXOOM1, X!NodeFaceXOOM1,
         D!X!NodeFaceXP1M1, X!NodeFaceXP1M1, D!X!NodeFaceXM1P1, X!NodeFaceXM1P1, D!X!NodeFaceXOOP1,
         X!NodeFaceXOOP1, D!X!NodeFaceXP1P1, X!NodeFaceXP1P1, D!X!CornerNodes, X!CornerNodes,
         D!X!Inner, X!Inner, D!X!BoundaryStencils, X!BoundaryStencils,
         D!X!ProjectNodalIntensiveVariableOrder2XBoundaryRt,
         X!ProjectNodalIntensiveVariableOrder2XBoundaryRt,
         D!X!ProjectNodalIntensiveVariableOrder2XPeriodicBoundary,
         X!ProjectNodalIntensiveVariableOrder2XPeriodicBoundary

LEMMA SameStencilsY ==
  /\ \A iy : D!Y!InnerStencils(iy) = Y!InnerStencils(iy)
  /\ D!Y!PeriodicSides = Y!PeriodicSides /\ D!Y!PeriodicEnds = Y!PeriodicEnds
  /\ D!Y!PeriodicCorner = Y!PeriodicCorner
  /\ \A a : D!Y!BoundaryStencils(a) = Y!BoundaryStencils(a)
  BY DEF D!Y!InnerStencils, Y!InnerStencils, D!Y!PeriodicSides, Y!PeriodicSides, D!Y!PeriodicEnds,
         Y!PeriodicEnds, D!Y!PeriodicCorner, Y!PeriodicCorner,
         D!Y!ProjectNodalIntensiveVariableOrder2UyYWallBoundary,
         Y!ProjectNodalIntensiveVariableOrder2UyYWallBoundary,
         D!Y!ProjectNodalIntensiveVariableOrder2UxYWallBoundary,
         Y!ProjectNodalIntensiveVariableOrder2UxYWallBoundary, D!Y!NodeAt, Y!NodeAt, D!Y!Stencil,
         Y!Stencil, D!Y!NodeNodeOM1, Y!NodeNodeOM1, D!Y!NodeNodeOP1, Y!NodeNodeOP1, D!Y!CellsAround,
         Y!CellsAround, D!Y!FacesAcross, Y!FacesAcross, D!Y!FacesBetween, Y!FacesBetween,
         D!Y!NodeCellM1M1, Y!NodeCellM1M1, D!Y!NodeCellP1M1, Y!NodeCellP1M1, D!Y!NodeCellM1P1,
         Y!NodeCellM1P1, D!Y!NodeCellP1P1, Y!NodeCellP1P1, D!Y!NodeFaceYM1M1, Y!NodeFaceYM1M1,
         D!Y!NodeFaceYP1M1, Y!NodeFaceYP1M1, D!Y!NodeFaceYM1OO, Y!NodeFaceYM1OO, D!Y!NodeFaceYP1OO,
         Y!NodeFaceYP1OO, D!Y!NodeFaceYM1P1, Y!NodeFaceYM1P1, D!Y!NodeFaceYP1P1, Y!NodeFaceYP1P1,
         D!Y!CornerNodes, Y!CornerNodes, D!Y!Inner, Y!Inner, D!Y!BoundaryStencils,
         Y!BoundaryStencils, D!Y!ProjectNodalIntensiveVariableOrder2YBoundaryRt,
         Y!ProjectNodalIntensiveVariableOrder2YBoundaryRt,
         D!Y!ProjectNodalIntensiveVariableOrder2YPeriodicBoundary,
         Y!ProjectNodalIntensiveVariableOrder2YPeriodicBoundary

\* The boundary kernel of both directions crosses the stencils that the two have for a node.
LEMMA CrossedSeams ==
  ASSUME WideGrid
  PROVE  LET sides   == D!Crossed(X!PeriodicSides, Y!PeriodicSides)
             ends    == D!Crossed(X!PeriodicEnds, Y!PeriodicEnds)
             corners == D!Crossed({X!PeriodicCorner}, {Y!PeriodicCorner})
         IN /\ \A c \in sides : \E iy \in Inner : c[1].to = NodesOf(SidesAt(iy))
            /\ \A iy \in Inner : \E c \in sides : c[1].to = NodesOf(SidesAt(iy))
            /\ \A c \in ends : \E ix \in 1 .. nx - 1 : c[1].to = NodesOf(EndsAt(ix))
            /\ \A ix \in 1 .. nx - 1 : \E c \in ends : c[1].to = NodesOf(EndsAt(ix))
            /\ \A c \in corners : c[1].to = NodesOf(CornersAt)
            /\ \E c \in corners : c[1].to = NodesOf(CornersAt)
<1>1. \A xs, ys, x, y : <<x, y>> \in D!Crossed(xs, ys) <=> x \in xs /\ y \in ys /\ x.at = y.at
  BY DEF D!Crossed
<1>2. \A xs, ys : \A c \in D!Crossed(xs, ys) : c[1] \in xs
  BY DEF D!Crossed
<1>3. \A x, y : <<x, y>>[1] = x
  OBVIOUS
<1>4. /\ SideStencils(X!PeriodicSides) /\ EndStencils(X!PeriodicEnds) /\ CornerStencil(X!PeriodicCorner)
      /\ SideStencils(Y!PeriodicSides) /\ EndStencils(Y!PeriodicEnds) /\ CornerStencil(Y!PeriodicCorner)
  BY StencilsX, StencilsY
<1>5. ASSUME NEW iy \in Inner
      PROVE  \E c \in D!Crossed(X!PeriodicSides, Y!PeriodicSides) : c[1].to = NodesOf(SidesAt(iy))
  <2>1. PICK x \in X!PeriodicSides : x.at = <<0, iy>> /\ x.to = NodesOf(SidesAt(iy))
    BY <1>4 DEF SideStencils
  <2>2. PICK y \in Y!PeriodicSides : y.at = <<0, iy>>
    BY <1>4 DEF SideStencils
  <2>3. <<x, y>> \in D!Crossed(X!PeriodicSides, Y!PeriodicSides)
    BY <1>1, <2>1, <2>2
  <2>4. <<x, y>>[1].to = x.to
    BY <1>3
  <2> DEFINE c == <<x, y>>
  <2> HIDE DEF c
  <2> QED BY <2>1, <2>3, <2>4 DEF c
<1>6. ASSUME NEW ix \in 1 .. nx - 1
      PROVE  \E c \in D!Crossed(X!PeriodicEnds, Y!PeriodicEnds) : c[1].to = NodesOf(EndsAt(ix))
  <2>1. PICK x \in X!PeriodicEnds : x.at = <<ix, 0>> /\ x.to = NodesOf(EndsAt(ix))
    BY <1>4 DEF EndStencils
  <2>2. PICK y \in Y!PeriodicEnds : y.at = <<ix, 0>>
    BY <1>4 DEF EndStencils
  <2>3. <<x, y>> \in D!Crossed(X!PeriodicEnds, Y!PeriodicEnds)
    BY <1>1, <2>1, <2>2
  <2>4. <<x, y>>[1].to = x.to
    BY <1>3
  <2> DEFINE c == <<x, y>>
  <2> HIDE DEF c
  <2> QED BY <2>1, <2>3, <2>4 DEF c
<1>7. /\ \A c \in D!Crossed(X!PeriodicSides, Y!PeriodicSides) :
           \E iy \in Inner : c[1].to = NodesOf(SidesAt(iy))
      /\ \A c \in D!Crossed(X!PeriodicEnds, Y!PeriodicEnds) :
           \E ix \in 1 .. nx - 1 : c[1].to = NodesOf(EndsAt(ix))
  BY <1>2, <1>4 DEF SideStencils, EndStencils
<1>8. \A c \in D!Crossed({X!PeriodicCorner}, {Y!PeriodicCorner}) : c[1].to = NodesOf(CornersAt)
  BY <1>2, <1>4 DEF CornerStencil
<1>9. <<X!PeriodicCorner, Y!PeriodicCorner>> \in D!Crossed({X!PeriodicCorner}, {Y!PeriodicCorner})
  BY <1>1, <1>4 DEF CornerStencil
<1> QED BY <1>5, <1>6, <1>7, <1>8, <1>9

LEMMA TwinStoresD ==
  WideGrid => \A a : TwinStores(D!ProjectNodalIntensiveVariableOrder2BoundaryDirect(a))
<1> SUFFICES ASSUME WideGrid, NEW a
             PROVE  TwinStores(D!ProjectNodalIntensiveVariableOrder2BoundaryDirect(a))
  OBVIOUS
<1> DEFINE value(c) == D!Computed("node", c[1].at, D!X!NodalReads(a, c[1]) \cup D!Y!NodalReads(a, c[2]))
           one(c) == {<<n, value(c)>> : n \in c[1].to}
           over(S) == UNION {one(c) : c \in S}
           sides   == D!Crossed(X!PeriodicSides, Y!PeriodicSides)
           ends    == D!Crossed(X!PeriodicEnds, Y!PeriodicEnds)
           corners == D!Crossed({X!PeriodicCorner}, {Y!PeriodicCorner})
           to(S) == [c \in S |-> c[1].to]
           g(S)  == [c \in S |-> value(c)]
<1>1. \A xs, ys : D!Projected(a, xs, ys) = over(D!Crossed(xs, ys))
  BY DEF D!Projected
<1>2. \A zeros : D!Zeros(zeros) = Zeros(zeros)
  <2>1. D!Zero = Zero
    BY DEF D!Zero, Zero
  <2> QED BY <2>1 DEF D!Zeros, Zeros
<1>3. D!CornerNodes = CornerNodes /\ D!Ends = Ends
  <2>1. \A x, y, n : D!NodeAt(x, y, n) = NodeAt(x, y, n)
    BY DEF D!NodeAt, NodeAt
  <2> QED BY <2>1 DEF D!CornerNodes, CornerNodes, D!Ends, Ends
<1>4. \A S, zeros : StoresOf(S, to(S), g(S), zeros) = over(S) \cup Zeros(zeros)
  <2> TAKE S, zeros
  <2>1. \A c \in S : {<<n, g(S)[c]>> : n \in to(S)[c]} = one(c)
    OBVIOUS
  <2> DEFINE given(c) == {<<n, g(S)[c]>> : n \in to(S)[c]}
  <2>2. StoresOf(S, to(S), g(S), zeros) = (UNION {given(c) : c \in S}) \cup Zeros(zeros)
    BY DEF StoresOf
  <2>3. \A c \in S : given(c) = one(c)
    BY <2>1
  <2> HIDE DEF given, one
  <2> QED BY <2>2, <2>3
<1>5. WallsX => WallsY
  BY DEF WallsX, WallsY
<1>6. \A S, R, Q : over(S) \cup over(R) \cup over(Q) = over(S \cup R \cup Q) \cup Zeros({})
  <2>1. Zeros({}) = {}
    BY DEF Zeros
  <2> HIDE DEF one
  <2> QED BY <2>1
<1>7. CASE BoundaryConditions = "RayleighTaylor"
  <2>1. D!ProjectNodalIntensiveVariableOrder2BoundaryDirect(a) = over(sides) \cup Zeros(CornerNodes \cup Ends)
    <3>1. D!ProjectNodalIntensiveVariableOrder2BoundaryDirect(a)
            = D!Projected(a, D!X!PeriodicSides, D!Y!PeriodicSides) \cup D!Zeros(D!CornerNodes \cup D!Ends)
      BY <1>7 DEF D!ProjectNodalIntensiveVariableOrder2BoundaryDirect,
                  D!ProjectNodalIntensiveVariableOrder2BoundaryRtDirect
    <3> HIDE DEF over
    <3> QED BY <1>1, <1>2, <1>3, <3>1, SameStencilsX, SameStencilsY
  <2>2. \A c \in sides : to(sides)[c] = c[1].to
    OBVIOUS
  <2>3. ~WallsX /\ WallsY
    BY <1>7 DEF WallsX, WallsY
  <2> HIDE DEF over, to, g, sides
  <2>4. Seams(sides, to(sides), CornerNodes \cup Ends)
    BY <2>2, <2>3, CrossedSeams DEF Seams, sides
  <2>5. TwinStores(StoresOf(sides, to(sides), g(sides), CornerNodes \cup Ends))
    BY <1>5, <2>4, SeamStores
  <2> QED BY <1>4, <2>1, <2>5
<1>8. CASE BoundaryConditions \notin {"RayleighTaylor", "Wall"}
  <2> DEFINE T == sides \cup ends \cup corners
  <2>1. D!ProjectNodalIntensiveVariableOrder2BoundaryDirect(a) = over(sides) \cup over(ends) \cup over(corners)
    <3>1. D!ProjectNodalIntensiveVariableOrder2BoundaryDirect(a)
            = D!Projected(a, D!X!PeriodicSides, D!Y!PeriodicSides) \cup
              D!Projected(a, D!X!PeriodicEnds, D!Y!PeriodicEnds) \cup
              D!Projected(a, {D!X!PeriodicCorner}, {D!Y!PeriodicCorner})
      BY <1>8 DEF D!ProjectNodalIntensiveVariableOrder2BoundaryDirect,
                  D!ProjectNodalIntensiveVariableOrder2PeriodicBoundaryDirect
    <3> HIDE DEF over
    <3> QED BY <1>1, <3>1, SameStencilsX, SameStencilsY
  <2>2. \A c \in T : to(T)[c] = c[1].to
    OBVIOUS
  <2>3. ~WallsX /\ ~WallsY
    BY <1>8 DEF WallsX, WallsY
  <2> HIDE DEF over, to, g, sides, ends, corners
  <2>4. /\ \A c \in sides : \E iy \in Inner : to(T)[c] = NodesOf(SidesAt(iy))
        /\ \A iy \in Inner : \E c \in sides : to(T)[c] = NodesOf(SidesAt(iy))
        /\ \A c \in ends : \E ix \in 1 .. nx - 1 : to(T)[c] = NodesOf(EndsAt(ix))
        /\ \A ix \in 1 .. nx - 1 : \E c \in ends : to(T)[c] = NodesOf(EndsAt(ix))
        /\ \A c \in corners : to(T)[c] = NodesOf(CornersAt)
        /\ \E c \in corners : to(T)[c] = NodesOf(CornersAt)
    <3>1. /\ \A c \in sides : to(T)[c] = c[1].to
          /\ \A c \in ends : to(T)[c] = c[1].to
          /\ \A c \in corners : to(T)[c] = c[1].to
      BY <2>2
    <3> HIDE DEF T
    <3> QED BY <3>1, CrossedSeams DEF sides, ends, corners
  <2>6. Seams(T, to(T), {})
    BY <2>3, <2>4 DEF Seams
  <2>5. TwinStores(StoresOf(T, to(T), g(T), {}))
    BY <1>5, <2>6, SeamStores
  <2> QED BY <1>4, <1>6, <2>1, <2>5
<1>9. CASE BoundaryConditions = "Wall"
  <2>1. PICK S, zeros : D!ProjectNodalIntensiveVariableOrder2BoundaryDirect(a) = over(S) \cup Zeros(zeros)
    <3>1. \E xs, ys, zeros : D!ProjectNodalIntensiveVariableOrder2BoundaryDirect(a)
                               = D!Projected(a, xs, ys) \cup D!Zeros(zeros)
      BY <1>9 DEF D!ProjectNodalIntensiveVariableOrder2BoundaryDirect,
                  D!ProjectNodalIntensiveVariableOrder2UxWallBoundaryDirect,
                  D!ProjectNodalIntensiveVariableOrder2UyWallBoundaryDirect
    <3> HIDE DEF over
    <3> QED BY <1>1, <1>2, <3>1
  <2>2. WallsX
    BY <1>9 DEF WallsX
  <2> HIDE DEF over, to, g
  <2>3. TwinStores(StoresOf(S, to(S), g(S), zeros))
    BY <1>5, <2>2, SeamStores
  <2> QED BY <1>4, <2>1, <2>3
<1> QED BY <1>7, <1>8, <1>9

-----------------------------------------------------------------------------
\* The boundary kernels of the two sweeps, and that of both directions, make twins equal.
NodalBoundaries(last_u, last_v) ==
  /\ pc = last_u => TwinsEqual(mem'["out_u"])
  /\ pc = last_v => TwinsEqual(mem'["out_v"])

LEMMA BoundariesX ==
  ASSUME WideGrid, SizesInv, X!Next
  PROVE  NodalBoundaries("project_ux_boundary", "project_uy_boundary")
<1>1. \A a \in {"out_u", "out_v"} :
        TwinsEqual(X!Stored(mem[a], X!ProjectNodalIntensiveVariableOrder2XBoundary(a)))
  BY SizesOfFluxes, SameStoresX, TwinStoresX, TwinsStored
<1>2. "out_u" \in DOMAIN mem /\ "out_v" \in DOMAIN mem
  BY SizesOfFluxes
<1>3. ASSUME pc = "project_ux_boundary" PROVE TwinsEqual(mem'["out_u"])
  <2>1. X!BoundaryOf({"out_u"}, X!ProjectNodalIntensiveVariableOrder2XBoundary, "gradient_v", X!NodeRows)
    BY <1>3 DEF X!Next, X!ComputeDirectionalLagrangianQuantitiesX, X!Gradient, X!GradientBoundary, X!Flux,
                X!FluxBoundary, X!Balance, X!NodalGradient, X!NodalGradientBoundary, X!NodalBalance,
                X!NodalBalanceBoundary
  <2> QED BY <1>1, <1>2, <2>1 DEF X!BoundaryOf
<1>4. ASSUME pc = "project_uy_boundary" PROVE TwinsEqual(mem'["out_v"])
  <2>1. X!BoundaryOf({"out_v"}, X!ProjectNodalIntensiveVariableOrder2XBoundary, "done", {})
    BY <1>4 DEF X!Next, X!ComputeDirectionalLagrangianQuantitiesX, X!Gradient, X!GradientBoundary, X!Flux,
                X!FluxBoundary, X!Balance, X!NodalGradient, X!NodalGradientBoundary, X!NodalBalance,
                X!NodalBalanceBoundary
  <2> QED BY <1>1, <1>2, <2>1 DEF X!BoundaryOf
<1> QED BY <1>3, <1>4 DEF NodalBoundaries

LEMMA BoundariesY ==
  ASSUME WideGrid, SizesInv, Y!Next
  PROVE  NodalBoundaries("project_ux_boundary", "project_uy_boundary")
<1>1. \A a \in {"out_u", "out_v"} :
        TwinsEqual(Y!Stored(mem[a], Y!ProjectNodalIntensiveVariableOrder2YBoundary(a)))
  BY SizesOfFluxes, SameStoresY, TwinStoresY, TwinsStored
<1>2. "out_u" \in DOMAIN mem /\ "out_v" \in DOMAIN mem
  BY SizesOfFluxes
<1>3. ASSUME pc = "project_ux_boundary" PROVE TwinsEqual(mem'["out_u"])
  <2>1. Y!BoundaryOf({"out_u"}, Y!ProjectNodalIntensiveVariableOrder2YBoundary, "gradient_v", Y!Inner)
    BY <1>3 DEF Y!Next, Y!ComputeDirectionalLagrangianQuantitiesY, Y!Gradient, Y!GradientBoundary, Y!Flux,
                Y!FluxBoundary, Y!Balance, Y!NodalGradient, Y!NodalGradientBoundary, Y!NodalBalance,
                Y!NodalBalanceBoundary
  <2> QED BY <1>1, <1>2, <2>1 DEF Y!BoundaryOf
<1>4. ASSUME pc = "project_uy_boundary" PROVE TwinsEqual(mem'["out_v"])
  <2>1. Y!BoundaryOf({"out_v"}, Y!ProjectNodalIntensiveVariableOrder2YBoundary, "done", {})
    BY <1>4 DEF Y!Next, Y!ComputeDirectionalLagrangianQuantitiesY, Y!Gradient, Y!GradientBoundary, Y!Flux,
                Y!FluxBoundary, Y!Balance, Y!NodalGradient, Y!NodalGradientBoundary, Y!NodalBalance,
                Y!NodalBalanceBoundary
  <2> QED BY <1>1, <1>2, <2>1 DEF Y!BoundaryOf
<1> QED BY <1>3, <1>4 DEF NodalBoundaries

LEMMA BoundariesD ==
  ASSUME WideGrid, SizesInv, D!Next
  PROVE  NodalBoundaries(28, 34)
<1>1. \A a \in {"out_u", "out_v"} : TwinsEqual(D!Stored(mem[a], D!BoundaryStores(a)))
  BY SizesOfFluxes, SameStoresD, TwinStoresD, TwinsStored DEF D!BoundaryStores
<1>2. "out_u" \in DOMAIN mem /\ "out_v" \in DOMAIN mem
  BY SizesOfFluxes
<1>3. \A outs : Boundary(outs).part = "boundary" /\ Boundary(outs).outs = outs
  BY DEF Boundary
<1>4. ASSUME NEW a, a \in DOMAIN mem, NEW n \in 1 .. 35, pc = n, D!Driver[n] = Boundary({a})
      PROVE  mem'[a] = D!Stored(mem[a], D!BoundaryStores(a))
  <2>1. ~D!Row
    BY <1>3, <1>4 DEF D!Row, D!LoopRow
  <2>2. D!Edge
    BY <2>1 DEF D!Next
  <2> QED BY <1>3, <1>4, <2>2 DEF D!Edge, D!BoundaryCall, D!BoundaryOf
<1> QED BY <1>1, <1>2, <1>4, Calls DEF NodalBoundaries

\* Twins are those of the same nodes as long as the grid does not change.
LEMMA SameTwinsNext ==
  ASSUME SameSize, NEW a
  PROVE  TwinsEqual(mem[a])' <=> TwinsEqual(mem'[a])
<1>1. (\A p : At("node", p)' = At("node", p)) /\ Places("node")' = Places("node")
  BY SameGridNext DEF SameSize
<1>2. WallsX' = WallsX /\ WallsY' = WallsY
  BY DEF WallsX, WallsY, SameSize
<1>3. \A p : Twin(p)' = Twin(p)
  BY <1>2 DEF Twin, Fold, Folded, SameSize
<1> QED BY <1>1, <1>3 DEF TwinsEqual

\* The inductive invariant: twins are equal in each velocity that a driver has completed, and
\* in those of the next step.
SweepTwins ==
  /\ pc \in UKnown => TwinsEqual(mem["out_u"])
  /\ pc = "done" => TwinsEqual(mem["out_v"])

DirectTwins ==
  /\ pc \in 1 .. 36
  /\ pc \in 29 .. 36 => TwinsEqual(mem["out_u"])
  /\ pc \in 35 .. 36 => TwinsEqual(mem["out_v"])

TwinsInv ==
  /\ Running("X") \/ Running("Y") => SweepTwins
  /\ Running("Direct") => DirectTwins
  /\ drivers = <<>> => TwinsEqual(mem["u"]) /\ TwinsEqual(mem["v"])

LEMMA SweepTwinsNext ==
  ASSUME WideGrid, SizesInv, SweepTwins, X!Next \/ Y!Next
  PROVE  SweepTwins'
<1>1. KernelsX \/ KernelsY
  BY StepsX, StepsY
<1>2. SameSize
  BY <1>1 DEF KernelsX, KernelsY, Kernel, Keeps
<1>3. NodalBoundaries("project_ux_boundary", "project_uy_boundary")
  BY BoundariesX, BoundariesY
<1>4. "out_u" \in DOMAIN mem /\ "out_v" \in DOMAIN mem
  BY SizesOfFluxes
<1>5. /\ pc' \in UKnown => \/ pc = "project_ux_boundary"
                           \/ pc \in UKnown /\ mem'["out_u"] = mem["out_u"]
      /\ pc' = "done" => pc = "project_uy_boundary"
  <2>1. CASE KernelsX
    BY <1>4, <2>1 DEF KernelsX, Kernel, Keeps, UKnown
  <2>2. CASE KernelsY
    BY <1>4, <2>2 DEF KernelsY, Kernel, Keeps, UKnown
  <2> QED BY <1>1, <2>1, <2>2
<1>6. pc' \in UKnown => TwinsEqual(mem'["out_u"])
  BY <1>3, <1>5 DEF NodalBoundaries, SweepTwins
<1>7. pc' = "done" => TwinsEqual(mem'["out_v"])
  BY <1>3, <1>5 DEF NodalBoundaries
<1> QED BY <1>2, <1>6, <1>7, SameTwinsNext DEF SweepTwins, UKnown

LEMMA DirectTwinsNext ==
  ASSUME WideGrid, SizesInv, DirectTwins, D!Next
  PROVE  DirectTwins'
<1>1. PICK outs : KernelD(outs)
  BY StepsD
<1>2. SameSize /\ pc \in 1 .. 35 /\ outs = D!Driver[pc].outs /\ (pc' = pc + 1 \/ pc' = pc)
  BY <1>1 DEF KernelD, Keeps
<1>3. NodalBoundaries(28, 34)
  BY BoundariesD
<1>4. \A a \in {"out_u", "out_v"} : a \notin outs => mem'[a] = mem[a]
  BY <1>1, SizesOfFluxes DEF KernelD, Keeps
<1>5. ("out_u" \in outs <=> pc \in {27, 28}) /\ ("out_v" \in outs <=> pc \in {33, 34})
  BY <1>2, StoringCalls
<1>6. pc' \in 29 .. 36 => TwinsEqual(mem'["out_u"])
  <2>1. pc' \in 29 .. 36 => pc = 28 \/ (pc \in 29 .. 36 /\ mem'["out_u"] = mem["out_u"])
    BY <1>2, <1>4, <1>5
  <2> QED BY <1>3, <2>1 DEF NodalBoundaries, DirectTwins
<1>7. pc' \in 35 .. 36 => TwinsEqual(mem'["out_v"])
  <2>1. pc' \in 35 .. 36 => pc = 34 \/ (pc \in 35 .. 36 /\ mem'["out_v"] = mem["out_v"])
    BY <1>2, <1>4, <1>5
  <2> QED BY <1>3, <2>1 DEF NodalBoundaries, DirectTwins
<1>8. pc' \in 1 .. 36
  BY <1>2
<1> QED BY <1>2, <1>6, <1>7, <1>8, SameTwinsNext DEF DirectTwins

\* At the end of the step Run exchanges the velocities with those that the driver has filled.
LEMMA StepExchanges == mem' = Swapped(StepPairs) => mem'["u"] = mem["out_u"] /\ mem'["v"] = mem["out_v"]
<1>1. "u" \in Arrays /\ "v" \in Arrays /\ "out_u" \in Arrays /\ "out_v" \in Arrays
  BY FluxArrays
<1>2. ASSUME NEW a, NEW b, a \in Arrays, b \in Arrays, mem' = Swapped(StepPairs),
             \A c : <<a, c>> \in StepPairs \/ <<c, a>> \in StepPairs <=> c = b
      PROVE  mem'[a] = mem[b]
  <2> DEFINE others == {c \in Arrays : <<a, c>> \in StepPairs \/ <<c, a>> \in StepPairs}
  <2>1. mem'[a] = IF others = {} THEN mem[a] ELSE mem[CHOOSE c \in others : TRUE]
    BY <1>2 DEF Swapped
  <2>2. others = {b}
    BY <1>2
  <2> HIDE DEF others
  <2> QED BY <2>1, <2>2
<1>3. /\ \A c : <<"u", c>> \in StepPairs \/ <<c, "u">> \in StepPairs <=> c = "out_u"
      /\ \A c : <<"v", c>> \in StepPairs \/ <<c, "v">> \in StepPairs <=> c = "out_v"
  BY DEF StepPairs
<1> QED BY <1>1, <1>2, <1>3

LEMMA TwinsNext == FrameInv /\ TwinsInv /\ [Next]_allvars => TwinsInv'
<1> SUFFICES ASSUME FrameInv, TwinsInv, [Next]_allvars PROVE TwinsInv'
  OBVIOUS
<1>0. WideGrid /\ SizesInv /\ DriversInv
  BY DEF FrameInv
<1>1. CASE UNCHANGED allvars
  <2>1. SameSize /\ UNCHANGED <<mem, pc, drivers>>
    BY <1>1 DEF allvars, vars, SameSize
  <2>2. \A a : TwinsEqual(mem[a])' <=> TwinsEqual(mem[a])
    BY <2>1, SameTwinsNext
  <2>3. (SweepTwins => SweepTwins') /\ (DirectTwins => DirectTwins')
    BY <2>1, <2>2 DEF SweepTwins, DirectTwins, UKnown
  <2>4. \A d : Running(d)' = Running(d)
    BY <2>1 DEF Running
  <2> QED BY <2>1, <2>2, <2>3, <2>4 DEF TwinsInv
<1>2. CASE Lagrange2dDriver
  <2>1. Running("Lagrange")' /\ drivers' # <<>>
    BY <1>2 DEF Lagrange2dDriver, Running
  <2> QED BY <2>1 DEF TwinsInv, Running
<1>3. CASE AdProjection2dXDriver
  <2>1. X!Next /\ Running("X") /\ ~Running("Direct")' /\ drivers' # <<>>
    BY <1>3 DEF AdProjection2dXDriver, Running
  <2> QED BY <1>0, <2>1, SweepTwinsNext DEF TwinsInv
<1>4. CASE AdProjection2dYDriver
  <2>1. Y!Next /\ Running("Y") /\ ~Running("Direct")' /\ drivers' # <<>>
    BY <1>4 DEF AdProjection2dYDriver, Running
  <2> QED BY <1>0, <2>1, SweepTwinsNext DEF TwinsInv
<1>5. CASE DirectProjection2dDriver
  <2>1. D!Next /\ Running("Direct") /\ ~Running("X")' /\ ~Running("Y")' /\ drivers' # <<>>
    BY <1>5 DEF DirectProjection2dDriver, Running
  <2> QED BY <1>0, <2>1, DirectTwinsNext DEF TwinsInv
<1>6. CASE Project \/ SecondSweep \/ EndStep
  <2>1. Entered
    BY <1>0, <1>6, DriverEnters
  <2>2. pc' = "volume_flux" => SweepTwins'
    BY DEF SweepTwins, UKnown
  <2>3. pc' = 1 => DirectTwins'
    BY DEF DirectTwins
  <2>4. drivers' = <<>> => TwinsEqual(mem["u"])' /\ TwinsEqual(mem["v"])'
    <3> SUFFICES ASSUME drivers' = <<>> PROVE TwinsEqual(mem["u"])' /\ TwinsEqual(mem["v"])'
      OBVIOUS
    <3>1. EndStep
      <4>1. drivers' = Tail(drivers) \/ EndStep
        BY <1>6 DEF Project, SecondSweep, Enter
      <4>2. ASSUME ~EndStep PROVE FALSE
        <5>1. Len(drivers) > 1 /\ Tail(drivers) = <<>>
          BY <1>6, <4>1, <4>2 DEF Project, SecondSweep
        <5>2. Tail(<<"Lagrange", "X", "Y">>) = <<"X", "Y">> /\ Tail(<<"Lagrange", "Y", "X">>) = <<"Y", "X">>
              /\ Tail(<<"Lagrange", "Direct">>) = <<"Direct">>
              /\ Tail(<<"X", "Y">>) = <<"Y">> /\ Tail(<<"Y", "X">>) = <<"X">>
          OBVIOUS
        <5> QED BY <1>0, <5>1, <5>2 DEF DriversInv
      <4> QED BY <4>2
    <3>2. SameSize /\ mem' = Swapped(StepPairs)
      BY <3>1 DEF EndStep, Enter, SameSize
    <3>3. TwinsEqual(mem["out_u"]) /\ TwinsEqual(mem["out_v"])
      <4>1. CASE Running("Direct")
        <5>1. pc = 36
          BY <3>1, <4>1, Calls DEF EndStep, Returned, D!Done
        <5> QED BY <4>1, <5>1 DEF TwinsInv, DirectTwins
      <4>2. CASE ~Running("Direct")
        BY <3>1, <4>2 DEF EndStep, Returned, TwinsInv, SweepTwins, UKnown
      <4> QED BY <4>1, <4>2
    <3> QED BY <3>2, <3>3, StepExchanges, SameTwinsNext
  <2> QED BY <2>1, <2>2, <2>3, <2>4 DEF TwinsInv, Entered
<1> QED BY <1>1, <1>2, <1>3, <1>4, <1>5, <1>6 DEF Next

\* After a step the velocities on the two sides of a seam agree, on a grid of any size, whichever
\* projection has run and even where they did not agree when it began.
THEOREM TwinsAgreeAfterStep == Spec => []TwinsAgree
<1>1. Init => FrameInv /\ TwinsInv
  <2> SUFFICES ASSUME Init PROVE TwinsInv
    BY FrameInitially
  <2>1. drivers # <<>> /\ Head(drivers) = "Lagrange"
    BY DEF Init, DriversOf
  <2> QED BY <2>1 DEF TwinsInv, Running
<1>2. FrameInv /\ TwinsInv /\ [Next]_allvars => (FrameInv /\ TwinsInv)'
  BY FrameNext, TwinsNext
<1>3. TwinsInv => TwinsAgree
  BY DEF TwinsInv, TwinsAgree, TwinsEqual, Twin
<1> QED BY <1>1, <1>2, <1>3, PTL DEF Spec

-----------------------------------------------------------------------------
\* The balances that the driver of both directions checks are those of the two sweeps.
LEMMA SameBalances ==
  /\ \A S : D!X!Balanced(S) = X!Balanced(S)
  /\ \A S : D!Y!Balanced(S) = Y!Balanced(S)
<1>1. \A S : D!X!Balanced(S) = X!Balanced(S)
  BY DEF D!X!Balanced, X!Balanced, D!X!Net, X!Net, D!X!CellNet, X!CellNet, D!X!DualNet, X!DualNet,
         D!X!Is, X!Is, D!X!Zero, X!Zero, D!X!CellFaceM1O, X!CellFaceM1O, D!X!CellFaceP1O, X!CellFaceP1O
<1>2. \A S : D!Y!Balanced(S) = Y!Balanced(S)
  BY DEF D!Y!Balanced, Y!Balanced, D!Y!Net, Y!Net, D!Y!CellNet, Y!CellNet, D!Y!DualNet, Y!DualNet,
         D!Y!Is, Y!Is, D!Y!Zero, Y!Zero, D!Y!CellFaceOM1, Y!CellFaceOM1, D!Y!CellFaceOP1, Y!CellFaceOP1
<1> QED BY <1>1, <1>2

-----------------------------------------------------------------------------
\* The rows that the loops over the nodes have left are rows inside the grid.
NodalRowsInv ==
  /\ Running("X") \/ Running("Y") => (pc \in {"project_ux", "project_uy"} => todo \subseteq Inner)
  /\ Running("Direct") => (pc \in {27, 33} => todo \subseteq Inner)

LEMMA NodalRowsNext == FrameInv /\ NodalRowsInv /\ [Next]_allvars => NodalRowsInv'
<1> SUFFICES ASSUME FrameInv, NodalRowsInv, [Next]_allvars PROVE NodalRowsInv'
  OBVIOUS
<1> DEFINE loops == {"project_ux", "project_uy"}
<1>1. CASE UNCHANGED allvars
  BY <1>1 DEF allvars, vars, NodalRowsInv, Running, Inner
<1>2. CASE Lagrange2dDriver
  <2>1. Running("Lagrange")' /\ drivers' # <<>>
    BY <1>2 DEF Lagrange2dDriver, Running
  <2> QED BY <2>1 DEF NodalRowsInv, Running
<1>3. CASE AdProjection2dXDriver \/ AdProjection2dYDriver
  <2>1. /\ Running("X") \/ Running("Y")
        /\ ~Running("Direct")' /\ (KernelsX \/ KernelsY)
    BY <1>3, StepsX, StepsY DEF AdProjection2dXDriver, AdProjection2dYDriver, Running
  <2>2. Inner' = Inner
    BY <2>1 DEF KernelsX, KernelsY, Kernel, Keeps, SameSize, Inner
  <2>3. pc' \in loops => todo' = Inner \/ (pc \in loops /\ todo' \subseteq todo)
    <3>1. CASE KernelsX
      BY <3>1 DEF KernelsX, Kernel
    <3>2. CASE KernelsY
      BY <3>2 DEF KernelsY, Kernel
    <3> QED BY <2>1, <3>1, <3>2
  <2> QED BY <2>1, <2>2, <2>3 DEF NodalRowsInv
<1>4. CASE DirectProjection2dDriver
  <2>1. /\ Running("Direct") /\ ~Running("X")' /\ ~Running("Y")'
        /\ \E outs : KernelD(outs)
    BY <1>4, StepsD DEF DirectProjection2dDriver, Running
  <2>2. PICK outs : KernelD(outs)
    BY <2>1
  <2>3. Inner' = Inner
    BY <2>2 DEF KernelD, Keeps, SameSize, Inner
  <2>4. pc' \in {27, 33} => todo' = Inner \/ (pc \in {27, 33} /\ todo' \subseteq todo)
    <3>1. \/ pc' = pc + 1 /\ todo' = D!RowsFor(D!Driver, pc + 1, D!Rows)
          \/ pc' = pc /\ todo' \subseteq todo
      BY <2>2 DEF KernelD
    <3>2. CASE pc' = pc + 1 /\ todo' = D!RowsFor(D!Driver, pc + 1, D!Rows)
      BY <3>2, RowsD
    <3>3. CASE pc' = pc /\ todo' \subseteq todo
      BY <3>3
    <3> QED BY <3>1, <3>2, <3>3
  <2> QED BY <2>1, <2>3, <2>4 DEF NodalRowsInv
<1>5. CASE Project \/ SecondSweep \/ EndStep
  BY <1>5, DriverEnters DEF FrameInv, Entered, NodalRowsInv
<1> QED BY <1>1, <1>2, <1>3, <1>4, <1>5 DEF Next

LEMMA VelocityCalls ==
  ASSUME NEW a \in {"out_u", "out_v"}
  PROVE  /\ D!Calling(Loop({a})) => pc \in {27, 33}
         /\ D!Calling(Boundary({a})) => pc \in {28, 34}
<1>1. \A outs : /\ Loop(outs).outs = outs /\ Loop(outs).part = "loop"
                 /\ Boundary(outs).outs = outs /\ Boundary(outs).part = "boundary"
  BY DEF Loop, Boundary
<1>2. D!Calling(Loop({a})) \/ D!Calling(Boundary({a})) => pc \in 1 .. 35 /\ a \in D!Driver[pc].outs
  BY <1>1, Calls DEF D!Calling
<1>3. D!Calling(Loop({a})) \/ D!Calling(Boundary({a})) => pc \in {27, 28, 33, 34}
  BY <1>2, StoringCalls
<1> QED BY <1>1, <1>3, Calls DEF D!Calling

\* A uniform velocity stays uniform: on a grid of any size, with any order of the rows and
\* whichever driver runs, the mass that comes through the sides of the dual cell of a node is
\* what its four cells gain: inside the grid, around the seams, and along the walls that the
\* sweep follows; not along those it ends at.
THEOREM DualCellsAreBalanced == Spec => []DualCellsBalance
<1>1. Init => FrameInv /\ FluxesInv /\ NodalRowsInv
  <2> SUFFICES ASSUME Init PROVE FluxesInv /\ NodalRowsInv
    BY FrameInitially
  <2>1. drivers # <<>> /\ Head(drivers) = "Lagrange"
    BY DEF Init, DriversOf
  <2> QED BY <2>1 DEF FluxesInv, NodalRowsInv, Running
<1>2. FrameInv /\ FluxesInv /\ NodalRowsInv /\ [Next]_allvars => (FrameInv /\ FluxesInv /\ NodalRowsInv)'
  BY FrameNext, FluxesNext, NodalRowsNext
<1>3. FrameInv /\ FluxesInv /\ NodalRowsInv => DualCellsBalance
  <2> SUFFICES ASSUME FrameInv, FluxesInv, NodalRowsInv PROVE DualCellsBalance
    OBVIOUS
  <2>1. WideGrid /\ X!WallsX = WallsX
    BY SameGridX DEF FrameInv
  <2>0. /\ Given("mass_flux_x") => FacesAgree(mem["mass_flux_x"], "facex")
        /\ Given("mass_flux_y") => FacesAgree(mem["mass_flux_y"], "facey")
    BY <2>1, CompleteAgrees, FluxKindsX, FluxKindsY DEF Given, FaceKinds, MassAndEnergyX, MassAndEnergyY
  <2>2. ASSUME Running("X") PROVE X!DualCellsBalance
    <3>1. pc \in {"project_ux", "project_uy"} => Given("mass_flux_x") /\ todo \subseteq Inner
      BY <2>2 DEF FluxesInv, SweepFluxes, FluxStage, MassKnown, UKnown, NodalRowsInv
    <3> QED BY <2>0, <2>1, <3>1, BalancesX DEF X!DualCellsBalance
  <2>3. ASSUME Running("Y") PROVE Y!DualCellsBalance
    <3>1. pc \in {"project_ux", "project_uy"} => Given("mass_flux_y") /\ todo \subseteq Inner
      BY <2>3 DEF FluxesInv, SweepFluxes, FluxStage, MassKnown, UKnown, NodalRowsInv
    <3> QED BY <2>0, <2>1, <3>1, BalancesY DEF Y!DualCellsBalance
  <2>4. ASSUME Running("Direct") PROVE D!DualCellsBalance
    <3>1. pc \in {27, 28, 33, 34} => Given("mass_flux_x") /\ Given("mass_flux_y")
      BY <2>4 DEF FluxesInv, DirectFluxes, DirectStage, FluxStage
    <3>2. pc \in {27, 33} => todo \subseteq Inner
      BY <2>4 DEF NodalRowsInv
    <3>3. /\ \A outs : D!Loop(outs) = Loop(outs) /\ D!Boundary(outs) = Boundary(outs)
          /\ BoundaryConditions # "Wall" => ~WallsX
      BY DEF D!Loop, Loop, D!Boundary, Boundary, WallsX
    <3>4. D!Calling(D!Loop({"out_u"})) \/ D!Calling(D!Loop({"out_v"})) =>
            /\ D!X!Balanced(UNION {D!X!InnerStencils(iy) : iy \in todo})
            /\ D!Y!Balanced(UNION {D!Y!InnerStencils(iy) : iy \in todo})
      <4> SUFFICES ASSUME D!Calling(Loop({"out_u"})) \/ D!Calling(Loop({"out_v"}))
                   PROVE  /\ X!Balanced(UNION {X!InnerStencils(iy) : iy \in todo})
                          /\ Y!Balanced(UNION {Y!InnerStencils(iy) : iy \in todo})
        BY <3>3, SameBalances, SameStencilsX, SameStencilsY
      <4>1. pc \in {27, 33}
        BY VelocityCalls
      <4> QED BY <2>0, <2>1, <3>1, <3>2, <4>1, BalancesX, BalancesY
    <3>5. ASSUME NEW a \in {"out_u", "out_v"}, D!Calling(D!Boundary({a})), BoundaryConditions # "Wall"
          PROVE  D!X!Balanced(D!X!BoundaryStencils(a)) /\ D!Y!Balanced(D!Y!BoundaryStencils(a))
      <4>1. pc \in {28, 34}
        BY <3>3, <3>5, VelocityCalls
      <4>2. X!Balanced(X!BoundaryStencils(a)) /\ Y!Balanced(Y!BoundaryStencils(a))
        BY <2>0, <2>1, <3>1, <3>3, <3>5, <4>1, BalancesX, BalancesY
      <4> QED BY <4>2, SameBalances, SameStencilsX, SameStencilsY
    <3> QED BY <3>4, <3>5 DEF D!DualCellsBalance
  <2> QED BY <2>2, <2>3, <2>4 DEF DualCellsBalance
<1> QED BY <1>1, <1>2, <1>3, PTL DEF Spec

-----------------------------------------------------------------------------
(* The stores of the Lagrangian driver. *)

\* The kernels of the Lagrangian driver.
LEMMA ValuedL ==
  ASSUME WideGrid, NEW a
  PROVE  /\ \A iy \in 0 .. ny : /\ Valued(L!PressureStores(a, iy)) /\ Valued(L!VelocityStores(a, iy))
                                /\ Valued(L!EnergyStores(a, iy)) /\ Valued(L!CorrectionStores(a, iy))
         /\ Valued(L!BoundaryStores(a))
<1>1. \A q \in GridPlaces : \A k, reads : L!Computed(k, q, reads) \in Values
  BY ResultsAreValues, ComputedResults, SameValues
<1>2. \A q \in GridPlaces : \A of, sw, se, nw, ne, n : L!VelocityAt(of, q, sw, se, nw, ne, n) \in Values
  BY <1>1 DEF L!VelocityAt
<1>3. /\ \A ix \in 0 .. nx, iy \in 0 .. ny : <<ix, iy>> \in GridPlaces
      /\ \A ix \in 1 .. nx - 1 : ix \in 0 .. nx
      /\ \A ix \in 0 .. nx - 1 : ix \in 0 .. nx
      /\ \A iy \in 1 .. ny - 1 : iy \in 0 .. ny
      /\ 0 \in 0 .. nx /\ nx \in 0 .. nx /\ 0 \in 0 .. ny /\ ny \in 0 .. ny
  BY DEF GridPlaces, WideGrid
<1>4. \A v, i : v \in Values => <<i, v>>[2] \in Values
  OBVIOUS
<1>5. \A nodes : Valued(L!Zeros(nodes))
  <2>1. L!Zero \in Values
    BY DEF L!Zero, Values, Zero
  <2> QED BY <2>1 DEF L!Zeros, Valued
<1>6. ASSUME NEW iy \in 0 .. ny
      PROVE  /\ Valued(L!PressureStores(a, iy)) /\ Valued(L!VelocityStores(a, iy))
             /\ Valued(L!EnergyStores(a, iy)) /\ Valued(L!CorrectionStores(a, iy))
  <2>1. ASSUME NEW s \in L!PressureStores(a, iy) PROVE s[2] \in Values
    <3>1. PICK ix \in 0 .. nx - 1 : \E i, reads : s = <<i, L!Computed("cell", <<ix, iy>>, reads)>>
      BY Zenon DEF L!PressureStores
    <3> QED BY <1>1, <1>3, <3>1
  <2>2. ASSUME NEW s \in L!VelocityStores(a, iy) PROVE s[2] \in Values
    <3>1. PICK ix \in 1 .. nx - 1 :
                 \E i, sw, se, nw, ne, n : s = <<i, L!VelocityAt(a, <<ix, iy>>, sw, se, nw, ne, n)>>
      BY Zenon DEF L!VelocityStores
    <3> QED BY <1>2, <1>3, <3>1
  <2>3. ASSUME NEW s \in L!EnergyStores(a, iy) PROVE s[2] \in Values
    <3>1. PICK ix \in 0 .. nx - 1 : \E i, reads : s = <<i, L!Computed("cell", <<ix, iy>>, reads)>>
      BY Zenon DEF L!EnergyStores, L!EnergyAt
    <3> QED BY <1>1, <1>3, <3>1
  <2>4. ASSUME NEW s \in L!CorrectionStores(a, iy) PROVE s[2] \in Values
    <3>1. PICK ix \in 0 .. nx : \E i, reads : s = <<i, L!Computed("node", <<ix, iy>>, reads)>>
      BY Zenon DEF L!CorrectionStores
    <3> QED BY <1>1, <1>3, <3>1
  <2> QED BY <2>1, <2>2, <2>3, <2>4 DEF Valued
<1>7. Valued(L!BoundaryStores(a))
  <2>1. ASSUME NEW s \in L!PeriodicLeftRight(a) PROVE s[2] \in Values
    <3> DEFINE l(iy) == L!Leftmost(iy)
               r(iy) == L!Rightmost(iy)
               value(iy) == L!VelocityAt(a, <<0, iy>>,
                                         L!NodeCellM1M1(r(iy), iy, nx), L!NodeCellP1M1(l(iy), iy, nx),
                                         L!NodeCellM1P1(r(iy), iy, nx), L!NodeCellP1P1(l(iy), iy, nx), l(iy))
    <3>1. PICK iy \in 1 .. ny - 1 : s \in {<<l(iy), value(iy)>>, <<r(iy), value(iy)>>}
      BY <2>1 DEF L!PeriodicLeftRight
    <3>2. value(iy) \in Values
      BY <1>2, <1>3
    <3> HIDE DEF value, l, r
    <3> QED BY <3>1, <3>2
  <2>2. ASSUME NEW s \in L!PeriodicBottomTop(a) PROVE s[2] \in Values
    <3> DEFINE b(ix) == L!Bottom(ix)
               t(ix) == L!Top(ix)
               value(ix) == L!VelocityAt(a, <<ix, 0>>,
                                         L!NodeCellM1M1(t(ix), ny, nx), L!NodeCellP1M1(t(ix), ny, nx),
                                         L!NodeCellM1P1(b(ix), 0, nx), L!NodeCellP1P1(b(ix), 0, nx), b(ix))
    <3>1. PICK ix \in 1 .. nx - 1 : s \in {<<b(ix), value(ix)>>, <<t(ix), value(ix)>>}
      BY <2>2 DEF L!PeriodicBottomTop
    <3>2. value(ix) \in Values
      BY <1>2, <1>3
    <3> HIDE DEF value, b, t
    <3> QED BY <3>1, <3>2
  <2>3. ASSUME NEW s \in L!PeriodicCorners(a) PROVE s[2] \in Values
    <3>1. \E i, sw, se, nw, ne, n : s = <<i, L!VelocityAt(a, <<0, 0>>, sw, se, nw, ne, n)>>
      BY <2>3, Zenon DEF L!PeriodicCorners
    <3> QED BY <1>2, <1>3, <3>1
  <2>4. ASSUME NEW s \in L!WallUx PROVE s[2] \in Values
    <3>1. PICK ix \in 1 .. nx - 1 : \E i, of, sw, se, nw, ne, n :
            \/ s = <<i, L!VelocityAt(of, <<ix, 0>>, sw, se, nw, ne, n)>>
            \/ s = <<i, L!VelocityAt(of, <<ix, ny>>, sw, se, nw, ne, n)>>
      BY <2>4, Zenon DEF L!WallUx
    <3> QED BY <1>2, <1>3, <3>1
  <2>5. ASSUME NEW s \in L!WallUy PROVE s[2] \in Values
    <3>1. PICK iy \in 1 .. ny - 1 : \E i, of, sw, se, nw, ne, n :
            \/ s = <<i, L!VelocityAt(of, <<0, iy>>, sw, se, nw, ne, n)>>
            \/ s = <<i, L!VelocityAt(of, <<nx, iy>>, sw, se, nw, ne, n)>>
      BY <2>5, Zenon DEF L!WallUy
    <3> QED BY <1>2, <1>3, <3>1
  <2>6. /\ Valued(L!PeriodicLeftRight(a)) /\ Valued(L!PeriodicBottomTop(a)) /\ Valued(L!PeriodicCorners(a))
        /\ Valued(L!WallUx) /\ Valued(L!WallUy)
    BY <2>1, <2>2, <2>3, <2>4, <2>5 DEF Valued
  <2>7. \A S, T : Valued(S) /\ Valued(T) => Valued(S \cup T)
    BY DEF Valued
  <2> QED BY <1>5, <2>6, <2>7 DEF L!BoundaryStores, L!RtBoundaryVelocityPrediction,
             L!WallBoundaryVelocityPrediction, L!PeriodicBoundaryVelocityPrediction
<1> QED BY <1>6, <1>7

-----------------------------------------------------------------------------
(* The kernels of the driver of both directions. *)

\* What the driver of both directions computes for a place of the grid is a value too.
LEMMA ComputedInD ==
  ASSUME WideGrid
  PROVE  /\ \A q \in GridPlaces : \A k, reads : /\ D!X!Computed(k, q, reads) \in Values
                                                /\ D!Y!Computed(k, q, reads) \in Values
                                                /\ D!Computed(k, q, reads) \in Values
         /\ \A q \in GridPlaces : \A m1, p1 : D!Y!Mirrored(q, m1, p1) \in Values
         /\ D!Zero \in Values
<1>1. \A k, p : D!X!Fold(k, p) = Fold(k, p) /\ D!Y!Fold(k, p) = Fold(k, p) /\ D!Fold(k, p) = Fold(k, p)
  <2>1. \A k, p : D!X!Fold(k, p) = Fold(k, p)
    BY DEF D!X!Fold, Fold, D!X!Folded, Folded, D!X!WallsX, WallsX, D!X!WallsY, WallsY, D!X!StaggeredX,
           StaggeredX, D!X!StaggeredY, StaggeredY
  <2>2. \A k, p : D!Y!Fold(k, p) = Fold(k, p)
    BY DEF D!Y!Fold, Fold, D!Y!Folded, Folded, D!Y!WallsX, WallsX, D!Y!WallsY, WallsY, D!Y!StaggeredX,
           StaggeredX, D!Y!StaggeredY, StaggeredY
  <2>3. \A k, p : D!Fold(k, p) = Fold(k, p)
    BY DEF D!Fold, Fold, D!Folded, Folded, D!WallsX, WallsX, D!WallsY, WallsY, D!StaggeredX,
           StaggeredX, D!StaggeredY, StaggeredY
  <2> QED BY <2>1, <2>2, <2>3
<1>2. ASSUME NEW q \in GridPlaces, NEW k, NEW reads
      PROVE  /\ D!X!Computed(k, q, reads) \in Values /\ D!Y!Computed(k, q, reads) \in Values
             /\ D!Computed(k, q, reads) \in Values
  <2>1. D!X!Computed(k, q, reads) \in Results(k, q)
    BY <1>1 DEF D!X!Computed, Results, Stamps, D!X!Off, Off, D!X!Derived, Derived
  <2>2. D!Y!Computed(k, q, reads) \in Results(k, q)
    BY <1>1 DEF D!Y!Computed, Results, Stamps, D!Y!Off, Off, D!Y!Derived, Derived
  <2>3. D!Computed(k, q, reads) \in Results(k, q)
    BY <1>1 DEF D!Computed, Results, Stamps, D!Off, Off, D!Derived, Derived
  <2> QED BY <2>1, <2>2, <2>3, ResultsAreValues
<1>3. ASSUME NEW q \in GridPlaces, NEW m1, NEW p1 PROVE D!Y!Mirrored(q, m1, p1) \in Values
  <2>1. Y!Mirrored(q, m1, p1) \in Values
    BY ComputedInY
  <2> QED BY <2>1 DEF D!Y!Mirrored, Y!Mirrored, D!Y!Zero, Y!Zero, D!Y!Off, Y!Off
<1>4. D!Zero \in Values
  BY DEF D!Zero, Values, Zero
<1> QED BY <1>2, <1>3, <1>4

\* The kernels of the two sweeps, as the driver of both directions calls them.
LEMMA SharedLoopsX ==
  ASSUME WideGrid, NEW a, NEW iy \in 0 .. ny
  PROVE  /\ Placed(D!X!VolumeFluxStores(a, iy), "facex", (0 .. nx) \X {iy})
         /\ Placed(D!X!DirectionalStores(a, iy), "cell", (0 .. nx - 1) \X {iy})
         /\ Placed(D!X!ReconstructGradientX(a, iy), "cell", (1 .. nx - 2) \X {iy})
         /\ Placed(D!X!ReconstructDensity(a, iy), "cell", (0 .. nx - 1) \X {iy})
         /\ Placed(D!X!ReconstructGradientNodalX(a, iy), "node", (1 .. nx - 1) \X {iy})
<1>1. \A ix \in 0 .. nx : \A k, reads : Put(<<At(k, <<ix, iy>>), D!X!Computed(k, <<ix, iy>>, reads)>>, k, <<ix, iy>>)
  <2> TAKE ix \in 0 .. nx
  <2> TAKE k, reads
  <2>1. <<ix, iy>> \in GridPlaces
    BY DEF GridPlaces
  <2> QED BY <2>1, ComputedInD DEF Put
<1>2. \A ix : /\ At("facex", <<ix, iy>>) = D!X!FaceXAt(ix, iy, nx)
              /\ At("cell", <<ix, iy>>) = D!X!CellAt(ix, iy, nx)
              /\ At("node", <<ix, iy>>) = D!X!NodeAt(ix, iy, nx)
  BY DEF At, StaggeredX, NodeAt, CellAt, D!X!FaceXAt, D!X!CellAt, D!X!NodeAt
<1>3. \A v, f, i, k, p : Put(<<i, f>>, k, p) => Put(<<i, D!X!Driven(v, f)>>, k, p)
  BY DEF D!X!Driven, D!X!Zero, Values, Zero, Put
<1>4. /\ 1 .. nx - 1 \subseteq 0 .. nx /\ 0 .. nx - 1 \subseteq 0 .. nx /\ 1 .. nx - 2 \subseteq 0 .. nx
      /\ \A C, x : x \in C => <<x, iy>> \in C \X {iy}
  BY DEF WideGrid
<1>5. Placed(D!X!VolumeFluxStores(a, iy), "facex", (0 .. nx) \X {iy})
  <2> SUFFICES ASSUME NEW s \in D!X!VolumeFluxStores(a, iy)
               PROVE  \E p \in (0 .. nx) \X {iy} : Put(s, "facex", p)
    BY DEF Placed
  <2>1. PICK ix \in 0 .. nx :
               \E v, reads : s = <<D!X!FaceXAt(ix, iy, nx), D!X!Driven(v, D!X!Computed("facex", <<ix, iy>>, reads))>>
    BY Zenon DEF D!X!VolumeFluxStores
  <2>2. <<ix, iy>> \in (0 .. nx) \X {iy} /\ ix \in 0 .. nx
    BY <1>4
  <2> QED BY <1>1, <1>2, <1>3, <2>1, <2>2
<1>6. Placed(D!X!DirectionalStores(a, iy), "cell", (0 .. nx - 1) \X {iy})
  <2> SUFFICES ASSUME NEW s \in D!X!DirectionalStores(a, iy)
               PROVE  \E p \in (0 .. nx - 1) \X {iy} : Put(s, "cell", p)
    BY DEF Placed
  <2>1. PICK ix \in 0 .. nx - 1 :
               \E reads : s = <<D!X!CellAt(ix, iy, nx), D!X!Computed("cell", <<ix, iy>>, reads)>>
    BY Zenon DEF D!X!DirectionalStores
  <2> QED BY <1>1, <1>2, <1>4, <2>1
<1>7. Placed(D!X!ReconstructGradientX(a, iy), "cell", (1 .. nx - 2) \X {iy})
  <2> SUFFICES ASSUME NEW s \in D!X!ReconstructGradientX(a, iy)
               PROVE  \E p \in (1 .. nx - 2) \X {iy} : Put(s, "cell", p)
    BY DEF Placed
  <2>1. PICK ix \in 1 .. nx - 2 :
               \E reads : s = <<D!X!CellAt(ix, iy, nx), D!X!Computed("cell", <<ix, iy>>, reads)>>
    BY Zenon DEF D!X!ReconstructGradientX, D!X!GradientAt
  <2> QED BY <1>1, <1>2, <1>4, <2>1
<1>10. Placed(D!X!ReconstructDensity(a, iy), "cell", (0 .. nx - 1) \X {iy})
  <2> SUFFICES ASSUME NEW s \in D!X!ReconstructDensity(a, iy)
               PROVE  \E p \in (0 .. nx - 1) \X {iy} : Put(s, "cell", p)
    BY DEF Placed
  <2>1. PICK ix \in 0 .. nx - 1 :
               \E reads : s = <<D!X!CellAt(ix, iy, nx), D!X!Computed("cell", <<ix, iy>>, reads)>>
    BY Zenon DEF D!X!ReconstructDensity
  <2> QED BY <1>1, <1>2, <1>4, <2>1
<1>11. Placed(D!X!ReconstructGradientNodalX(a, iy), "node", (1 .. nx - 1) \X {iy})
  <2> SUFFICES ASSUME NEW s \in D!X!ReconstructGradientNodalX(a, iy)
               PROVE  \E p \in (1 .. nx - 1) \X {iy} : Put(s, "node", p)
    BY DEF Placed
  <2>1. PICK ix \in 1 .. nx - 1 :
               \E reads : s = <<D!X!NodeAt(ix, iy, nx), D!X!Computed("node", <<ix, iy>>, reads)>>
    BY Zenon DEF D!X!ReconstructGradientNodalX, D!X!NodalGradientAt
  <2> QED BY <1>1, <1>2, <1>4, <2>1
<1> QED BY <1>5, <1>6, <1>7, <1>10, <1>11

\* The same of the loops that it takes from the sweep in y.
LEMMA SharedLoopsY ==
  ASSUME WideGrid, NEW a, NEW iy \in 0 .. ny
  PROVE  /\ Placed(D!Y!VolumeFluxStores(a, iy), "facey", (0 .. nx - 1) \X {iy})
         /\ Placed(D!Y!DirectionalStores(a, iy), "cell", (0 .. nx - 1) \X {iy})
         /\ Placed(D!Y!ReconstructGradientY(a, iy), "cell", (0 .. nx - 1) \X {iy})
         /\ Placed(D!Y!ReconstructGradientNodalY(a, iy), "node", (0 .. nx) \X {iy})
<1>1. \A ix \in 0 .. nx : \A k, reads : Put(<<At(k, <<ix, iy>>), D!Y!Computed(k, <<ix, iy>>, reads)>>, k, <<ix, iy>>)
  <2> TAKE ix \in 0 .. nx
  <2> TAKE k, reads
  <2>1. <<ix, iy>> \in GridPlaces
    BY DEF GridPlaces
  <2> QED BY <2>1, ComputedInD DEF Put
<1>2. \A ix : /\ At("facey", <<ix, iy>>) = D!Y!FaceYAt(ix, iy, nx)
              /\ At("cell", <<ix, iy>>) = D!Y!CellAt(ix, iy, nx)
              /\ At("node", <<ix, iy>>) = D!Y!NodeAt(ix, iy, nx)
  BY DEF At, StaggeredX, NodeAt, CellAt, D!Y!FaceYAt, D!Y!CellAt, D!Y!NodeAt
<1>3. \A v, f, i, k, p : Put(<<i, f>>, k, p) => Put(<<i, D!Y!Driven(v, f)>>, k, p)
  BY DEF D!Y!Driven, D!Y!Zero, Values, Zero, Put
<1>4. /\ 1 .. nx - 1 \subseteq 0 .. nx /\ 0 .. nx - 1 \subseteq 0 .. nx /\ 1 .. nx - 2 \subseteq 0 .. nx
      /\ \A C, x : x \in C => <<x, iy>> \in C \X {iy}
  BY DEF WideGrid
<1>5. Placed(D!Y!VolumeFluxStores(a, iy), "facey", (0 .. nx - 1) \X {iy})
  <2> SUFFICES ASSUME NEW s \in D!Y!VolumeFluxStores(a, iy)
               PROVE  \E p \in (0 .. nx - 1) \X {iy} : Put(s, "facey", p)
    BY DEF Placed
  <2>1. PICK ix \in 0 .. nx - 1 :
               \E v, reads : s = <<D!Y!FaceYAt(ix, iy, nx), D!Y!Driven(v, D!Y!Computed("facey", <<ix, iy>>, reads))>>
    BY Zenon DEF D!Y!VolumeFluxStores
  <2>2. <<ix, iy>> \in (0 .. nx - 1) \X {iy} /\ ix \in 0 .. nx
    BY <1>4
  <2> QED BY <1>1, <1>2, <1>3, <2>1, <2>2
<1>6. Placed(D!Y!DirectionalStores(a, iy), "cell", (0 .. nx - 1) \X {iy})
  <2> SUFFICES ASSUME NEW s \in D!Y!DirectionalStores(a, iy)
               PROVE  \E p \in (0 .. nx - 1) \X {iy} : Put(s, "cell", p)
    BY DEF Placed
  <2>1. PICK ix \in 0 .. nx - 1 :
               \E reads : s = <<D!Y!CellAt(ix, iy, nx), D!Y!Computed("cell", <<ix, iy>>, reads)>>
    BY Zenon DEF D!Y!DirectionalStores
  <2> QED BY <1>1, <1>2, <1>4, <2>1
<1>7. Placed(D!Y!ReconstructGradientY(a, iy), "cell", (0 .. nx - 1) \X {iy})
  <2> SUFFICES ASSUME NEW s \in D!Y!ReconstructGradientY(a, iy)
               PROVE  \E p \in (0 .. nx - 1) \X {iy} : Put(s, "cell", p)
    BY DEF Placed
  <2>1. PICK ix \in 0 .. nx - 1 :
               \E reads : s = <<D!Y!CellAt(ix, iy, nx), D!Y!Computed("cell", <<ix, iy>>, reads)>>
    BY Zenon DEF D!Y!ReconstructGradientY, D!Y!GradientAt
  <2> QED BY <1>1, <1>2, <1>4, <2>1
<1>11. Placed(D!Y!ReconstructGradientNodalY(a, iy), "node", (0 .. nx) \X {iy})
  <2> SUFFICES ASSUME NEW s \in D!Y!ReconstructGradientNodalY(a, iy)
               PROVE  \E p \in (0 .. nx) \X {iy} : Put(s, "node", p)
    BY DEF Placed
  <2>1. PICK ix \in 0 .. nx : \E reads : s = <<D!Y!NodeAt(ix, iy, nx), D!Y!Computed("node", <<ix, iy>>, reads)>>
    BY Zenon DEF D!Y!ReconstructGradientNodalY, D!Y!NodalGradientAt
  <2> QED BY <1>1, <1>2, <1>4, <2>1
<1> QED BY <1>5, <1>6, <1>7, <1>11

\* The boundary kernels that it takes from the sweep in x.
LEMMA SharedEdgesX ==
  ASSUME WideGrid, NEW a
  PROVE  /\ Placed(D!X!ReconstructGradientXBoundary(a), "cell", {0, nx - 1} \X CellRows)
         /\ Placed(D!X!ReconstructGradientNodalXBoundary(a), "node", {0, nx} \X NodeRows)
<1>1. /\ nx \in Nat /\ ny \in Nat /\ nx > 1 /\ ny > 1 /\ nx - 1 \in Nat
      /\ \A iy \in CellRows : iy \in Nat /\ iy \in 0 .. ny
      /\ \A iy \in NodeRows : iy \in Nat /\ iy \in 0 .. ny
      /\ 0 \in 0 .. nx /\ nx \in 0 .. nx /\ nx - 1 \in 0 .. nx
  BY DEF WideGrid, CellRows, NodeRows
<1>2. /\ \A x \in 0 .. nx, y \in 0 .. ny : <<x, y>> \in GridPlaces
      /\ \A x, y, C, R : x \in C /\ y \in R => <<x, y>> \in C \X R
  BY DEF GridPlaces
<1>3. D!X!CellRows = CellRows /\ D!X!NodeRows = NodeRows
  BY DEF D!X!CellRows, CellRows, D!X!NodeRows, NodeRows
<1>4. /\ \A iy \in CellRows : At("cell", <<0, iy>>) = nx * iy /\ At("cell", <<nx - 1, iy>>) = nx * iy + nx - 1
      /\ \A iy \in CellRows : At("facex", <<0, iy>>) = D!X!FirstFace(iy) /\ At("facex", <<nx, iy>>) = D!X!LastFace(iy)
      /\ \A ix, iy : At("node", <<ix, iy>>) = D!X!NodeAt(ix, iy, nx)
  BY <1>1 DEF At, StaggeredX, CellAt, NodeAt, D!X!FirstFace, D!X!LastFace, D!X!NodeAt
<1>5. \A p, k, v : v \in Values => Put(<<At(k, p), v>>, k, p)
  BY DEF Put
<1>6. \A S, k : Placed({}, k, S)
  BY DEF Placed
<1>7. Placed(D!X!ReconstructGradientXBoundary(a), "cell", {0, nx - 1} \X CellRows)
  <2>1. Placed(D!X!ReconstructGradientXPeriodicBoundary(a), "cell", {0, nx - 1} \X CellRows)
    <3> SUFFICES ASSUME NEW s \in D!X!ReconstructGradientXPeriodicBoundary(a)
                 PROVE  \E p \in {0, nx - 1} \X CellRows : Put(s, "cell", p)
      BY DEF Placed
    <3>1. PICK iy \in CellRows : \E reads : \/ s = <<nx * iy, D!X!Computed("cell", <<0, iy>>, reads)>>
                                            \/ s = <<nx * iy + nx - 1, D!X!Computed("cell", <<nx - 1, iy>>, reads)>>
      BY <1>3, Zenon DEF D!X!ReconstructGradientXPeriodicBoundary, D!X!GradientAt
    <3>2. /\ <<0, iy>> \in {0, nx - 1} \X CellRows /\ <<nx - 1, iy>> \in {0, nx - 1} \X CellRows
          /\ <<0, iy>> \in GridPlaces /\ <<nx - 1, iy>> \in GridPlaces
      BY <1>1, <1>2
    <3> QED BY <1>4, <1>5, <3>1, <3>2, ComputedInD
  <2> QED BY <1>6, <2>1 DEF D!X!ReconstructGradientXBoundary, D!X!ReconstructGradientXBoundaryRt
<1>9. Placed(D!X!ReconstructGradientNodalXBoundary(a), "node", {0, nx} \X NodeRows)
  <2>1. Placed(D!X!ReconstructGradientNodalXPeriodicBoundary(a), "node", {0, nx} \X NodeRows)
    <3> SUFFICES ASSUME NEW s \in D!X!ReconstructGradientNodalXPeriodicBoundary(a)
                 PROVE  \E p \in {0, nx} \X NodeRows : Put(s, "node", p)
      BY DEF Placed
    <3>1. PICK iy \in NodeRows :
            \E reads : \/ s = <<D!X!NodeAt(0, iy, nx), D!X!Computed("node", <<0, iy>>, reads)>>
                       \/ s = <<D!X!NodeAt(nx, iy, nx), D!X!Computed("node", <<nx, iy>>, reads)>>
      BY <1>3, Zenon DEF D!X!ReconstructGradientNodalXPeriodicBoundary, D!X!NodalGradientAt
    <3>2. /\ <<0, iy>> \in {0, nx} \X NodeRows /\ <<nx, iy>> \in {0, nx} \X NodeRows
          /\ <<0, iy>> \in GridPlaces /\ <<nx, iy>> \in GridPlaces
      BY <1>1, <1>2
    <3> QED BY <1>4, <1>5, <3>1, <3>2, ComputedInD
  <2> QED BY <1>6, <2>1 DEF D!X!ReconstructGradientNodalXBoundary, D!X!ReconstructGradientNodalXBoundaryRt
<1> QED BY <1>7, <1>9

\* The boundary kernels that it takes from the sweep in y.
LEMMA SharedEdgesY ==
  ASSUME WideGrid, NEW a
  PROVE  /\ Placed(D!Y!ReconstructGradientYBoundary(a), "cell", (0 .. nx - 1) \X {0, ny - 1})
         /\ Placed(D!Y!ReconstructGradientNodalYBoundary(a), "node", (0 .. nx) \X {0, ny})
<1>1. /\ nx \in Nat /\ ny \in Nat /\ nx > 1 /\ ny > 1 /\ nx - 1 \in Nat
      /\ \A ix \in 0 .. nx - 1 : ix \in Nat /\ ix \in 0 .. nx
      /\ \A ix \in 0 .. nx : ix \in Nat
      /\ 0 \in 0 .. ny /\ ny \in 0 .. ny /\ ny - 1 \in 0 .. ny
  BY DEF WideGrid
<1>2. /\ \A x \in 0 .. nx, y \in 0 .. ny : <<x, y>> \in GridPlaces
      /\ \A x, y, C, R : x \in C /\ y \in R => <<x, y>> \in C \X R
  BY DEF GridPlaces
<1>4. /\ \A ix, iy : At("cell", <<ix, iy>>) = D!Y!CellAt(ix, iy, nx)
      /\ \A ix \in 0 .. nx - 1 : At("facey", <<ix, 0>>) = D!Y!FirstFace(ix) /\ At("facey", <<ix, ny>>) = D!Y!LastFace(ix)
      /\ \A ix, iy : At("node", <<ix, iy>>) = D!Y!NodeAt(ix, iy, nx)
      /\ \A ix \in 0 .. nx : At("node", <<ix, 0>>) = ix
  BY <1>1 DEF At, StaggeredX, CellAt, NodeAt, D!Y!FirstFace, D!Y!LastFace, D!Y!NodeAt, D!Y!CellAt
<1>5. \A p, k, v : v \in Values => Put(<<At(k, p), v>>, k, p)
  BY DEF Put
<1>6. \A S, k : Placed({}, k, S)
  BY DEF Placed
<1>7. Placed(D!Y!ReconstructGradientYBoundary(a), "cell", (0 .. nx - 1) \X {0, ny - 1})
  <2> DEFINE S == (0 .. nx - 1) \X {0, ny - 1}
  <2>3. \A ix \in 0 .. nx - 1 : /\ <<ix, 0>> \in S /\ <<ix, ny - 1>> \in S
                                /\ <<ix, 0>> \in GridPlaces /\ <<ix, ny - 1>> \in GridPlaces
    BY <1>1, <1>2
  <2> HIDE DEF S
  <2>1. Placed(D!Y!ReconstructGradientYPeriodicBoundary(a), "cell", S)
    <3> SUFFICES ASSUME NEW s \in D!Y!ReconstructGradientYPeriodicBoundary(a)
                 PROVE  \E p \in S : Put(s, "cell", p)
      BY DEF Placed
    <3>1. PICK ix \in 0 .. nx - 1 :
            \E reads : \/ s = <<D!Y!CellAt(ix, 0, nx), D!Y!Computed("cell", <<ix, 0>>, reads)>>
                       \/ s = <<D!Y!CellAt(ix, ny - 1, nx), D!Y!Computed("cell", <<ix, ny - 1>>, reads)>>
      BY Zenon DEF D!Y!ReconstructGradientYPeriodicBoundary, D!Y!GradientAt
    <3> QED BY <1>4, <1>5, <2>3, <3>1, ComputedInD
  <2>2. Placed(D!Y!ReconstructGradientYBoundaryRt(a), "cell", S)
    <3> SUFFICES ASSUME NEW s \in D!Y!ReconstructGradientYBoundaryRt(a)
                 PROVE  \E p \in S : Put(s, "cell", p)
      BY DEF Placed
    <3>1. PICK ix \in 0 .. nx - 1 :
            \E m1, p1 : \/ s = <<D!Y!CellAt(ix, 0, nx), D!Y!Mirrored(<<ix, 0>>, m1, p1)>>
                        \/ s = <<D!Y!CellAt(ix, ny - 1, nx), D!Y!Mirrored(<<ix, ny - 1>>, m1, p1)>>
      BY Zenon DEF D!Y!ReconstructGradientYBoundaryRt
    <3> QED BY <1>4, <1>5, <2>3, <3>1, ComputedInD
  <2>4. Placed(D!Y!ReconstructGradientYBoundary(a), "cell", S)
    BY <1>6, <2>1, <2>2 DEF D!Y!ReconstructGradientYBoundary
  <2> QED BY <2>4 DEF S
<1>9. Placed(D!Y!ReconstructGradientNodalYBoundary(a), "node", (0 .. nx) \X {0, ny})
  <2> DEFINE S == (0 .. nx) \X {0, ny}
  <2>3. \A ix \in 0 .. nx : /\ <<ix, 0>> \in S /\ <<ix, ny>> \in S
                            /\ <<ix, 0>> \in GridPlaces /\ <<ix, ny>> \in GridPlaces
    BY <1>1, <1>2
  <2> HIDE DEF S
  <2>1. Placed(D!Y!ReconstructGradientNodalYPeriodicBoundary(a), "node", S)
    <3> SUFFICES ASSUME NEW s \in D!Y!ReconstructGradientNodalYPeriodicBoundary(a)
                 PROVE  \E p \in S : Put(s, "node", p)
      BY DEF Placed
    <3>1. PICK ix \in 0 .. nx :
            \E reads : \/ s = <<ix, D!Y!Computed("node", <<ix, 0>>, reads)>>
                       \/ s = <<D!Y!NodeAt(ix, ny, nx), D!Y!Computed("node", <<ix, ny>>, reads)>>
      BY Zenon DEF D!Y!ReconstructGradientNodalYPeriodicBoundary, D!Y!NodalGradientAt
    <3> QED BY <1>4, <1>5, <2>3, <3>1, ComputedInD
  <2>2. Placed(D!Y!ReconstructGradientNodalYBoundaryRt(a), "node", S)
    <3> SUFFICES ASSUME NEW s \in D!Y!ReconstructGradientNodalYBoundaryRt(a)
                 PROVE  \E p \in S : Put(s, "node", p)
      BY DEF Placed
    <3>1. PICK ix \in 0 .. nx :
            \E m1, p1 : \/ s = <<ix, D!Y!Mirrored(<<ix, 0>>, m1, p1)>>
                        \/ s = <<D!Y!NodeAt(ix, ny, nx), D!Y!Mirrored(<<ix, ny>>, m1, p1)>>
      BY Zenon DEF D!Y!ReconstructGradientNodalYBoundaryRt
    <3> QED BY <1>4, <1>5, <2>3, <3>1, ComputedInD
  <2>4. Placed(D!Y!ReconstructGradientNodalYBoundary(a), "node", S)
    BY <1>6, <2>1, <2>2 DEF D!Y!ReconstructGradientNodalYBoundary
  <2> QED BY <2>4 DEF S
<1> QED BY <1>7, <1>9

\* The balances of the driver of both directions: their rows, and the boundary.
LEMMA CrossedPlaced ==
  ASSUME WideGrid, NEW a, NEW xs, NEW ys, NEW S,
         \A t \in xs : t.at \in GridPlaces /\ \A n \in t.to : \E p \in S : n = At("node", p)
  PROVE  Placed(D!Projected(a, xs, ys), "node", S)
<1> SUFFICES ASSUME NEW s \in D!Projected(a, xs, ys) PROVE \E p \in S : Put(s, "node", p)
  BY DEF Placed
<1>1. PICK c \in D!Crossed(xs, ys) : \E n \in c[1].to : \E reads : s = <<n, D!Computed("node", c[1].at, reads)>>
  BY Zenon DEF D!Projected
<1>2. c[1] \in xs
  BY DEF D!Crossed
<1>3. PICK n \in c[1].to : \E reads : s = <<n, D!Computed("node", c[1].at, reads)>>
  BY <1>1
<1>4. s[1] = n /\ s[2] \in Values
  BY <1>2, <1>3, ComputedInD
<1> QED BY <1>2, <1>4 DEF Put

\* The loops of its own: a row stores into the elements of that row alone.
LEMMA LoopsD ==
  ASSUME WideGrid, NEW a, NEW iy \in 0 .. ny
  PROVE  /\ Placed(D!ProjectMassDirect(a, iy), "cell", (0 .. nx - 1) \X {iy})
         /\ Placed(D!MassProjectIntensiveVariableDirect(a, iy), "cell", (0 .. nx - 1) \X {iy})
         /\ Placed(D!ProjectNodalIntensiveVariableOrder2Direct(a, iy), "node", (1 .. nx - 1) \X {iy})
<1>1. \A ix \in 0 .. nx - 1 : \A reads :
        Put(<<D!CellAt(ix, iy, nx), D!Computed("cell", <<ix, iy>>, reads)>>, "cell", <<ix, iy>>)
  <2> TAKE ix \in 0 .. nx - 1
  <2>1. ix \in 0 .. nx /\ <<ix, iy>> \in GridPlaces
    BY DEF GridPlaces, WideGrid
  <2>2. D!CellAt(ix, iy, nx) = At("cell", <<ix, iy>>)
    BY DEF At, StaggeredX, CellAt, D!CellAt
  <2> QED BY <2>1, <2>2, ComputedInD DEF Put
<1>2. \A C, x : x \in C => <<x, iy>> \in C \X {iy}
  OBVIOUS
<1>3. Placed(D!ProjectMassDirect(a, iy), "cell", (0 .. nx - 1) \X {iy})
  <2> SUFFICES ASSUME NEW s \in D!ProjectMassDirect(a, iy)
               PROVE  \E p \in (0 .. nx - 1) \X {iy} : Put(s, "cell", p)
    BY DEF Placed
  <2>1. PICK ix \in 0 .. nx - 1 : \E reads : s = <<D!CellAt(ix, iy, nx), D!Computed("cell", <<ix, iy>>, reads)>>
    BY Zenon DEF D!ProjectMassDirect
  <2> QED BY <1>1, <1>2, <2>1
<1>4. Placed(D!MassProjectIntensiveVariableDirect(a, iy), "cell", (0 .. nx - 1) \X {iy})
  <2> SUFFICES ASSUME NEW s \in D!MassProjectIntensiveVariableDirect(a, iy)
               PROVE  \E p \in (0 .. nx - 1) \X {iy} : Put(s, "cell", p)
    BY DEF Placed
  <2>1. PICK ix \in 0 .. nx - 1 : \E reads : s = <<D!CellAt(ix, iy, nx), D!Computed("cell", <<ix, iy>>, reads)>>
    BY Zenon DEF D!MassProjectIntensiveVariableDirect
  <2> QED BY <1>1, <1>2, <2>1
<1>5. Placed(D!ProjectNodalIntensiveVariableOrder2Direct(a, iy), "node", (1 .. nx - 1) \X {iy})
  <2> DEFINE S == (1 .. nx - 1) \X {iy}
  <2>1. ASSUME NEW t \in X!InnerStencils(iy)
        PROVE  t.at \in GridPlaces /\ \A n \in t.to : \E p \in S : n = At("node", p)
    <3>1. PICK ix \in 1 .. nx - 1 : \E m1, p1, cells, faces :
                 t = X!Stencil(<<ix, iy>>, {X!NodeAt(ix, iy, nx)}, m1, X!NodeAt(ix, iy, nx), p1, cells, faces)
      BY Zenon DEF X!InnerStencils
    <3>2. t.at = <<ix, iy>> /\ t.to = {X!NodeAt(ix, iy, nx)}
      BY <3>1 DEF X!Stencil
    <3>3. /\ <<ix, iy>> \in S /\ <<ix, iy>> \in GridPlaces
          /\ X!NodeAt(ix, iy, nx) = At("node", <<ix, iy>>)
      BY SameMapsX DEF GridPlaces, WideGrid, At, StaggeredX
    <3> QED BY <3>2, <3>3
  <2> HIDE DEF S
  <2>2. \A ys : Placed(D!Projected(a, X!InnerStencils(iy), ys), "node", S)
    BY <2>1, CrossedPlaced
  <2>3. Placed(D!ProjectNodalIntensiveVariableOrder2Direct(a, iy), "node", S)
    BY <2>2, SameStencilsX DEF D!ProjectNodalIntensiveVariableOrder2Direct
  <2> QED BY <2>3 DEF S
<1> QED BY <1>3, <1>4, <1>5

\* Its boundary kernel of the nodal projection stores into the nodes of the edges.
LEMMA NodalEdgeD ==
  ASSUME WideGrid, NEW a
  PROVE  Placed(D!ProjectNodalIntensiveVariableOrder2BoundaryDirect(a), "node", EdgeNodes)
<1>1. \A xs, ys : (\A t \in xs : EdgeStencil(t)) => Placed(D!Projected(a, xs, ys), "node", EdgeNodes)
  BY CrossedPlaced DEF EdgeStencil
<1>2. /\ Placed(D!Zeros(D!CornerNodes \cup D!Ends), "node", EdgeNodes)
      /\ Placed(D!Zeros(D!CornerNodes \cup D!Sides), "node", EdgeNodes)
  <2>1. \A x, y, n : D!NodeAt(x, y, n) = NodeAt(x, y, n)
    BY DEF D!NodeAt, NodeAt
  <2>2. D!CornerNodes = CornerNodes /\ D!Ends = Ends /\ D!Sides = Sides
    BY <2>1 DEF D!CornerNodes, CornerNodes, D!Ends, Ends, D!Sides, Sides, D!Inner, Inner
  <2>3. ASSUME NEW nodes, nodes \subseteq CornerNodes \cup Sides \cup Ends
        PROVE  Placed(D!Zeros(nodes), "node", EdgeNodes)
    <3> SUFFICES ASSUME NEW s \in D!Zeros(nodes) PROVE \E p \in EdgeNodes : Put(s, "node", p)
      BY DEF Placed
    <3>1. PICK n \in nodes : s = <<n, D!Zero>>
      BY DEF D!Zeros
    <3> QED BY <2>3, <3>1, NodesOfEdges, ComputedInD DEF Put
  <2> QED BY <2>2, <2>3
<1>3. \A S, T : Placed(S, "node", EdgeNodes) /\ Placed(T, "node", EdgeNodes) => Placed(S \cup T, "node", EdgeNodes)
  BY DEF Placed
<1>4. /\ \A t \in D!X!PeriodicSides : EdgeStencil(t)
      /\ \A t \in D!X!PeriodicEnds : EdgeStencil(t)
      /\ \A t \in {D!X!PeriodicCorner} : EdgeStencil(t)
  BY EdgeStencilsX, SameStencilsX
<1>5. CASE BoundaryConditions = "RayleighTaylor"
  BY <1>1, <1>2, <1>3, <1>4, <1>5 DEF D!ProjectNodalIntensiveVariableOrder2BoundaryDirect,
     D!ProjectNodalIntensiveVariableOrder2BoundaryRtDirect
<1>6. CASE BoundaryConditions \notin {"RayleighTaylor", "Wall"}
  BY <1>1, <1>3, <1>4, <1>6 DEF D!ProjectNodalIntensiveVariableOrder2BoundaryDirect,
     D!ProjectNodalIntensiveVariableOrder2PeriodicBoundaryDirect
<1>7. CASE BoundaryConditions = "Wall"
  <2>1. /\ D!X!BoundaryStencils("out_u") = D!X!ProjectNodalIntensiveVariableOrder2UxXWallBoundary
        /\ D!X!BoundaryStencils("out_v") = D!X!ProjectNodalIntensiveVariableOrder2UyXWallBoundary
    BY <1>7 DEF D!X!BoundaryStencils
  <2>2. /\ \A t \in D!X!ProjectNodalIntensiveVariableOrder2UxXWallBoundary : EdgeStencil(t)
        /\ \A t \in D!X!ProjectNodalIntensiveVariableOrder2UyXWallBoundary : EdgeStencil(t)
    BY <2>1, EdgeStencilsX, SameStencilsX
  <2> QED BY <1>1, <1>2, <1>3, <1>7, <2>2 DEF D!ProjectNodalIntensiveVariableOrder2BoundaryDirect,
     D!ProjectNodalIntensiveVariableOrder2UxWallBoundaryDirect,
     D!ProjectNodalIntensiveVariableOrder2UyWallBoundaryDirect
<1> QED BY <1>5, <1>6, <1>7

\* What the loop of the driver of both directions stores into an array: a row of it, but for
\* columns that are left to the boundary kernel.
LoopRows(a) ==
  IF a \in {"volume_fluxes_y", "gradient_u", "gradient_v"} THEN NodeRows
  ELSE IF a \in {"density_gradient_y", "energy_gradient_y"} THEN 1 .. ny - 2
  ELSE IF a \in {"mass_flux_y", "energy_flux_y", "gradient_u_y", "gradient_v_y", "out_u", "out_v"} THEN Inner
  ELSE CellRows

\* The columns of the loop that stores the array.
LoopColumns(a) ==
  IF a \in {"density_gradient", "energy_gradient"} THEN 1 .. nx - 2
  ELSE IF a \in {"mass_flux_x", "energy_flux_x", "gradient_u", "gradient_v", "out_u", "out_v"} THEN 1 .. nx - 1
  ELSE 0 .. LastX(KindOf(a))

\* The places that the loop leaves to the boundary kernel.
Beyond(a) == {p \in Places(KindOf(a)) : p \notin LoopColumns(a) \X LoopRows(a)}

\* The arrays that a boundary kernel completes.
WithBoundary == {"density_gradient", "energy_gradient", "mass_flux_x", "energy_flux_x", "gradient_u", "gradient_v",
                 "density_gradient_y", "energy_gradient_y", "mass_flux_y", "energy_flux_y", "gradient_u_y",
                 "gradient_v_y", "out_u", "out_v"}

\* Every array that the driver of both directions stores.
DirectArrays == WithBoundary \cup {"volume_fluxes_x", "lag_volume", "lag_density", "volume_fluxes_y",
                                   "lag_volume_y", "lag_density_y", "out_mass", "out_e", "out_rho"}

\* They are its temporaries and its results.
LEMMA DirectArraysAre == D!Scratch \cup D!Outputs = DirectArrays
  BY DEF D!Scratch, D!Outputs, D!X!Scratch, D!X!Zeroed, D!Y!Scratch, D!X!Outputs, DirectArrays, WithBoundary

\* The row of a loop of the driver stores into the columns of the loop in that row alone.
LEMMA RowStoresD ==
  ASSUME WideGrid, NEW a \in DirectArrays, NEW iy \in 0 .. ny
  PROVE  Placed(D!LoopStores(a, iy), KindOf(a), LoopColumns(a) \X {iy})
<1>1. /\ LastX("cell") = nx - 1 /\ LastX("facex") = nx /\ LastX("facey") = nx - 1 /\ LastX("node") = nx
  BY DEF LastX, StaggeredX
<1>2. CASE a = "volume_fluxes_x"
  <2>1. D!LoopStores(a, iy) = D!X!VolumeFluxStores(a, iy)
    BY <1>2 DEF D!LoopStores, D!SweepLoop
  <2>2. KindOf(a) = "facex" /\ LoopColumns(a) = 0 .. nx
    BY <1>1, <1>2 DEF KindOf, LoopColumns
  <2>3. Placed(D!X!VolumeFluxStores(a, iy), "facex", (0 .. nx) \X {iy})
    BY SharedLoopsX
  <2> QED BY <2>1, <2>2, <2>3
<1>3. CASE a \in {"lag_volume", "lag_density"}
  <2>1. D!LoopStores(a, iy) = D!X!DirectionalStores(a, iy)
    BY <1>3 DEF D!LoopStores, D!SweepLoop
  <2>2. KindOf(a) = "cell" /\ LoopColumns(a) = 0 .. nx - 1
    BY <1>1, <1>3 DEF KindOf, LoopColumns
  <2>3. Placed(D!X!DirectionalStores(a, iy), "cell", (0 .. nx - 1) \X {iy})
    BY SharedLoopsX
  <2> QED BY <2>1, <2>2, <2>3
<1>4. CASE a = "volume_fluxes_y"
  <2>1. D!LoopStores(a, iy) = D!Y!VolumeFluxStores(a, iy)
    BY <1>4 DEF D!LoopStores, D!SweepLoop
  <2>2. KindOf(a) = "facey" /\ LoopColumns(a) = 0 .. nx - 1
    BY <1>1, <1>4 DEF KindOf, LoopColumns
  <2>3. Placed(D!Y!VolumeFluxStores(a, iy), "facey", (0 .. nx - 1) \X {iy})
    BY SharedLoopsY
  <2> QED BY <2>1, <2>2, <2>3
<1>5. CASE a \in {"lag_volume_y", "lag_density_y"}
  <2>1. D!LoopStores(a, iy) = D!Y!DirectionalStores(a, iy)
    BY <1>5 DEF D!LoopStores, D!SweepLoop
  <2>2. KindOf(a) = "cell" /\ LoopColumns(a) = 0 .. nx - 1
    BY <1>1, <1>5 DEF KindOf, LoopColumns
  <2>3. Placed(D!Y!DirectionalStores(a, iy), "cell", (0 .. nx - 1) \X {iy})
    BY SharedLoopsY
  <2> QED BY <2>1, <2>2, <2>3
<1>6. CASE a \in {"density_gradient", "energy_gradient"}
  <2>1. D!LoopStores(a, iy) = D!X!ReconstructGradientX(a, iy)
    BY <1>6 DEF D!LoopStores, D!SweepLoop
  <2>2. KindOf(a) = "cell" /\ LoopColumns(a) = 1 .. nx - 2
    BY <1>6 DEF KindOf, LoopColumns
  <2>3. Placed(D!X!ReconstructGradientX(a, iy), "cell", (1 .. nx - 2) \X {iy})
    BY SharedLoopsX
  <2> QED BY <2>1, <2>2, <2>3
<1>7. CASE a \in {"density_gradient_y", "energy_gradient_y"}
  <2>1. D!LoopStores(a, iy) = D!Y!ReconstructGradientY(a, iy)
    BY <1>7 DEF D!LoopStores, D!SweepLoop
  <2>2. KindOf(a) = "cell" /\ LoopColumns(a) = 0 .. nx - 1
    BY <1>1, <1>7 DEF KindOf, LoopColumns
  <2>3. Placed(D!Y!ReconstructGradientY(a, iy), "cell", (0 .. nx - 1) \X {iy})
    BY SharedLoopsY
  <2> QED BY <2>1, <2>2, <2>3
<1>8. CASE a \in {"mass_flux_x", "energy_flux_x"}
  <2>1. D!LoopStores(a, iy) = D!X!ReconstructFluxOrder2X(a, iy)
    BY <1>8 DEF D!LoopStores, D!SweepLoop
  <2>2. KindOf(a) = "facex" /\ LoopColumns(a) = 1 .. nx - 1
    BY <1>8 DEF KindOf, LoopColumns
  <2>3. Placed(D!X!ReconstructFluxOrder2X(a, iy), "facex", (1 .. nx - 1) \X {iy})
    BY LoopsX, SameFluxesX
  <2> QED BY <2>1, <2>2, <2>3
<1>9. CASE a \in {"mass_flux_y", "energy_flux_y"}
  <2>1. D!LoopStores(a, iy) = D!Y!ReconstructFluxOrder2Y(a, iy)
    BY <1>9 DEF D!LoopStores, D!SweepLoop
  <2>2. KindOf(a) = "facey" /\ LoopColumns(a) = 0 .. nx - 1
    BY <1>1, <1>9 DEF KindOf, LoopColumns
  <2>3. Placed(D!Y!ReconstructFluxOrder2Y(a, iy), "facey", (0 .. nx - 1) \X {iy})
    BY LoopsY, SameFluxesY
  <2> QED BY <2>1, <2>2, <2>3
<1>10. CASE a \in {"gradient_u", "gradient_v"}
  <2>1. D!LoopStores(a, iy) = D!X!ReconstructGradientNodalX(a, iy)
    BY <1>10 DEF D!LoopStores, D!SweepLoop
  <2>2. KindOf(a) = "node" /\ LoopColumns(a) = 1 .. nx - 1
    BY <1>10 DEF KindOf, LoopColumns
  <2>3. Placed(D!X!ReconstructGradientNodalX(a, iy), "node", (1 .. nx - 1) \X {iy})
    BY SharedLoopsX
  <2> QED BY <2>1, <2>2, <2>3
<1>11. CASE a \in {"gradient_u_y", "gradient_v_y"}
  <2>1. D!LoopStores(a, iy) = D!Y!ReconstructGradientNodalY(a, iy)
    BY <1>11 DEF D!LoopStores, D!SweepLoop
  <2>2. KindOf(a) = "node" /\ LoopColumns(a) = 0 .. nx
    BY <1>1, <1>11 DEF KindOf, LoopColumns
  <2>3. Placed(D!Y!ReconstructGradientNodalY(a, iy), "node", (0 .. nx) \X {iy})
    BY SharedLoopsY
  <2> QED BY <2>1, <2>2, <2>3
<1>12. CASE a = "out_rho"
  <2>1. D!LoopStores(a, iy) = D!X!ReconstructDensity(a, iy)
    BY <1>12 DEF D!LoopStores, D!SweepLoop
  <2>2. KindOf(a) = "cell" /\ LoopColumns(a) = 0 .. nx - 1
    BY <1>1, <1>12 DEF KindOf, LoopColumns
  <2>3. Placed(D!X!ReconstructDensity(a, iy), "cell", (0 .. nx - 1) \X {iy})
    BY SharedLoopsX
  <2> QED BY <2>1, <2>2, <2>3
<1>13. CASE a \in {"out_mass", "out_e"}
  <2>1. D!LoopStores(a, iy) \in {D!ProjectMassDirect(a, iy), D!MassProjectIntensiveVariableDirect(a, iy)}
    BY <1>13 DEF D!LoopStores
  <2>2. KindOf(a) = "cell" /\ LoopColumns(a) = 0 .. nx - 1
    BY <1>1, <1>13 DEF KindOf, LoopColumns
  <2> QED BY <2>1, <2>2, LoopsD
<1>14. CASE a \in {"out_u", "out_v"}
  <2>1. D!LoopStores(a, iy) = D!ProjectNodalIntensiveVariableOrder2Direct(a, iy)
    BY <1>14 DEF D!LoopStores
  <2>2. KindOf(a) = "node" /\ LoopColumns(a) = 1 .. nx - 1
    BY <1>14 DEF KindOf, LoopColumns
  <2>3. Placed(D!ProjectNodalIntensiveVariableOrder2Direct(a, iy), "node", (1 .. nx - 1) \X {iy})
    BY LoopsD
  <2> QED BY <2>1, <2>2, <2>3
<1> QED BY <1>2, <1>3, <1>4, <1>5, <1>6, <1>7, <1>8, <1>9, <1>10, <1>11, <1>12, <1>13, <1>14
    DEF DirectArrays, WithBoundary

\* The boundary kernels store into the elements that the loops leave.
LEMMA EdgeStoresD ==
  ASSUME WideGrid, NEW a \in WithBoundary
  PROVE  /\ Placed(D!BoundaryStores(a), KindOf(a), Beyond(a))
         /\ WallsX /\ a \in {"gradient_u", "gradient_v"} => D!BoundaryStores(a) = {}
<1>1. \A stores, k, S, T : Placed(stores, k, S) /\ S \subseteq T => Placed(stores, k, T)
  BY DEF Placed
<1>2. nx \in Nat /\ ny \in Nat /\ nx > 1 /\ ny > 1
  BY DEF WideGrid
<1>3. /\ Places("cell") = (0 .. nx - 1) \X (0 .. ny - 1) /\ Places("node") = (0 .. nx) \X (0 .. ny)
      /\ Places("facex") = (0 .. nx) \X (0 .. ny - 1) /\ Places("facey") = (0 .. nx - 1) \X (0 .. ny)
      /\ LastX("cell") = nx - 1 /\ LastX("facey") = nx - 1 /\ LastX("node") = nx
  BY DEF Places, LastX, LastY, StaggeredX, StaggeredY
<1>4. CASE a \in {"density_gradient", "energy_gradient"}
  <2>1. D!BoundaryStores(a) = D!X!ReconstructGradientXBoundary(a)
    BY <1>4 DEF D!BoundaryStores, D!SweepBoundary
  <2>2. KindOf(a) = "cell" /\ LoopColumns(a) = 1 .. nx - 2
    BY <1>4 DEF KindOf, LoopColumns
  <2>3. {0, nx - 1} \X CellRows \subseteq Beyond(a)
    BY <1>2, <1>3, <2>2 DEF Beyond, CellRows
  <2> QED BY <1>1, <1>4, <2>1, <2>2, <2>3, SharedEdgesX
<1>5. CASE a \in {"density_gradient_y", "energy_gradient_y"}
  <2>1. D!BoundaryStores(a) = D!Y!ReconstructGradientYBoundary(a)
    BY <1>5 DEF D!BoundaryStores, D!SweepBoundary
  <2>2. KindOf(a) = "cell" /\ LoopRows(a) = 1 .. ny - 2
    BY <1>5 DEF KindOf, LoopRows
  <2>3. (0 .. nx - 1) \X {0, ny - 1} \subseteq Beyond(a)
    BY <1>2, <1>3, <2>2 DEF Beyond
  <2> QED BY <1>1, <1>5, <2>1, <2>2, <2>3, SharedEdgesY
<1>6. CASE a \in {"mass_flux_x", "energy_flux_x"}
  <2>1. D!BoundaryStores(a) = X!ReconstructFluxOrder2XBoundary(a)
    BY <1>6, SameFluxesX DEF D!BoundaryStores, D!SweepBoundary
  <2>2. KindOf(a) = "facex" /\ LoopColumns(a) = 1 .. nx - 1
    BY <1>6 DEF KindOf, LoopColumns
  <2>3. {0, nx} \X CellRows \subseteq Beyond(a)
    BY <1>2, <1>3, <2>2 DEF Beyond, CellRows
  <2> QED BY <1>1, <1>6, <2>1, <2>2, <2>3, EdgesX
<1>7. CASE a \in {"mass_flux_y", "energy_flux_y"}
  <2>1. D!BoundaryStores(a) = Y!ReconstructFluxOrder2YBoundary(a)
    BY <1>7, SameFluxesY DEF D!BoundaryStores, D!SweepBoundary
  <2>2. KindOf(a) = "facey" /\ LoopRows(a) = 1 .. ny - 1
    BY <1>7 DEF KindOf, LoopRows, Inner
  <2>3. (0 .. nx - 1) \X {0, ny} \subseteq Beyond(a)
    BY <1>2, <1>3, <2>2 DEF Beyond
  <2> QED BY <1>1, <1>7, <2>1, <2>2, <2>3, EdgesY
<1>8. CASE a \in {"gradient_u", "gradient_v"}
  <2>1. D!BoundaryStores(a) = D!X!ReconstructGradientNodalXBoundary(a)
    BY <1>8 DEF D!BoundaryStores, D!SweepBoundary
  <2>2. KindOf(a) = "node" /\ LoopColumns(a) = 1 .. nx - 1
    BY <1>8 DEF KindOf, LoopColumns
  <2>3. {0, nx} \X NodeRows \subseteq Beyond(a)
    BY <1>2, <1>3, <2>2 DEF Beyond, NodeRows
  <2>4. WallsX => D!BoundaryStores(a) = {}
    BY <2>1 DEF WallsX, D!X!ReconstructGradientNodalXBoundary
  <2> QED BY <1>1, <2>1, <2>2, <2>3, <2>4, SharedEdgesX
<1>9. CASE a \in {"gradient_u_y", "gradient_v_y"}
  <2>1. D!BoundaryStores(a) = D!Y!ReconstructGradientNodalYBoundary(a)
    BY <1>9 DEF D!BoundaryStores, D!SweepBoundary
  <2>2. KindOf(a) = "node" /\ LoopRows(a) = 1 .. ny - 1
    BY <1>9 DEF KindOf, LoopRows, Inner
  <2>3. (0 .. nx) \X {0, ny} \subseteq Beyond(a)
    BY <1>2, <1>3, <2>2 DEF Beyond
  <2> QED BY <1>1, <1>9, <2>1, <2>2, <2>3, SharedEdgesY
<1>10. CASE a \in {"out_u", "out_v"}
  <2>1. D!BoundaryStores(a) = D!ProjectNodalIntensiveVariableOrder2BoundaryDirect(a)
    BY <1>10 DEF D!BoundaryStores
  <2>2. KindOf(a) = "node" /\ LoopColumns(a) = 1 .. nx - 1 /\ LoopRows(a) = 1 .. ny - 1
    BY <1>10 DEF KindOf, LoopColumns, LoopRows, Inner
  <2>3. EdgeNodes \subseteq Beyond(a)
    <3> SUFFICES ASSUME NEW p \in EdgeNodes PROVE p \in Beyond(a)
      OBVIOUS
    <3>1. p \in Places("node") /\ (p[1] \in {0, nx} \/ p[2] \in {0, ny})
      BY DEF EdgeNodes, OnEdge
    <3>2. p \notin (1 .. nx - 1) \X (1 .. ny - 1)
      BY <1>2, <3>1
    <3> QED BY <2>2, <3>1, <3>2 DEF Beyond
  <2> QED BY <1>1, <1>10, <2>1, <2>2, <2>3, NodalEdgeD
<1> QED BY <1>4, <1>5, <1>6, <1>7, <1>8, <1>9, <1>10 DEF WithBoundary

-----------------------------------------------------------------------------
(* A step stores values of the model into the arrays, and nothing else. *)

\* A step stores values of the model, or nothing, into each array.
Wrote(f, g) == g = f \/ \E stores : Valued(stores) /\ g = Stored(f, stores)
\* A step after which each array holds what it held, but for such stores.
Writes == DOMAIN mem' = DOMAIN mem /\ \A a \in DOMAIN mem : Wrote(mem[a], mem'[a])

\* No store, and any stores of values of the model, make such an array.
LEMMA StoresWrite == \A f, stores : Wrote(f, f) /\ (Valued(stores) => Wrote(f, Stored(f, stores)))
  BY DEF Wrote

\* Each step of the Lagrangian driver is one that stores values of the model.
LEMMA WritesL ==
  ASSUME WideGrid, todo \subseteq 0 .. ny, L!Next
  PROVE  Writes
<1>1. /\ \A f : Wrote(f, f)
      /\ \A f, stores : Valued(stores) => Wrote(f, L!Stored(f, stores))
  BY StoresWrite, SameValues
<1>2. /\ \A a : \A iy \in todo : /\ Valued(L!PressureStores(a, iy)) /\ Valued(L!VelocityStores(a, iy))
                                 /\ Valued(L!EnergyStores(a, iy)) /\ Valued(L!CorrectionStores(a, iy))
      /\ \A a : Valued(L!BoundaryStores(a))
  BY ValuedL
<1>3. CASE L!LagrangePressurePredictedOptimised
  BY <1>1, <1>2, <1>3 DEF L!LagrangePressurePredictedOptimised, L!RowOf, Writes
<1>4. CASE L!LagrangeVelocityPredicted
  BY <1>1, <1>2, <1>4 DEF L!LagrangeVelocityPredicted, L!RowOf, Writes
<1>5. CASE L!BoundaryVelocityPrediction
  BY <1>1, <1>2, <1>5 DEF L!BoundaryVelocityPrediction, L!BoundaryOf, Writes
<1>6. CASE L!LagrangeCorrectionOptimised
  BY <1>1, <1>2, <1>6 DEF L!LagrangeCorrectionOptimised, L!RowOf, Writes
<1>7. CASE L!LagrangeVelocityCorrection
  BY <1>1, <1>2, <1>7 DEF L!LagrangeVelocityCorrection, L!RowOf, Writes
<1> QED BY <1>3, <1>4, <1>5, <1>6, <1>7 DEF L!Next

\* So is each step of the sweep in x.
LEMMA WritesX ==
  ASSUME WideGrid, todo \subseteq 0 .. ny, X!Next
  PROVE  Writes
<1>1. /\ \A f : Wrote(f, f)
      /\ \A f, stores : Valued(stores) => Wrote(f, X!Stored(f, stores))
  BY StoresWrite, SameStoresX
<1>2. \A a : \A iy \in todo :
        /\ Valued(X!VolumeFluxStores(a, iy)) /\ Valued(X!DirectionalStores(a, iy))
        /\ Valued(X!ReconstructGradientX(a, iy)) /\ Valued(X!ReconstructFluxOrder2X(a, iy))
        /\ Valued(X!ProjectMassX(a, iy)) /\ Valued(X!MassProjectIntensiveVariableX(a, iy))
        /\ Valued(X!ReconstructDensity(a, iy)) /\ Valued(X!ReconstructGradientNodalX(a, iy))
        /\ Valued(X!ProjectNodalIntensiveVariableOrder2X(a, iy))
  <2> TAKE a
  <2> TAKE iy \in todo
  <2> QED BY LoopsX, PlacedIsValued
<1>3. \A a : /\ Valued(X!ReconstructGradientXBoundary(a)) /\ Valued(X!ReconstructFluxOrder2XBoundary(a))
             /\ Valued(X!ReconstructGradientNodalXBoundary(a))
             /\ Valued(X!ProjectNodalIntensiveVariableOrder2XBoundary(a))
  <2> TAKE a
  <2> QED BY EdgesX, NodalEdgeX, PlacedIsValued
<1>4. CASE X!ComputeDirectionalLagrangianQuantitiesX
  BY <1>1, <1>2, <1>4 DEF X!ComputeDirectionalLagrangianQuantitiesX, X!RowOf, Writes
<1>5. CASE X!Gradient
  BY <1>1, <1>2, <1>5 DEF X!Gradient, X!RowOf, Writes
<1>6. CASE X!GradientBoundary
  BY <1>1, <1>3, <1>6 DEF X!GradientBoundary, X!BoundaryOf, Writes
<1>7. CASE X!Flux
  BY <1>1, <1>2, <1>7 DEF X!Flux, X!RowOf, Writes
<1>8. CASE X!FluxBoundary
  BY <1>1, <1>3, <1>8 DEF X!FluxBoundary, X!BoundaryOf, Writes
<1>9. CASE X!Balance
  BY <1>1, <1>2, <1>9 DEF X!Balance, X!RowOf, Writes
<1>10. CASE X!NodalGradient
  BY <1>1, <1>2, <1>10 DEF X!NodalGradient, X!RowOf, Writes
<1>11. CASE X!NodalGradientBoundary
  BY <1>1, <1>3, <1>11 DEF X!NodalGradientBoundary, X!BoundaryOf, Writes
<1>12. CASE X!NodalBalance
  BY <1>1, <1>2, <1>12 DEF X!NodalBalance, X!RowOf, Writes
<1>13. CASE X!NodalBalanceBoundary
  BY <1>1, <1>3, <1>13 DEF X!NodalBalanceBoundary, X!BoundaryOf, Writes
<1> QED BY <1>4, <1>5, <1>6, <1>7, <1>8, <1>9, <1>10, <1>11, <1>12, <1>13 DEF X!Next

\* So is each step of the sweep in y.
LEMMA WritesY ==
  ASSUME WideGrid, todo \subseteq 0 .. ny, Y!Next
  PROVE  Writes
<1>1. /\ \A f : Wrote(f, f)
      /\ \A f, stores : Valued(stores) => Wrote(f, Y!Stored(f, stores))
  BY StoresWrite, SameStoresY
<1>2. \A a : \A iy \in todo :
        /\ Valued(Y!VolumeFluxStores(a, iy)) /\ Valued(Y!DirectionalStores(a, iy))
        /\ Valued(Y!ReconstructGradientY(a, iy)) /\ Valued(Y!ReconstructFluxOrder2Y(a, iy))
        /\ Valued(Y!ProjectMassY(a, iy)) /\ Valued(Y!MassProjectIntensiveVariableY(a, iy))
        /\ Valued(Y!ReconstructDensity(a, iy)) /\ Valued(Y!ReconstructGradientNodalY(a, iy))
        /\ Valued(Y!ProjectNodalIntensiveVariableOrder2Y(a, iy))
  <2> TAKE a
  <2> TAKE iy \in todo
  <2> QED BY LoopsY, PlacedIsValued
<1>3. \A a : /\ Valued(Y!ReconstructGradientYBoundary(a)) /\ Valued(Y!ReconstructFluxOrder2YBoundary(a))
             /\ Valued(Y!ReconstructGradientNodalYBoundary(a))
             /\ Valued(Y!ProjectNodalIntensiveVariableOrder2YBoundary(a))
  <2> TAKE a
  <2> QED BY EdgesY, NodalEdgeY, PlacedIsValued
<1>4. CASE Y!ComputeDirectionalLagrangianQuantitiesY
  BY <1>1, <1>2, <1>4 DEF Y!ComputeDirectionalLagrangianQuantitiesY, Y!RowOf, Writes
<1>5. CASE Y!Gradient
  BY <1>1, <1>2, <1>5 DEF Y!Gradient, Y!RowOf, Writes
<1>6. CASE Y!GradientBoundary
  BY <1>1, <1>3, <1>6 DEF Y!GradientBoundary, Y!BoundaryOf, Writes
<1>7. CASE Y!Flux
  BY <1>1, <1>2, <1>7 DEF Y!Flux, Y!RowOf, Writes
<1>8. CASE Y!FluxBoundary
  BY <1>1, <1>3, <1>8 DEF Y!FluxBoundary, Y!BoundaryOf, Writes
<1>9. CASE Y!Balance
  BY <1>1, <1>2, <1>9 DEF Y!Balance, Y!RowOf, Writes
<1>10. CASE Y!NodalGradient
  BY <1>1, <1>2, <1>10 DEF Y!NodalGradient, Y!RowOf, Writes
<1>11. CASE Y!NodalGradientBoundary
  BY <1>1, <1>3, <1>11 DEF Y!NodalGradientBoundary, Y!BoundaryOf, Writes
<1>12. CASE Y!NodalBalance
  BY <1>1, <1>2, <1>12 DEF Y!NodalBalance, Y!RowOf, Writes
<1>13. CASE Y!NodalBalanceBoundary
  BY <1>1, <1>3, <1>13 DEF Y!NodalBalanceBoundary, Y!BoundaryOf, Writes
<1> QED BY <1>4, <1>5, <1>6, <1>7, <1>8, <1>9, <1>10, <1>11, <1>12, <1>13 DEF Y!Next

\* The number of the call that stores the rows of an array, and of the one that stores the rest.
LoopCall(a) ==
  CASE a = "volume_fluxes_x" -> 1
    [] a \in {"lag_volume", "lag_density"} -> 2
    [] a = "volume_fluxes_y" -> 3
    [] a \in {"lag_volume_y", "lag_density_y"} -> 4
    [] a = "density_gradient" -> 5
    [] a = "density_gradient_y" -> 6
    [] a = "mass_flux_x" -> 9
    [] a = "mass_flux_y" -> 10
    [] a = "out_mass" -> 13
    [] a = "energy_gradient" -> 14
    [] a = "energy_gradient_y" -> 15
    [] a = "energy_flux_x" -> 18
    [] a = "energy_flux_y" -> 19
    [] a = "out_e" -> 22
    [] a = "gradient_u" -> 23
    [] a = "gradient_u_y" -> 24
    [] a = "out_u" -> 27
    [] a = "gradient_v" -> 29
    [] a = "gradient_v_y" -> 30
    [] a = "out_v" -> 33
    [] a = "out_rho" -> 35

\* The call of the driver whose boundary kernel completes the array.
EdgeCall(a) == IF a \in {"out_u", "out_v"} THEN LoopCall(a) + 1 ELSE LoopCall(a) + 2

\* The rows of a loop are those of the arrays that it stores.
LEMMA LoopsOfArrays ==
  /\ \A a \in DirectArrays : D!Rows(Loop({a})) = LoopRows(a)
  /\ \A a, b \in {"lag_volume", "lag_density", "lag_volume_y", "lag_density_y"} :
       D!Rows(Loop({a, b})) = CellRows /\ LoopRows(a) = CellRows
<1>1. \A outs : Loop(outs).outs = outs /\ Loop(outs).part = "loop"
  BY DEF Loop
<1>2. \A a, S : {a} \cap S # {} <=> a \in S
  OBVIOUS
<1>3. ASSUME NEW a \in DirectArrays PROVE D!Rows(Loop({a})) = LoopRows(a)
  BY <1>1, <1>2, SameStoresD DEF D!Rows, LoopRows
<1>4. ASSUME NEW a \in {"lag_volume", "lag_density", "lag_volume_y", "lag_density_y"},
             NEW b \in {"lag_volume", "lag_density", "lag_volume_y", "lag_density_y"}
      PROVE  D!Rows(Loop({a, b})) = CellRows /\ LoopRows(a) = CellRows
  BY <1>1, SameStoresD DEF D!Rows, LoopRows
<1> QED BY <1>3, <1>4

\* Each array of the driver is stored by one loop, and completed by one boundary kernel.
LEMMA CallsOfArrays ==
  ASSUME NEW n \in 1 .. 35, NEW a \in D!Driver[n].outs
  PROVE  /\ a \in DirectArrays
         /\ D!Driver[n].part = "loop" => n = LoopCall(a) /\ D!RowsFor(D!Driver, n, D!Rows) = LoopRows(a)
         /\ D!Driver[n].part # "loop" => a \in WithBoundary /\ n = EdgeCall(a)
<1>1. \A outs : /\ Loop(outs).outs = outs /\ Loop(outs).part = "loop"
                /\ Boundary(outs).outs = outs /\ Boundary(outs).part = "boundary"
  BY DEF Loop, Boundary
<1>2. a \in DirectArrays
  <2>1. CASE n \in 1 .. 12
    BY <1>1, <2>1, Calls DEF DirectArrays, WithBoundary
  <2>2. CASE n \in 13 .. 22
    BY <1>1, <2>2, Calls DEF DirectArrays, WithBoundary
  <2>3. CASE n \in 23 .. 35
    BY <1>1, <2>3, Calls DEF DirectArrays, WithBoundary
  <2> QED BY <2>1, <2>2, <2>3
<1>3. ASSUME D!Driver[n].part = "loop" PROVE n = LoopCall(a)
  <2>1. CASE n \in 1 .. 12
    BY <1>1, <1>3, <2>1, Calls DEF LoopCall
  <2>2. CASE n \in 13 .. 22
    BY <1>1, <1>3, <2>2, Calls DEF LoopCall
  <2>3. CASE n \in 23 .. 35
    BY <1>1, <1>3, <2>3, Calls DEF LoopCall
  <2> QED BY <2>1, <2>2, <2>3
<1>4. ASSUME D!Driver[n].part # "loop" PROVE a \in WithBoundary /\ n = EdgeCall(a)
  <2>1. CASE n \in 1 .. 12
    BY <1>1, <1>4, <2>1, Calls DEF LoopCall, EdgeCall, WithBoundary
  <2>2. CASE n \in 13 .. 22
    BY <1>1, <1>4, <2>2, Calls DEF LoopCall, EdgeCall, WithBoundary
  <2>3. CASE n \in 23 .. 35
    BY <1>1, <1>4, <2>3, Calls DEF LoopCall, EdgeCall, WithBoundary
  <2> QED BY <2>1, <2>2, <2>3
<1>5. ASSUME D!Driver[n].part = "loop" PROVE D!RowsFor(D!Driver, n, D!Rows) = LoopRows(a)
  <2>1. D!Rows(D!Driver[n]) = LoopRows(a)
    <3>1. CASE n \notin {2, 4}
      <4>1. D!Driver[n].outs = {a}
        <5>1. CASE n \in 1 .. 12
          BY <1>1, <1>5, <3>1, <5>1, Calls
        <5>2. CASE n \in 13 .. 22
          BY <1>1, <1>5, <3>1, <5>2, Calls
        <5>3. CASE n \in 23 .. 35
          BY <1>1, <1>5, <3>1, <5>3, Calls
        <5> QED BY <5>1, <5>2, <5>3
      <4>2. D!Rows(D!Driver[n]) = D!Rows(Loop({a}))
        BY <1>1, <1>5, <4>1 DEF D!Rows
      <4> QED BY <1>2, <4>2, LoopsOfArrays
    <3>2. CASE n \in {2, 4}
      BY <1>1, <3>2, Calls, LoopsOfArrays
    <3> QED BY <3>1, <3>2
  <2>2. D!RowsFor(D!Driver, n, D!Rows) = D!Rows(D!Driver[n])
    BY Calls DEF D!RowsFor
  <2> QED BY <2>1, <2>2
<1> QED BY <1>2, <1>3, <1>4, <1>5

\* The rows of each call of the driver are rows of the grid.
LEMMA RowsOfCalls ==
  ASSUME WideGrid, NEW n \in 1 .. 36
  PROVE  D!RowsFor(D!Driver, n, D!Rows) \subseteq 0 .. ny
<1>1. \A call : D!Rows(call) \subseteq 0 .. ny
  BY SameStoresD DEF D!Rows, CellRows, NodeRows, Inner, WideGrid
<1> QED BY <1>1 DEF D!RowsFor

\* Each step of the driver of both directions is one that stores values of the model.
LEMMA WritesD ==
  ASSUME WideGrid, todo \subseteq 0 .. ny, D!Next
  PROVE  Writes
<1>1. /\ \A f : Wrote(f, f)
      /\ \A f, stores : Valued(stores) => Wrote(f, D!Stored(f, stores))
  BY StoresWrite, SameStoresD
<1>2. /\ \A a \in DirectArrays : \A iy \in todo : Valued(D!LoopStores(a, iy))
      /\ \A a \in WithBoundary : Valued(D!BoundaryStores(a))
  BY RowStoresD, EdgeStoresD, PlacedIsValued
<1>3. DOMAIN D!Driver = 1 .. 35
  BY Calls
<1>4. CASE D!Row
  <2>1. pc \in 1 .. 35 /\ D!Driver[pc].outs \subseteq DirectArrays
    BY <1>3, <1>4, CallsOfArrays DEF D!Row, D!LoopRow
  <2> QED BY <1>1, <1>2, <1>4, <2>1 DEF D!Row, D!LoopRow, D!RowOf, Writes
<1>5. CASE D!Edge
  <2>1. pc \in 1 .. 35 /\ D!Driver[pc].part # "loop"
    BY <1>3, <1>5 DEF D!Edge, D!BoundaryCall
  <2>2. D!Driver[pc].outs \subseteq WithBoundary
    BY <2>1, CallsOfArrays
  <2> QED BY <1>1, <1>2, <1>5, <2>2 DEF D!Edge, D!BoundaryCall, D!BoundaryOf, Writes
<1> QED BY <1>4, <1>5 DEF D!Next

-----------------------------------------------------------------------------
(* The type invariant. *)

\* Every element holds a value of the model.
ValuesInv == \A a \in Arrays : \A i \in DOMAIN mem[a] : mem[a][i] \in Values

\* The grid is one of the grids of the model.
ShapesInv == <<nx, ny>> \in Shapes /\ BoundaryConditions \in BoundaryNames /\ agree \in BOOLEAN

\* What is left of a time step are the last drivers of one of its lists.
StepsLeft == \E projection \in Projections, odd \in BOOLEAN :
               LET ds == DriversOf(projection, odd)
               IN \E k \in 1 .. Len(ds) + 1 : drivers = SubSeq(ds, k, Len(ds))

\* The type invariant of the time step, in parts.
LEMMA TypeParts == SizesInv /\ ValuesInv /\ ShapesInv /\ StepsLeft /\ todo \subseteq 0 .. ny <=> TypeOK
  BY DEF TypeOK, ArraysOK, SizesInv, ValuesInv, ShapesInv, StepsLeft

\* An array of the grid holds what a place of it gives.
LEMMA KindsKnown == \A a \in Arrays : KindOf(a) \in Kinds
  BY DEF Arrays, Inputs, L!Inputs, L!Scratch, D!Scratch, D!X!Scratch, D!X!Zeroed, D!Y!Scratch, D!Outputs,
         D!X!Outputs, KindOf, Kinds

\* The column and the row of an element are those of a place of the grid.
LEMMA PlaceOfElement ==
  ASSUME WideGrid, NEW k \in Kinds, NEW i \in 0 .. Size(k) - 1
  PROVE  <<i % (LastX(k) + 1), i \div (LastX(k) + 1)>> \in GridPlaces
<1> DEFINE w == LastX(k) + 1
<1>1. PICK p \in Places(k) : At(k, p) = i
  BY ElementsCovered, WideGridIsGrid
<1>2. w \in Nat \ {0} /\ p[1] \in 0 .. w - 1 /\ p[2] \in Nat /\ i = w * p[2] + p[1] /\ p = <<p[1], p[2]>>
  <2>1. p[1] \in 0 .. LastX(k) /\ p[2] \in 0 .. LastY(k) /\ p = <<p[1], p[2]>>
    BY DEF Places
  <2> QED BY <1>1, <2>1, Widths, WideGridIsGrid
<1> HIDE DEF w
<1>3. i % w = p[1] /\ i \div w = p[2]
  BY <1>2, RowMajorInverse
<1>4. p \in GridPlaces
  BY DEF Places, GridPlaces, LastX, LastY, WideGrid
<1> QED BY <1>2, <1>3, <1>4 DEF w

\* The arrays that a time step begins with hold values of the model.
LEMMA FilledValues ==
  ASSUME WideGrid, NEW a \in Arrays, NEW i \in 0 .. Size(KindOf(a)) - 1
  PROVE  /\ Filled(a)[i] \in Values
         /\ a \in {"u", "v"} => Apart(a)[i] \in Values
<1> DEFINE k == KindOf(a)
           p == <<i % (LastX(k) + 1), i \div (LastX(k) + 1)>>
<1>1. p \in GridPlaces
  BY KindsKnown, PlaceOfElement
<1>2. Filled(a)[i] = Right(a, p)
  BY DEF Filled
<1>3. a \in {"u", "v"} => k = "node" /\ Apart(a)[i] \in {p, Off(Fold("node", p))}
  BY DEF Apart, LastX, StaggeredX, KindOf
<1>4. p \in Values
  BY <1>1 DEF GridPlaces, Values, WideGrid
<1> HIDE DEF p
<1>5. Results(k, p) \subseteq Values /\ Zero \in Values
  BY <1>1, ResultsAreValues
<1> QED BY <1>2, <1>3, <1>4, <1>5 DEF Right, Results, Stamps

\* So every element holds one when a time step begins,
LEMMA ValuesInitially == Init => ValuesInv
<1> SUFFICES ASSUME Init, NEW a \in Arrays, NEW i \in DOMAIN mem[a] PROVE mem[a][i] \in Values
  BY DEF ValuesInv
<1>1. WideGrid /\ SizesInv
  BY FrameInitially DEF FrameInv
<1>2. i \in 0 .. Size(KindOf(a)) - 1
  BY <1>1 DEF SizesInv
<1>3. mem[a] = IF a \in {"u", "v"} /\ ~agree THEN Apart(a)
               ELSE IF a \in Inputs THEN Filled(a)
               ELSE [j \in 0 .. Size(KindOf(a)) - 1 |-> IF a \in X!Zeroed THEN Zero ELSE Garbage]
  BY DEF Init
<1>4. Zero \in Values /\ Garbage \in Values
  BY DEF Values
<1> QED BY <1>1, <1>2, <1>3, <1>4, FilledValues

\* still holds one after a step that stores values of the model,
LEMMA ValuesWritten ==
  ASSUME ValuesInv, DOMAIN mem = Arrays, Writes
  PROVE  ValuesInv'
<1> SUFFICES ASSUME NEW a \in Arrays PROVE \A i \in DOMAIN mem'[a] : mem'[a][i] \in Values
  BY SameArrays DEF ValuesInv, Values, Garbage, Zero
<1>1. \A i \in DOMAIN mem[a] : mem[a][i] \in Values
  BY DEF ValuesInv
<1>2. CASE mem'[a] = mem[a]
  BY <1>1, <1>2
<1>3. ASSUME NEW stores, Valued(stores), mem'[a] = Stored(mem[a], stores)
      PROVE  \A i \in DOMAIN mem'[a] : mem'[a][i] \in Values
  <2> DEFINE f == mem[a]
  <2>1. \A i \in DOMAIN f : f[i] \in Values
    BY <1>1
  <2> HIDE DEF f
  <2>2. \A i \in DOMAIN f : Stored(f, stores)[i] \in Values
    BY <1>3, <2>1, StoredValues
  <2>3. DOMAIN Stored(f, stores) = DOMAIN f
    BY StoredKeeps
  <2> QED BY <1>3, <2>2, <2>3 DEF f
<1> QED BY <1>2, <1>3 DEF Writes, Wrote

\* and after arrays have been swapped.
LEMMA ValuesSwapped ==
  ASSUME ValuesInv, NEW pairs, mem' = Swapped(pairs)
  PROVE  ValuesInv'
<1> SUFFICES ASSUME NEW a \in Arrays PROVE \A i \in DOMAIN mem'[a] : mem'[a][i] \in Values
  BY SameArrays DEF ValuesInv, Values, Garbage, Zero
<1> DEFINE others == {b \in Arrays : <<a, b>> \in pairs \/ <<b, a>> \in pairs}
<1>1. mem'[a] = IF others = {} THEN mem[a] ELSE mem[CHOOSE b \in others : TRUE]
  BY DEF Swapped
<1>2. CASE others = {}
  BY <1>1, <1>2 DEF ValuesInv
<1>3. CASE others # {}
  <2>1. PICK b \in others : b = CHOOSE c \in others : TRUE
    BY <1>3
  <2> QED BY <1>1, <1>3, <2>1 DEF ValuesInv
<1> QED BY <1>2, <1>3

\* The rows that a sweep has left are rows of the grid.
LEMMA RowsOfSweeps ==
  ASSUME WideGrid, todo \subseteq 0 .. ny, KernelsX \/ KernelsY
  PROVE  todo' \subseteq 0 .. ny
<1>1. CellRows \subseteq 0 .. ny /\ NodeRows \subseteq 0 .. ny /\ Inner \subseteq 0 .. ny /\ 1 .. ny - 2 \subseteq 0 .. ny
  BY DEF WideGrid, CellRows, NodeRows, Inner
<1>2. CASE KernelsX
  BY <1>1, <1>2 DEF KernelsX, Kernel
<1>3. CASE KernelsY
  BY <1>1, <1>3 DEF KernelsY, Kernel
<1> QED BY <1>2, <1>3

\* The first of the drivers that are left returns.
LEMMA TailOfSteps ==
  ASSUME NEW S, NEW ds \in Seq(S), NEW k \in 1 .. Len(ds)
  PROVE  Tail(SubSeq(ds, k, Len(ds))) = SubSeq(ds, k + 1, Len(ds))
  OBVIOUS

\* The drivers of a time step.
Drivers == {"Lagrange", "X", "Y", "Direct"}

\* The list of a time step is one of drivers.
LEMMA DriversOfStep == \A projection, odd : DriversOf(projection, odd) \in Seq(Drivers)
<1>1. /\ <<"Lagrange", "X", "Y">> \in Seq(Drivers) /\ <<"Lagrange", "Y", "X">> \in Seq(Drivers)
      /\ <<"Lagrange", "Direct">> \in Seq(Drivers) /\ <<"Lagrange">> \in Seq(Drivers)
  BY DEF Drivers
<1> HIDE DEF Drivers
<1> QED BY <1>1 DEF DriversOf

\* A list that loses its head, or all of it, is still the end of a list of a time step.
LEMMA StepsFewer ==
  ASSUME StepsLeft, drivers' \in {drivers, <<>>} \/ (drivers # <<>> /\ drivers' = Tail(drivers))
  PROVE  StepsLeft'
<1>1. PICK projection \in Projections, odd \in BOOLEAN :
        LET ds == DriversOf(projection, odd)
        IN \E k \in 1 .. Len(ds) + 1 : drivers = SubSeq(ds, k, Len(ds))
  BY DEF StepsLeft
<1> DEFINE ds == DriversOf(projection, odd)
<1>2. ds \in Seq(Drivers)
  BY DriversOfStep
<1> HIDE DEF ds
<1>3. PICK k \in 1 .. Len(ds) + 1 : drivers = SubSeq(ds, k, Len(ds))
  BY <1>1 DEF ds
<1>4. SubSeq(ds, Len(ds) + 1, Len(ds)) = <<>> /\ Len(ds) \in Nat
  BY <1>2
<1>5. \E j \in 1 .. Len(ds) + 1 : drivers' = SubSeq(ds, j, Len(ds))
  <2>1. CASE drivers' = drivers
    BY <1>3, <2>1
  <2>2. CASE drivers' = <<>>
    BY <1>4, <2>2
  <2>3. CASE drivers # <<>> /\ drivers' = Tail(drivers)
    <3>1. k \in 1 .. Len(ds)
      BY <1>3, <1>4, <2>3
    <3>2. drivers' = SubSeq(ds, k + 1, Len(ds))
      BY <1>2, <1>3, <2>3, <3>1, TailOfSteps
    <3>3. k + 1 \in 1 .. Len(ds) + 1
      BY <1>4, <3>1
    <3> QED BY <3>2, <3>3
  <2> QED BY <2>1, <2>2, <2>3
<1> QED BY <1>5 DEF ds, StepsLeft

\* The type invariant holds when a time step begins,
LEMMA TypeInitially == Init => TypeOK
<1> SUFFICES ASSUME Init PROVE TypeOK
  OBVIOUS
<1>1. SizesInv /\ WideGrid
  BY FrameInitially DEF FrameInv
<1>2. ShapesInv
  <2>1. PICK s \in Shapes : nx = s[1] /\ ny = s[2]
    BY DEF Init
  <2>2. s = <<s[1], s[2]>>
    BY ShapesAssumption
  <2>3. agree \in BOOLEAN
    BY DEF Init
  <2> QED BY <2>1, <2>2, <2>3 DEF Init, ShapesInv
<1>3. StepsLeft
  <2>1. PICK projection \in Projections, odd \in BOOLEAN : drivers = DriversOf(projection, odd)
    BY DEF Init
  <2> DEFINE ds == DriversOf(projection, odd)
  <2>2. ds \in Seq(Drivers)
    BY DriversOfStep
  <2> HIDE DEF ds
  <2>3. ds = SubSeq(ds, 1, Len(ds)) /\ 1 \in 1 .. Len(ds) + 1
    BY <2>2
  <2> QED BY <2>1, <2>3 DEF ds, StepsLeft
<1>4. todo \subseteq 0 .. ny
  BY <1>1 DEF Init, CellRows, WideGrid
<1> QED BY <1>1, <1>2, <1>3, <1>4, ValuesInitially, TypeParts

\* A step of a driver stores values, and leaves rows of the grid to do.
LEMMA DriversWrite ==
  ASSUME FrameInv, todo \subseteq 0 .. ny, LagrangeInv',
         Lagrange2dDriver \/ AdProjection2dXDriver \/ AdProjection2dYDriver \/ DirectProjection2dDriver
  PROVE  Writes /\ todo' \subseteq 0 .. ny
<1>1. WideGrid
  BY DEF FrameInv
<1>2. CASE Lagrange2dDriver
  <2>1. Running("Lagrange")' /\ L!Next
    BY <1>2 DEF Lagrange2dDriver, Running
  <2>2. (RowsInv /\ WideGrid)' /\ SameSize
    <3>1. \E outs : Keeps(outs)
      BY <2>1, StepsL
    <3> QED BY <2>1, <3>1 DEF LagrangeInv, Keeps
  <2>3. todo' \subseteq 0 .. ny
    BY <1>1, <2>2 DEF RowsInv, SameSize, CellRows, NodeRows, Inner, WideGrid
  <2> QED BY <1>1, <2>1, <2>3, WritesL
<1>3. CASE AdProjection2dXDriver
  <2>1. X!Next
    BY <1>3 DEF AdProjection2dXDriver
  <2> QED BY <1>1, <2>1, StepsX, RowsOfSweeps, WritesX
<1>4. CASE AdProjection2dYDriver
  <2>1. Y!Next
    BY <1>4 DEF AdProjection2dYDriver
  <2> QED BY <1>1, <2>1, StepsY, RowsOfSweeps, WritesY
<1>5. CASE DirectProjection2dDriver
  <2>1. D!Next
    BY <1>5 DEF DirectProjection2dDriver
  <2>2. PICK outs : KernelD(outs)
    BY <2>1, StepsD
  <2>3. todo' \subseteq 0 .. ny
    <3>1. D!RowsFor(D!Driver, pc + 1, D!Rows) \subseteq 0 .. ny
      <4>1. pc + 1 \in 1 .. 36
        BY <2>2 DEF KernelD
      <4> QED BY <1>1, <4>1, RowsOfCalls
    <3> QED BY <2>2, <3>1 DEF KernelD
  <2> QED BY <1>1, <2>1, <2>3, WritesD
<1> QED BY <1>2, <1>3, <1>4, <1>5

\* and every step keeps it.
LEMMA TypeNext == FrameInv /\ LagrangeInv' /\ TypeOK /\ [Next]_allvars => TypeOK'
<1> SUFFICES ASSUME FrameInv, LagrangeInv', TypeOK, [Next]_allvars PROVE TypeOK'
  OBVIOUS
<1>1. SizesInv /\ ValuesInv /\ ShapesInv /\ StepsLeft /\ todo \subseteq 0 .. ny /\ WideGrid
  BY TypeParts DEF FrameInv
<1>2. CASE UNCHANGED allvars
  <2>1. SameSize /\ UNCHANGED <<mem, todo, drivers, agree>>
    BY <1>2 DEF allvars, vars, SameSize
  <2>2. \A k : Size(k)' = Size(k)
    BY <2>1, SameGridNext DEF SameSize
  <2>3. SizesInv' /\ ShapesInv' /\ StepsLeft' /\ (todo \subseteq 0 .. ny)'
    BY <1>1, <2>1, <2>2, SameArrays DEF SizesInv, ShapesInv, StepsLeft, DriversOf, SameSize
  <2>4. ValuesInv'
    BY <1>1, <2>1, SameArrays DEF ValuesInv, Values, Garbage, Zero
  <2> QED BY <2>3, <2>4, TypeParts, PTL
<1>3. CASE Next
  <2>1. SizesInv' /\ SameSize
    BY <1>1, <1>3, SizesNext
  <2>2. agree' = agree
    BY <1>3 DEF Next, Lagrange2dDriver, AdProjection2dXDriver, AdProjection2dYDriver,
                DirectProjection2dDriver, Project, SecondSweep, EndStep, Enter
  <2>3. ShapesInv'
    BY <1>1, <2>1, <2>2 DEF ShapesInv, SameSize
  <2>4. CASE Lagrange2dDriver \/ AdProjection2dXDriver \/ AdProjection2dYDriver \/ DirectProjection2dDriver
    <3>1. Writes /\ todo' \subseteq 0 .. ny /\ drivers' = drivers
      BY <1>1, <2>4, DriversWrite, DriversKeep
    <3>2. ValuesInv'
      BY <1>1, <3>1, ValuesWritten DEF SizesInv
    <3>3. StepsLeft'
      BY <1>1, <3>1, StepsFewer
    <3>4. (todo \subseteq 0 .. ny)'
      BY <2>1, <3>1 DEF SameSize
    <3> QED BY <2>1, <2>3, <3>2, <3>3, <3>4, TypeParts, PTL
  <2>5. CASE Project \/ SecondSweep \/ EndStep
    <3>1. mem' = mem \/ mem' = Swapped(SweepPairs) \/ mem' = Swapped(StepPairs)
      BY <2>5 DEF Project, SecondSweep, EndStep
    <3>2. ValuesInv'
      <4>1. CASE mem' = mem
        BY <1>1, <4>1, SameArrays DEF ValuesInv, Values, Garbage, Zero
      <4>2. CASE mem' = Swapped(SweepPairs) \/ mem' = Swapped(StepPairs)
        BY <1>1, <4>2, ValuesSwapped
      <4> QED BY <3>1, <4>1, <4>2
    <3>3. drivers' \in {drivers, <<>>} \/ (drivers # <<>> /\ drivers' = Tail(drivers))
      BY <2>5 DEF Project, SecondSweep, EndStep, Enter, Running
    <3>4. StepsLeft'
      BY <1>1, <3>3, StepsFewer
    <3>5. todo' \in {todo, NodeRows, CellRows}
      BY <2>5 DEF Project, SecondSweep, EndStep, Enter, FirstRows
    <3>6. (todo \subseteq 0 .. ny)'
      BY <1>1, <2>1, <3>5 DEF SameSize, NodeRows, CellRows, WideGrid
    <3> QED BY <2>1, <2>3, <3>2, <3>4, <3>6, TypeParts, PTL
  <2> QED BY <1>3, <2>4, <2>5 DEF Next
<1> QED BY <1>2, <1>3

\* Whichever row a thread takes next, on a grid of any size: each array of the time step keeps
\* the size of its kind and holds values of the model only, the rows left to a loop are rows of
\* the grid, and the drivers left are the last ones of one of the lists that TimeLoop can choose.
THEOREM StepTypeOK == Spec => []TypeOK
<1>1. Init => FrameInv /\ LagrangeInv /\ TypeOK
  BY FrameInitially, LagrangeInitially, TypeInitially
<1>2. FrameInv /\ LagrangeInv /\ TypeOK /\ [Next]_allvars => (FrameInv /\ LagrangeInv /\ TypeOK)'
  BY FrameNext, LagrangeNext, TypeNext
<1> QED BY <1>1, <1>2, PTL DEF Spec

-----------------------------------------------------------------------------
(* The arrays of the driver of both directions are stored once. *)

\* What an array of the driver of both directions holds before the driver stores into it.
Before(a) == IF a \in {"gradient_u", "gradient_v"} THEN Zero ELSE Garbage

\* The places that the driver has yet to store: those of the rows, and those beyond them.
Awaiting(a) ==
  {p \in Places(KindOf(a)) :
     \/ p \in LoopColumns(a) \X LoopRows(a) /\ (pc < LoopCall(a) \/ (pc = LoopCall(a) /\ p[2] \in todo))
     \/ a \in WithBoundary /\ p \in Beyond(a) /\ pc <= EdgeCall(a)}

\* Nothing of the array has been stored yet.
Untouched(a) == \A p \in Places(KindOf(a)) : mem[a][At(KindOf(a), p)] = Before(a)

\* While the driver runs, the rows left are those of its loop, and each place that it has yet
\* to store holds what it held before the driver.
DirectAwaits ==
  /\ pc \in 1 .. 36
  /\ \A a \in DirectArrays : pc = LoopCall(a) => todo \subseteq LoopRows(a)
  /\ \A a \in DirectArrays : \A p \in Awaiting(a) : mem[a][At(KindOf(a), p)] = Before(a)

\* The Lagrangian driver, which runs first, stores nothing of the driver of both directions;
\* from then on a place keeps what it held until it is stored.
AwaitingInv ==
  /\ Running("Lagrange") => \A a \in DirectArrays : Untouched(a)
  /\ Running("Direct") => DirectAwaits

\* The loop of an array is a call of the driver, and its rows are those of the array.
LEMMA LoopOfArray ==
  ASSUME NEW a \in DirectArrays
  PROVE  /\ LoopCall(a) \in 1 .. 35 /\ EdgeCall(a) \in Int
         /\ D!RowsFor(D!Driver, LoopCall(a), D!Rows) = LoopRows(a)
         /\ LoopCall(a) = 1 => LoopRows(a) = CellRows
<1>1. \A outs : Loop(outs).outs = outs /\ Loop(outs).part = "loop"
  BY DEF Loop
<1>2. /\ LoopCall(a) \in 1 .. 35
      /\ D!Driver[LoopCall(a)].part = "loop" /\ a \in D!Driver[LoopCall(a)].outs
  BY <1>1, Calls DEF LoopCall, DirectArrays, WithBoundary
<1>3. LoopCall(a) = 1 => LoopRows(a) = CellRows
  BY DEF LoopCall, LoopRows, DirectArrays, WithBoundary
<1> QED BY <1>2, <1>3, CallsOfArrays DEF EdgeCall

\* What a loop stores into, and what it leaves to the boundary kernel, are places of the array.
LEMMA LoopPlaces ==
  ASSUME WideGrid, NEW a \in DirectArrays
  PROVE  /\ KindOf(a) \in Kinds
         /\ LoopColumns(a) \X LoopRows(a) \subseteq Places(KindOf(a))
         /\ Beyond(a) \subseteq Places(KindOf(a))
         /\ a \in {"gradient_u", "gradient_v"} => KindOf(a) = "node" /\ LoopColumns(a) = 1 .. nx - 1
<1>1. nx \in Nat /\ ny \in Nat /\ nx > 1 /\ ny > 1
  BY DEF WideGrid
<1>2. KindOf(a) \in Kinds
  BY DEF DirectArrays, WithBoundary, KindOf, Kinds
<1>3. LoopColumns(a) \subseteq 0 .. LastX(KindOf(a))
  BY <1>1 DEF LoopColumns, LastX, StaggeredX, KindOf, DirectArrays, WithBoundary
<1>4. LoopRows(a) \subseteq 0 .. LastY(KindOf(a))
  BY <1>1 DEF LoopRows, LastY, StaggeredY, KindOf, DirectArrays, WithBoundary, CellRows, NodeRows, Inner
<1>5. a \in {"gradient_u", "gradient_v"} => KindOf(a) = "node" /\ LoopColumns(a) = 1 .. nx - 1
  BY DEF KindOf, LoopColumns
<1> QED BY <1>2, <1>3, <1>4, <1>5 DEF Places, Beyond

\* What the driver does not store yet is not sound, but for what no kernel stores.
LEMMA SoundIs ==
  \A a, p : Y!Sound(a, p) <=> mem[a][At(KindOf(a), p)] \in {Right(a, p), Derived(Fold(KindOf(a), p))}
<1>1. Y!WallsX = WallsX
  BY DEF Y!WallsX, WallsX
<1>2. \A a, p : Y!Held(a, p) = Held(a, p)
  BY <1>1, SameGridY DEF Y!Held, Held, Y!OnWallX, OnWallX, Y!OnWallY, OnWallY
<1>3. \A a, p : Y!Right(a, p) = Right(a, p)
  BY <1>2, SameGridY DEF Y!Right, Right
<1> QED BY <1>3, SameGridY DEF Y!Sound, Y!Derived, Derived

\* What an array holds before it is stored is not sound, but for the nodes of a wall, where the
\* gradient in x is to be the 0 that the array was initialised with.
LEMMA BeforeIsNotSound ==
  ASSUME NEW a \in DirectArrays, NEW p, mem[a][At(KindOf(a), p)] = Before(a),
         a \in {"gradient_u", "gradient_v"} => ~OnWallX(p)
  PROVE  ~Y!Sound(a, p)
<1>1. Fold(KindOf(a), p) # Zero /\ Fold(KindOf(a), p) # Garbage
  BY DEF Fold, Zero, Garbage, KindOf, DirectArrays, WithBoundary
<1>2. Derived(Fold(KindOf(a), p)) \notin {Zero, Garbage}
  BY DEF Derived, Zero, Garbage
<1>3. Zero # Garbage
  BY DEF Zero, Garbage
<1>4. Right(a, p) # Before(a)
  <2>1. CASE a \in {"gradient_u", "gradient_v"}
    <3>1. ~Held(a, p)
      BY <2>1 DEF Held
    <3> QED BY <1>1, <2>1, <3>1 DEF Right, Before
  <2>2. CASE a \notin {"gradient_u", "gradient_v"}
    BY <1>1, <1>3, <2>2 DEF Right, Before
  <2> QED BY <2>1, <2>2
<1> QED BY <1>2, <1>4, SoundIs DEF Before

\* A step that stores into places S of the array a, which are awaited no more after it.
FillsAwaited(a, S) ==
  /\ S \subseteq Awaiting(a) /\ S \cap Awaiting(a)' = {}
  /\ a \in {"gradient_u", "gradient_v"} => \A p \in S : ~OnWallX(p)
  /\ \A p \in Places(KindOf(a)) \ S : mem'[a][At(KindOf(a), p)] = mem[a][At(KindOf(a), p)]

\* The stores of a kernel into some places leave what the other places hold.
LEMMA StoresIntoPlaces ==
  ASSUME WideGrid, NEW a \in DirectArrays, DOMAIN mem[a] = 0 .. Size(KindOf(a)) - 1,
         NEW S \in SUBSET Places(KindOf(a)), NEW stores, Placed(stores, KindOf(a), S)
  PROVE  \A p \in Places(KindOf(a)) \ S :
           Stored(mem[a], stores)[At(KindOf(a), p)] = mem[a][At(KindOf(a), p)]
<1> DEFINE k == KindOf(a)
           f == mem[a]
<1>1. k \in Kinds /\ Grid
  BY LoopPlaces, WideGridIsGrid
<1>2. \A s \in stores : \E p \in S : s[1] = At(k, p)
  BY DEF Placed, Put
<1> HIDE DEF k, f
<1>3. S \in SUBSET Places(k) /\ DOMAIN f = 0 .. Size(k) - 1
  BY DEF k, f
<1>4. \A p \in Places(k) \ S : Stored(f, stores)[At(k, p)] = f[At(k, p)]
  BY <1>1, <1>2, <1>3, StoredElsewhere
<1> QED BY <1>4 DEF k, f

\* The rows and the places of an array do not change as long as the grid does not.
LEMMA SameAwaiting ==
  ASSUME SameSize
  PROVE  /\ \A a : LoopRows(a)' = LoopRows(a) /\ LoopColumns(a)' = LoopColumns(a) /\ Beyond(a)' = Beyond(a)
         /\ \A a, p : /\ p \in Awaiting(a)' => p \in Places(KindOf(a))
                      /\ p \in Awaiting(a)' =>
                           \/ /\ p \in LoopColumns(a) \X LoopRows(a)
                              /\ pc' < LoopCall(a) \/ (pc' = LoopCall(a) /\ p[2] \in todo')
                           \/ a \in WithBoundary /\ p \in Beyond(a) /\ pc' <= EdgeCall(a)
<1>1. \A k : LastX(k)' = LastX(k) /\ Places(k)' = Places(k)
  BY SameGridNext DEF SameSize, LastX
<1>2. \A a : LoopRows(a)' = LoopRows(a)
  BY DEF LoopRows, NodeRows, CellRows, Inner, SameSize
<1>3. \A a : LoopColumns(a)' = LoopColumns(a)
  BY <1>1 DEF LoopColumns, SameSize
<1>4. \A a : Beyond(a)' = Beyond(a)
  BY <1>1, <1>2, <1>3 DEF Beyond
<1> QED BY <1>1, <1>2, <1>3, <1>4 DEF Awaiting

\* No place awaits its store again, as the loops take fewer and fewer rows.
LEMMA FewerAwait ==
  ASSUME SameSize, NEW a \in DirectArrays, pc \in Int,
         pc' = pc + 1 \/ (pc' = pc /\ todo' \subseteq todo)
  PROVE  Awaiting(a)' \subseteq Awaiting(a)
<1> SUFFICES ASSUME NEW p \in Awaiting(a)' PROVE p \in Awaiting(a)
  OBVIOUS
<1>1. LoopCall(a) \in Int /\ EdgeCall(a) \in Int
  BY LoopOfArray
<1> QED BY <1>1, SameAwaiting DEF Awaiting

\* A row of the driver stores only into places that await it, and fills them;
LEMMA DirectFillsRow ==
  ASSUME WideGrid, SizesInv, DirectAwaits, todo \subseteq 0 .. ny, D!Row, NEW a \in DirectArrays
  PROVE  \E S : FillsAwaited(a, S)
<1>1. a \in DOMAIN mem /\ DOMAIN mem[a] = 0 .. Size(KindOf(a)) - 1
  BY DirectArraysAre DEF SizesInv, Arrays
<1>2. DOMAIN D!Driver = 1 .. 35
  BY Calls
<1>3. pc \in 1 .. 35 /\ D!Driver[pc].part = "loop"
  BY <1>2 DEF D!Row, D!LoopRow
<1>4. CASE todo = {} \/ a \notin D!Driver[pc].outs
  <2>1. mem'[a] = mem[a]
    BY <1>1, <1>4 DEF D!Row, D!LoopRow, D!RowOf
  <2>2. FillsAwaited(a, {})
    BY <2>1 DEF FillsAwaited
  <2> QED BY <2>2
<1>5. CASE todo # {} /\ a \in D!Driver[pc].outs
  <2>1. PICK iy \in todo : /\ mem'[a] = Stored(mem[a], D!LoopStores(a, iy))
                           /\ pc' = IF todo = {iy} THEN pc + 1 ELSE pc
                           /\ todo # {iy} => todo' = todo \ {iy}
                           /\ SameSize
    BY <1>1, <1>5, SameStoresD DEF D!Row, D!LoopRow, D!RowOf, D!RowDone, SameSize
  <2>2. LoopCall(a) = pc /\ iy \in LoopRows(a) /\ iy \in 0 .. ny
    BY <1>3, <1>5, CallsOfArrays DEF DirectAwaits
  <2> DEFINE S == LoopColumns(a) \X {iy}
  <2>3. S \subseteq LoopColumns(a) \X LoopRows(a)
    BY <2>2
  <2>4. S \subseteq Places(KindOf(a))
    BY <2>3, LoopPlaces
  <2>5. S \subseteq Awaiting(a)
    BY <2>1, <2>2, <2>3, <2>4 DEF Awaiting
  <2>6. S \cap Awaiting(a)' = {}
    <3> SUFFICES ASSUME NEW p \in S, p \in Awaiting(a)' PROVE FALSE
      OBVIOUS
    <3>1. p \notin Beyond(a) /\ p[2] = iy
      BY <2>3 DEF Beyond
    <3>2. pc' < LoopCall(a) \/ (pc' = LoopCall(a) /\ p[2] \in todo')
      BY <2>1, <3>1, SameAwaiting
    <3> QED BY <1>3, <2>1, <2>2, <3>1, <3>2
  <2>7. a \in {"gradient_u", "gradient_v"} => \A p \in S : ~OnWallX(p)
    BY LoopPlaces DEF OnWallX, WideGrid
  <2>8. Placed(D!LoopStores(a, iy), KindOf(a), S)
    BY <2>2, RowStoresD
  <2> HIDE DEF S
  <2>9. \A p \in Places(KindOf(a)) \ S : mem'[a][At(KindOf(a), p)] = mem[a][At(KindOf(a), p)]
    <3> DEFINE stores == D!LoopStores(a, iy)
    <3>1. S \in SUBSET Places(KindOf(a)) /\ Placed(stores, KindOf(a), S) /\ mem'[a] = Stored(mem[a], stores)
      BY <2>1, <2>4, <2>8
    <3> HIDE DEF stores
    <3>2. \A p \in Places(KindOf(a)) \ S :
            Stored(mem[a], stores)[At(KindOf(a), p)] = mem[a][At(KindOf(a), p)]
      BY <1>1, <3>1, StoresIntoPlaces
    <3> QED BY <3>1, <3>2
  <2> QED BY <2>5, <2>6, <2>7, <2>9 DEF FillsAwaited
<1> QED BY <1>4, <1>5

\* so does a boundary kernel, whose walls leave the nodal gradient in x as it is.
LEMMA DirectFillsEdge ==
  ASSUME WideGrid, SizesInv, DirectAwaits, D!Edge, NEW a \in DirectArrays
  PROVE  \E S : FillsAwaited(a, S)
<1>1. a \in DOMAIN mem /\ DOMAIN mem[a] = 0 .. Size(KindOf(a)) - 1
  BY DirectArraysAre DEF SizesInv, Arrays
<1>2. DOMAIN D!Driver = 1 .. 35
  BY Calls
<1>3. pc \in 1 .. 35 /\ D!Driver[pc].part # "loop" /\ pc' = pc + 1 /\ SameSize
  BY <1>2 DEF D!Edge, D!BoundaryCall, D!BoundaryOf, SameSize
<1>4. CASE a \notin D!Driver[pc].outs
  <2>1. mem'[a] = mem[a]
    BY <1>1, <1>4 DEF D!Edge, D!BoundaryCall, D!BoundaryOf
  <2>2. FillsAwaited(a, {})
    BY <2>1 DEF FillsAwaited
  <2> QED BY <2>2
<1>5. CASE a \in D!Driver[pc].outs
  <2>1. mem'[a] = Stored(mem[a], D!BoundaryStores(a))
    BY <1>1, <1>5, SameStoresD DEF D!Edge, D!BoundaryCall, D!BoundaryOf
  <2>2. a \in WithBoundary /\ EdgeCall(a) = pc
    BY <1>3, <1>5, CallsOfArrays
  <2> DEFINE closed == WallsX /\ a \in {"gradient_u", "gradient_v"}
             S == IF closed THEN {} ELSE Beyond(a)
  <2>3. S \subseteq Places(KindOf(a)) /\ S \subseteq Beyond(a)
    BY LoopPlaces
  <2>4. S \subseteq Awaiting(a)
    BY <1>3, <2>2, <2>3 DEF Awaiting
  <2>5. S \cap Awaiting(a)' = {}
    <3> SUFFICES ASSUME NEW p \in S, p \in Awaiting(a)' PROVE FALSE
      OBVIOUS
    <3>1. p \notin LoopColumns(a) \X LoopRows(a)
      BY <2>3 DEF Beyond
    <3>2. pc' <= EdgeCall(a)
      BY <1>3, <3>1, SameAwaiting
    <3> QED BY <1>3, <2>2, <3>2
  <2>6. a \in {"gradient_u", "gradient_v"} => \A p \in S : ~OnWallX(p)
    BY DEF OnWallX
  <2>7. Placed(D!BoundaryStores(a), KindOf(a), S)
    BY <2>2, EdgeStoresD DEF Placed
  <2> HIDE DEF S
  <2>8. \A p \in Places(KindOf(a)) \ S : mem'[a][At(KindOf(a), p)] = mem[a][At(KindOf(a), p)]
    <3> DEFINE stores == D!BoundaryStores(a)
    <3>1. S \in SUBSET Places(KindOf(a)) /\ Placed(stores, KindOf(a), S) /\ mem'[a] = Stored(mem[a], stores)
      BY <2>1, <2>3, <2>7
    <3> HIDE DEF stores
    <3>2. \A p \in Places(KindOf(a)) \ S :
            Stored(mem[a], stores)[At(KindOf(a), p)] = mem[a][At(KindOf(a), p)]
      BY <1>1, <3>1, StoresIntoPlaces
    <3> QED BY <3>1, <3>2
  <2> QED BY <2>4, <2>5, <2>6, <2>8 DEF FillsAwaited
<1> QED BY <1>4, <1>5

\* A sound element of the arrays of the driver of both directions stays sound.
SoundKept ==
  \A a \in DirectArrays : \A p \in Places(KindOf(a)) : Y!Sound(a, p) => Y!Sound(a, p)'

\* SoundIs, of the next state.
LEMMA SoundIsNext ==
  (\A a, p : Y!Sound(a, p) <=> mem[a][At(KindOf(a), p)] \in {Right(a, p), Derived(Fold(KindOf(a), p))})'
BY SoundIs, PTL

\* An element that keeps its value on a grid that does not change stays sound.
LEMMA SoundAfter ==
  ASSUME SameSize, NEW a, NEW p, mem'[a][At(KindOf(a), p)] = mem[a][At(KindOf(a), p)], Y!Sound(a, p)
  PROVE  Y!Sound(a, p)'
<1>1. /\ At(KindOf(a), p)' = At(KindOf(a), p) /\ Right(a, p)' = Right(a, p)
      /\ Derived(Fold(KindOf(a), p))' = Derived(Fold(KindOf(a), p))
  <2>1. WallsX' = WallsX /\ WallsY' = WallsY
    BY DEF WallsX, WallsY, SameSize
  <2>2. Fold(KindOf(a), p)' = Fold(KindOf(a), p)
    BY <2>1 DEF Fold, Folded, SameSize
  <2> QED BY <2>2, SameGridNext DEF SameSize, Derived
<1>2. mem[a][At(KindOf(a), p)] \in {Right(a, p), Derived(Fold(KindOf(a), p))}
  BY SoundIs
<1>3. (mem[a][At(KindOf(a), p)] \in {Right(a, p), Derived(Fold(KindOf(a), p))})'
  BY <1>1, <1>2
<1> QED BY <1>3, SoundIsNext

\* A step of the driver of both directions keeps its invariant, and what is sound: an element
\* that is sound no longer awaits its store, and only those that do are stored.
LEMMA DirectStepAwaits ==
  ASSUME WideGrid, SizesInv, DirectAwaits, todo \subseteq 0 .. ny, D!Next
  PROVE  DirectAwaits' /\ SoundKept
<1>1. PICK outs : KernelD(outs)
  BY StepsD
<1>2. SameSize /\ pc \in 1 .. 35 /\ pc' \in 1 .. 36
  BY <1>1 DEF KernelD, Keeps, DirectAwaits
<1>3. ASSUME NEW a \in DirectArrays, pc' = LoopCall(a) PROVE todo' \subseteq LoopRows(a)'
  BY <1>1, <1>2, <1>3, LoopOfArray, SameAwaiting DEF KernelD, DirectAwaits
<1>4. ASSUME NEW a \in DirectArrays
      PROVE  /\ \A p \in Awaiting(a)' : mem'[a][At(KindOf(a), p)] = Before(a)
             /\ \A p \in Places(KindOf(a)) : Y!Sound(a, p) => Y!Sound(a, p)'
  <2>1. PICK S : FillsAwaited(a, S)
    BY DirectFillsRow, DirectFillsEdge DEF D!Next
  <2>2. Awaiting(a)' \subseteq Awaiting(a)
    BY <1>1, <1>2, FewerAwait DEF KernelD
  <2>3. \A p \in Awaiting(a) : mem[a][At(KindOf(a), p)] = Before(a) /\ p \in Places(KindOf(a))
    BY DEF DirectAwaits, Awaiting
  <2>4. \A p \in Awaiting(a)' : mem'[a][At(KindOf(a), p)] = Before(a)
    BY <2>1, <2>2, <2>3 DEF FillsAwaited
  <2>5. ASSUME NEW p \in Places(KindOf(a)), Y!Sound(a, p) PROVE Y!Sound(a, p)'
    <3>1. p \notin S
      <4> SUFFICES ASSUME p \in S PROVE FALSE
        OBVIOUS
      <4>1. mem[a][At(KindOf(a), p)] = Before(a) /\ (a \in {"gradient_u", "gradient_v"} => ~OnWallX(p))
        BY <2>1, <2>3 DEF FillsAwaited
      <4> QED BY <2>5, <4>1, BeforeIsNotSound
    <3>2. mem'[a][At(KindOf(a), p)] = mem[a][At(KindOf(a), p)]
      BY <2>1, <3>1 DEF FillsAwaited
    <3> QED BY <1>2, <2>5, <3>2, SoundAfter
  <2> QED BY <2>4, <2>5
<1>5. \A k, p : At(k, p)' = At(k, p)
  BY <1>2, SameGridNext DEF SameSize
<1>6. DirectAwaits'
  <2>1. \A a \in DirectArrays : LoopCall(a)' = LoopCall(a) /\ Before(a)' = Before(a)
    BY DEF LoopCall, Before, Zero, Garbage
  <2> QED BY <1>2, <1>3, <1>4, <1>5, <2>1 DEF DirectAwaits, DirectArrays, WithBoundary
<1> QED BY <1>4, <1>6 DEF SoundKept

\* The invariant holds when a time step begins,
LEMMA AwaitingInitially == Init => AwaitingInv
<1> SUFFICES ASSUME Init PROVE AwaitingInv
  OBVIOUS
<1>1. WideGrid
  BY FrameInitially DEF FrameInv
<1>2. ASSUME NEW a \in DirectArrays, NEW p \in Places(KindOf(a)) PROVE mem[a][At(KindOf(a), p)] = Before(a)
  <2>1. /\ a \in Arrays /\ a \notin Inputs /\ a \notin {"u", "v"}
        /\ a \in X!Zeroed <=> a \in {"gradient_u", "gradient_v"}
    BY DirectArraysAre DEF Arrays, Inputs, L!Inputs, DirectArrays, WithBoundary, X!Zeroed
  <2>2. At(KindOf(a), p) \in 0 .. Size(KindOf(a)) - 1
    BY <1>1, WideGridIsGrid, LoopPlaces, ElementsInside
  <2> QED BY <2>1, <2>2 DEF Init, Before
<1>3. drivers # <<>> /\ Head(drivers) = "Lagrange"
  BY DEF Init, DriversOf
<1> QED BY <1>2, <1>3 DEF AwaitingInv, Untouched, Running

\* The driver of both directions begins where nothing of it has been stored.
LEMMA DirectEnters ==
  ASSUME DriversInv, Project \/ SecondSweep \/ EndStep, Running("Direct")'
  PROVE  /\ Running("Lagrange") /\ mem' = mem /\ SameSize
         /\ pc' = 1 /\ todo' = CellRows
<1>1. drivers' # <<>> /\ Head(drivers') = "Direct"
  BY DEF Running
<1>2. ~EndStep
  BY <1>1 DEF EndStep, Enter
<1>3. ~SecondSweep
  <2> SUFFICES ASSUME SecondSweep PROVE FALSE
    OBVIOUS
  <2>1. drivers' = Tail(drivers) /\ drivers \in {<<"X", "Y">>, <<"Y", "X">>}
    <3>1. drivers' = Tail(drivers) /\ Len(drivers) = 2 /\ Head(drivers) \in {"X", "Y"}
      BY DEF SecondSweep, Enter, Running
    <3>2. CASE drivers \in {<<"Lagrange", "X", "Y">>, <<"Lagrange", "Y", "X">>}
      BY <3>1, <3>2
    <3>3. CASE drivers = <<"Lagrange", "Direct">>
      BY <3>1, <3>3
    <3>4. CASE drivers \in {<<"Lagrange">>, <<"Direct">>, <<"X">>, <<"Y">>}
      BY <3>1, <3>4
    <3>5. CASE drivers = <<>>
      BY <3>1, <3>5
    <3>6. CASE drivers \in {<<"X", "Y">>, <<"Y", "X">>}
      BY <3>1, <3>6
    <3> QED BY <3>2, <3>3, <3>4, <3>5, <3>6, Zenon DEF DriversInv
  <2>2. Tail(<<"X", "Y">>) = <<"Y">> /\ Tail(<<"Y", "X">>) = <<"X">>
    OBVIOUS
  <2> QED BY <1>1, <2>1, <2>2
<1>4. Project
  BY <1>2, <1>3
<1>5. Enter(drivers')
  BY <1>4 DEF Project, Enter
<1> QED BY <1>1, <1>4, <1>5 DEF Project, Enter, FirstKernel, FirstRows, SameSize

\* What is left of a time step is a list of drivers.
LEMMA ListsOfDrivers == DriversInv => drivers \in Seq(Drivers)
<1>1. /\ <<"Lagrange", "X", "Y">> \in Seq(Drivers) /\ <<"Lagrange", "Y", "X">> \in Seq(Drivers)
      /\ <<"Lagrange", "Direct">> \in Seq(Drivers) /\ <<"Lagrange">> \in Seq(Drivers)
      /\ <<"X", "Y">> \in Seq(Drivers) /\ <<"Y", "X">> \in Seq(Drivers) /\ <<"Direct">> \in Seq(Drivers)
      /\ <<"X">> \in Seq(Drivers) /\ <<"Y">> \in Seq(Drivers) /\ <<>> \in Seq(Drivers)
  BY DEF Drivers
<1> HIDE DEF Drivers
<1> QED BY <1>1 DEF DriversInv

\* and every step of the time step keeps it.
LEMMA AwaitingNext == FrameInv /\ TypeOK /\ AwaitingInv /\ [Next]_allvars => AwaitingInv'
<1> SUFFICES ASSUME FrameInv, TypeOK, AwaitingInv, [Next]_allvars PROVE AwaitingInv'
  OBVIOUS
<1>1. WideGrid /\ SizesInv /\ todo \subseteq 0 .. ny /\ DriversInv
  BY TypeParts DEF FrameInv
<1>2. \A a : Before(a)' = Before(a)
  BY DEF Before, Zero, Garbage
<1>3. CASE UNCHANGED allvars
  <2>1. SameSize /\ UNCHANGED <<mem, pc, todo, drivers>>
    BY <1>3 DEF allvars, vars, SameSize
  <2>2. \A k : Places(k)' = Places(k)
    BY <2>1, SameGridNext DEF SameSize
  <2>3. \A k, p : At(k, p)' = At(k, p)
    BY <2>1, SameGridNext DEF SameSize
  <2>4. \A a \in DirectArrays : Awaiting(a)' = Awaiting(a) /\ LoopRows(a)' = LoopRows(a)
    BY <2>1, <2>2, SameAwaiting DEF Awaiting
  <2>5. \A d : Running(d)' = Running(d)
    BY <2>1 DEF Running
  <2> QED BY <1>2, <2>1, <2>2, <2>3, <2>4, <2>5 DEF AwaitingInv, Untouched, DirectAwaits, LoopCall,
             DirectArrays, WithBoundary
<1>4. CASE Lagrange2dDriver
  <2>1. Running("Lagrange") /\ Running("Lagrange")' /\ ~Running("Direct")' /\ Keeps(L!Scratch)
    BY <1>4, StepsL DEF Lagrange2dDriver, Running
  <2>2. DirectArrays \cap L!Scratch = {}
    BY DEF DirectArrays, WithBoundary, L!Scratch
  <2>3. DirectArrays \subseteq DOMAIN mem
    BY <1>1, DirectArraysAre DEF SizesInv, Arrays
  <2>4. \A a \in DirectArrays : mem'[a] = mem[a]
    BY <2>1, <2>2, <2>3 DEF Keeps
  <2>5. (\A k : Places(k)' = Places(k)) /\ \A k, p : At(k, p)' = At(k, p)
    BY <2>1, SameGridNext DEF SameSize, Keeps
  <2>6. \A a \in DirectArrays : Untouched(a)'
    BY <1>2, <2>1, <2>4, <2>5 DEF AwaitingInv, Untouched
  <2> QED BY <2>1, <2>6 DEF AwaitingInv, DirectArrays, WithBoundary
<1>5. CASE AdProjection2dXDriver \/ AdProjection2dYDriver
  <2>1. ~Running("Lagrange")' /\ ~Running("Direct")'
    BY <1>5 DEF AdProjection2dXDriver, AdProjection2dYDriver, Running
  <2> QED BY <2>1 DEF AwaitingInv
<1>6. CASE DirectProjection2dDriver
  <2>1. D!Next /\ Running("Direct") /\ ~Running("Lagrange")'
    BY <1>6 DEF DirectProjection2dDriver, Running
  <2> QED BY <1>1, <2>1, DirectStepAwaits DEF AwaitingInv
<1>7. CASE Project \/ SecondSweep \/ EndStep
  <2>1. ~Running("Lagrange")'
    <3>1. ~Lagrange2dDriver \/ drivers' # drivers \/ ~Running("Lagrange")'
      BY <1>1, <1>7 DEF DriversInv, Project, SecondSweep, EndStep, Enter, Running, Lagrange2dDriver
    <3>2. Next
      BY <1>7 DEF Next
    <3>3. drivers' # drivers
      <4>1. CASE Project \/ SecondSweep
        <5>1. drivers' = Tail(drivers) /\ drivers \in Seq(Drivers) /\ drivers # <<>>
          <6>1. drivers \in Seq(Drivers)
            BY <1>1, ListsOfDrivers
          <6> QED BY <4>1, <6>1 DEF Project, SecondSweep, Enter, Running
        <5> QED BY <5>1
      <4>2. CASE EndStep
        BY <4>2 DEF EndStep, Enter, Running
      <4> QED BY <1>7, <4>1, <4>2
    <3> QED BY <1>1, <3>1, <3>2, <3>3, DriversStep DEF Lagrange2dDriver
  <2>2. ASSUME Running("Direct")' PROVE DirectAwaits'
    <3>1. Running("Lagrange") /\ mem' = mem /\ SameSize /\ pc' = 1 /\ todo' = CellRows
      BY <1>1, <1>7, <2>2, DirectEnters
    <3>2. \A a \in DirectArrays : Untouched(a)
      BY <3>1 DEF AwaitingInv
    <3>3. \A a \in DirectArrays : 1 = LoopCall(a) => todo' \subseteq LoopRows(a)'
      BY <3>1, LoopOfArray, SameAwaiting
    <3>4. \A k, p : At(k, p)' = At(k, p)
      BY <3>1, SameGridNext DEF SameSize
    <3>5. \A a \in DirectArrays : \A p \in Awaiting(a)' : mem'[a][At(KindOf(a), p)] = Before(a)
      BY <3>1, <3>2, SameAwaiting DEF Untouched
    <3>6. \A a \in DirectArrays : LoopCall(a)' = LoopCall(a)
      BY DEF LoopCall
    <3> QED BY <1>2, <3>1, <3>3, <3>4, <3>5, <3>6 DEF DirectAwaits, DirectArrays, WithBoundary
  <2> QED BY <2>1, <2>2 DEF AwaitingInv
<1> QED BY <1>3, <1>4, <1>5, <1>6, <1>7 DEF Next

\* No kernel of the driver of both directions spoils what another has stored: on a grid of any
\* size, whichever row a thread takes next, an element that was computed from its own
\* neighbours is not replaced by one that was not.
THEOREM SoundIsStoredOnce == Spec => SoundStaysSound
<1>1. Init => FrameInv /\ LagrangeInv /\ TypeOK /\ AwaitingInv
  BY FrameInitially, LagrangeInitially, TypeInitially, AwaitingInitially
<1>2. FrameInv /\ LagrangeInv /\ TypeOK /\ AwaitingInv /\ [Next]_allvars
        => (FrameInv /\ LagrangeInv /\ TypeOK /\ AwaitingInv)'
  BY FrameNext, LagrangeNext, TypeNext, AwaitingNext
<1> DEFINE Kept == Running("Direct") /\ drivers' = drivers =>
                     \A a \in D!Scratch \cup D!Outputs : \A p \in Places(KindOf(a)) :
                       Y!Sound(a, p) => Y!Sound(a, p)'
<1>3. FrameInv /\ TypeOK /\ AwaitingInv /\ [Next]_allvars => [Kept]_allvars
  <2> SUFFICES ASSUME FrameInv, TypeOK, AwaitingInv, Next, Running("Direct"), drivers' = drivers
               PROVE  Kept
    BY DEF allvars, vars
  <2>1. DirectProjection2dDriver
    <3>1. drivers # <<>> /\ Head(drivers) = "Direct"
      BY DEF Running
    <3>2. ~EndStep
      BY <3>1 DEF EndStep, Enter
    <3> QED BY <3>1, <3>2 DEF Next, Running, Lagrange2dDriver, AdProjection2dXDriver, AdProjection2dYDriver,
                              Project, SecondSweep
  <2>2. D!Next /\ WideGrid /\ SizesInv /\ todo \subseteq 0 .. ny
    BY <2>1, TypeParts DEF DirectProjection2dDriver, FrameInv
  <2>3. SoundKept
    BY <2>2, DirectStepAwaits DEF AwaitingInv
  <2> QED BY <2>3, DirectArraysAre DEF SoundKept
<1>4. Spec => [][Kept]_allvars
  BY <1>1, <1>2, <1>3, PTL DEF Spec
<1> QED BY <1>4 DEF SoundStaysSound
=============================================================================
