----------------------------- MODULE TimeLevels -----------------------------
(***************************************************************************)
(* The arrays of Simulation::Run and the time level each of them holds.    *)
(*                                                                         *)
(* Run takes one pointer per array (in_u, u_lag, out_u, ...) before its    *)
(* loop and exchanges pointers with std::swap during the loop instead of   *)
(* copying arrays.  The store keeps the arrays under their first names:    *)
(* the outputs read the store.  A pointer and the array it has at first    *)
(* have the same name here, <<field, role>>; ptr says which array a        *)
(* pointer has now, and mem what an array holds: the field, the number of  *)
(* completed time steps and the stage within the step.  A kernel whose     *)
(* arguments do not belong together writes Garbage.                        *)
(***************************************************************************)
EXTENDS Naturals, FiniteSets

CONSTANTS Models,        \* the values of TypeOfModel that are tried
          Projections,   \* the values of TypeOfProjection that are tried
          FirstIters,    \* the value of the clock when Run starts
          MaxSteps       \* bound on the number of time steps

ASSUME LevelsAssumption == /\ MaxSteps \in Nat
                           /\ FirstIters \subseteq Nat

VARIABLES model, projection, iter, steps, pc, ptr, mem

vars == <<model, projection, iter, steps, pc, ptr, mem>>
-----------------------------------------------------------------------------
\* Fields with an in_ and an out_ array, fields with a Lagrangian array too,
\* and fields with one array.
Paired == {"mass", "mass_1", "mass_2", "volumic_fraction", "c_1", "c_2",
           "rho", "rho_1", "rho_2"}
Lagged == {"u", "v", "e", "e_1", "e_2"}
Single == {"p", "p_1", "p_2", "predicted_u", "predicted_v"}

Fields == Paired \cup Lagged
Arrays == (Fields \X {"in", "out"}) \cup (Lagged \X {"lag"}) \cup (Single \X {"in"})

In(F)  == F \X {"in"}
Out(F) == F \X {"out"}
Lag(F) == F \X {"lag"}

Stages == {"state", "lagrange", "middle"}
Level(q, n, s) == [of |-> q, step |-> n, stage |-> s]
Garbage == [of |-> "none", step |-> 0, stage |-> "garbage"]
Zero    == [of |-> "none", step |-> 0, stage |-> "zero"]
Levels  == [of : Fields \cup Single, step : Nat, stage : Stages] \cup {Garbage, Zero}

\* What a pointer sees.
Seen(p) == mem[ptr[p]]
-----------------------------------------------------------------------------
\* The fields of the state that a model computes, and the fields of the state
\* and of the Lagrangian result that its projection reads.  A name of model
\* that is not known falls back on the monomaterial drivers.
StateOf(m) ==
  IF m = "MultimaterialMix"
  THEN {"mass", "rho", "rho_1", "rho_2", "c_1", "c_2", "u", "v", "e", "e_1", "e_2"}
  ELSE IF m = "MultimaterialInterface"
  THEN {"mass", "mass_1", "mass_2", "volumic_fraction", "rho", "rho_1", "rho_2",
        "u", "v", "e", "e_1", "e_2"}
  ELSE {"mass", "rho", "u", "v", "e"}

ProjectedFrom(m) ==
  IF m = "MultimaterialMix" THEN {"mass", "c_1"}
  ELSE IF m = "MultimaterialInterface"
  THEN {"mass", "mass_1", "mass_2", "volumic_fraction", "rho_1", "rho_2"}
  ELSE {"mass"}

\* The default Lagrange driver serves the mix too: e_1 and e_2 stay as they are.
LagrangeOf(m) == IF m = "MultimaterialInterface" THEN {"u", "v", "e_1", "e_2"}
                                                 ELSE {"u", "v", "e"}

\* The Lagrangian arrays the Lagrange driver fills.
LagrangeOuts(m) == IF m = "MultimaterialInterface" THEN {"u", "v", "e", "e_1", "e_2"}
                                                   ELSE {"u", "v", "e"}

LagrangeFrom(m) ==
  IF m = "MultimaterialInterface"
  THEN {"u", "v", "mass", "mass_1", "mass_2", "rho_1", "rho_2", "e_1", "e_2",
        "volumic_fraction"}
  ELSE {"u", "v", "e", "mass"}

\* Mutant: in_p_2 is not among the out arguments.
PressuresOf_NoSecond(m) == IF m = "MultimaterialInterface" THEN {"p", "p_1"} ELSE {"p"}

PressuresOf(m) == IF m = "MultimaterialInterface" THEN {"p", "p_1", "p_2"} ELSE {"p"}

\* The arrays TimeStepSGPC and TimeStepSGPCMultimat read.
TimeStepFrom(m) == IF m \in {"MultimaterialMix", "MultimaterialInterface"}
                   THEN {"rho_1", "rho_2", "p_1", "p_2", "volumic_fraction", "u", "v"}
                   ELSE {"rho", "p", "u", "v"}

\* What the InitVariable events of a parameter file must give the model.
GivenTo(m) ==
  IF m = "MultimaterialMix" THEN {"rho_1", "rho_2", "c_1", "p_1", "p_2", "u", "v"}
  ELSE IF m = "MultimaterialInterface"
  THEN {"rho_1", "rho_2", "volumic_fraction", "p_1", "p_2", "u", "v"}
  ELSE {"rho", "p", "u", "v"}

\* The loop "INIT" of Run computes in_ and out_ arrays from the given ones; the
\* mix does not fill out_cell_mass.
SetupOuts(m) ==
  IF m = "MultimaterialMix"
  THEN In({"mass", "p"}) \cup {"c_2", "rho", "e_1", "e_2", "e"} \X {"in", "out"}
  ELSE IF m = "MultimaterialInterface"
  THEN In({"p"}) \cup {"mass", "mass_1", "mass_2", "rho", "e_1", "e_2", "e"} \X {"in", "out"}
  ELSE {"mass", "e"} \X {"in", "out"}
-----------------------------------------------------------------------------
\* A kernel call: args is a set of <<pointer, stage>>, the stage the argument
\* should hold, and outs a set of <<pointer, stage>>, the stage it then holds.
\* All arguments of one step give that step, advanced by up.
At(P, s) == P \X {s}

Agree(args, n) == \A a \in args : Seen(a[1]) = Level(a[1][1], n, a[2])

Written(args, out, up) ==
  IF \E n \in 0 .. steps + 1 : Agree(args, n)
  THEN Level(out[1][1], (CHOOSE n \in 0 .. steps + 1 : Agree(args, n)) + up, out[2])
  ELSE Garbage

\* mem after the arrays of the pointers in outs are written.
Stored(args, outs, up) ==
  [b \in Arrays |-> IF \E o \in outs : ptr[o[1]] = b
                    THEN Written(args, CHOOSE o \in outs : ptr[o[1]] = b, up)
                    ELSE mem[b]]

\* Mutants: out = in instead of std::swap, and a swap of u_lag with out_v.
Exchange_Assign(F, r, s) ==
  [p \in Arrays |-> IF p[1] \in F /\ p[2] = s THEN ptr[<<p[1], r>>] ELSE ptr[p]]
Exchange_OtherField(F, r, s) ==
  [p \in Arrays |->
     IF p[1] \in F /\ p[2] = r
     THEN ptr[<<IF p[1] = "u" /\ r = "lag" THEN "v" ELSE p[1], s>>]
     ELSE IF p[1] \in F /\ p[2] = s
     THEN ptr[<<IF p[1] = "v" /\ r = "lag" THEN "u" ELSE p[1], r>>]
     ELSE ptr[p]]

\* std::swap of the pointers of role r and role s of every field of F.
Exchange(F, r, s) ==
  [p \in Arrays |-> IF p[1] \in F /\ p[2] = r THEN ptr[<<p[1], s>>]
                    ELSE IF p[1] \in F /\ p[2] = s THEN ptr[<<p[1], r>>]
                    ELSE ptr[p]]
-----------------------------------------------------------------------------
\* Before Run the events of the parameter file have given the arrays the model
\* needs, or all the in_ and out_ arrays.  The rest is malloc'ed.
Init ==
  /\ model \in Models /\ projection \in Projections /\ iter \in FirstIters
  /\ steps = 0 /\ pc = "setup"
  /\ ptr = [p \in Arrays |-> p]
  /\ \E given \in {In(GivenTo(model)), Fields \X {"in", "out"} \cup In({"p", "p_1", "p_2"})} :
       mem = [b \in Arrays |-> IF b \in given THEN Level(b[1], 0, "state") ELSE Garbage]

Setup ==
  /\ pc = "setup" /\ pc' = "loop"
  /\ LET m1 == Stored(At(In(GivenTo(model)), "state"), At(SetupOuts(model), "state"), 0)
     IN mem' = [b \in Arrays |-> IF b \in Lag(Lagged) THEN Zero ELSE m1[b]]
  /\ UNCHANGED <<model, projection, iter, steps, ptr>>

\* while (!timetable.IsFinished(clock)); the time step is computed first.
TimeStep ==
  /\ pc = "loop" /\ steps < MaxSteps /\ pc' = "lagrange"
  /\ UNCHANGED <<model, projection, iter, steps, ptr, mem>>

Leave ==
  /\ pc = "loop" /\ pc' = "left"
  /\ UNCHANGED <<model, projection, iter, steps, ptr, mem>>

\* TypeOfProjection: two passes, one call, or, any other name, none.
Ad      == projection = "AdProjection"
OneCall == projection \in {"DirectProjection", "DirectProjectionCornerFluxes"}

Velocities == {"predicted_u", "predicted_v"}

Lagrange ==
  /\ pc = "lagrange"
  /\ mem' = Stored(At(In(LagrangeFrom(model)), "state"),
                   At(Lag(LagrangeOuts(model)) \cup In(Velocities), "lagrange")
                     \cup At(In(PressuresOf(model)), "state"),
                   0)
  /\ pc' = IF Ad THEN "first" ELSE IF OneCall THEN "direct" ELSE "density"
  /\ UNCHANGED <<model, projection, iter, steps, ptr>>

\* A projection driver: the Lagrangian fields and the masses at the given
\* stages, transported with the predicted velocities, into the out_ arrays.
Project(velocities, sState, sLag, up, s) ==
  mem' = Stored(At(In(ProjectedFrom(model)), sState)
                  \cup At(Lag(LagrangeOf(model)), sLag)
                  \cup At(In(velocities), "lagrange"),
                At(Out(StateOf(model)), s), up)

\* Odd iterations project along x first, even ones along y.
Velocity(pass) == IF (iter % 2 = 1) = (pass = 1) THEN {"predicted_u"} ELSE {"predicted_v"}

FirstPass ==
  /\ pc = "first" /\ pc' = "second"
  /\ Project(Velocity(1), "state", "lagrange", 0, "middle")
  /\ ptr' = [p \in Arrays |-> IF p[1] \in Paired THEN Exchange(Paired \ {"rho"}, "in", "out")[p]
                              ELSE Exchange(Lagged, "lag", "out")[p]]
  /\ UNCHANGED <<model, projection, iter, steps>>

\* Mutants: the swap of in_e, or of in_rho, is missing.
SecondPass_NoEnergy ==
  /\ pc = "second" /\ pc' = "density"
  /\ Project(Velocity(2), "middle", "middle", 1, "state")
  /\ ptr' = Exchange(Fields \ {"e"}, "in", "out")
  /\ UNCHANGED <<model, projection, iter, steps>>
SecondPass_NoDensity ==
  /\ pc = "second" /\ pc' = "density"
  /\ Project(Velocity(2), "middle", "middle", 1, "state")
  /\ ptr' = Exchange(Fields \ {"rho"}, "in", "out")
  /\ UNCHANGED <<model, projection, iter, steps>>

SecondPass ==
  /\ pc = "second" /\ pc' = "density"
  /\ Project(Velocity(2), "middle", "middle", 1, "state")
  /\ ptr' = Exchange(Fields, "in", "out")
  /\ UNCHANGED <<model, projection, iter, steps>>

Direct ==
  /\ pc = "direct" /\ pc' = "density"
  /\ Project(Velocities, "state", "lagrange", 1, "state")
  /\ ptr' = Exchange(Fields, "in", "out")
  /\ UNCHANGED <<model, projection, iter, steps>>

RecomputeDensity ==
  /\ pc = "density" /\ pc' = "outputs"
  /\ mem' = Stored(At(In({"mass"}), "state"), At(In({"rho"}), "state"), 0)
  /\ UNCHANGED <<model, projection, iter, steps, ptr>>

\* clock.Update(dt), and the events run: those that happen read the store.
Outputs ==
  /\ pc = "outputs" /\ pc' = "loop"
  /\ iter' = iter + 1 /\ steps' = steps + 1
  /\ UNCHANGED <<model, projection, ptr, mem>>

Next == \/ Setup \/ TimeStep \/ Leave \/ Lagrange \/ FirstPass \/ SecondPass
        \/ Direct \/ RecomputeDensity \/ Outputs

Spec == Init /\ [][Next]_vars
-----------------------------------------------------------------------------
\* The state's step: a projection that is not known leaves the state alone.
Reached == IF Ad \/ OneCall THEN steps ELSE 0

\* Types; a pointer only ever has an array of its own field.
TypeOK ==
  /\ model \in Models /\ projection \in Projections /\ iter \in Nat
  /\ steps \in 0 .. MaxSteps
  /\ pc \in {"setup", "loop", "lagrange", "first", "second", "direct", "density",
            "outputs", "left"}
  /\ ptr \in [Arrays -> Arrays] /\ \A p \in Arrays : ptr[p][1] = p[1]
  /\ mem \in [Arrays -> Levels]

\* The kernels take RESTRICT pointers: no two pointers ever have one array,
\* whatever swaps went before.
NoAlias == \A p, q \in Arrays : ptr[p] = ptr[q] => p = q

\* When a time step begins, every field of the state, read through its in_
\* pointer, is at the step the loop has reached: no kernel met an array that
\* was stale, unset or of another step.
StateIsCurrent ==
  pc \in {"loop", "left"} =>
    \A q \in StateOf(model) : Seen(<<q, "in">>) = Level(q, Reached, "state")

\* TimeStepSGPC reads the pressures the Lagrange phase stored: those of the
\* step before the one it computes the time step of, never older.  In the mix
\* model in_pressure_1 and in_pressure_2 stay those of the parameter file.
TimeStepPressure ==
  pc = "loop" /\ model # "MultimaterialMix" =>
    \A q \in TimeStepFrom(model) \cap Single :
      Seen(<<q, "in">>) = Level(q, IF Reached = 0 THEN 0 ELSE Reached - 1, "state")

\* Which arrays of the store are current when the outputs read them: all after
\* a multiple of six steps, and each field by its own rotation.
SlotSchedule ==
  pc = "outputs" /\ (Ad \/ OneCall) =>
    \A q \in StateOf(model) :
      mem[<<q, "in">>] = Level(q, steps + 1, "state") <=>
        \/ OneCall /\ (steps + 1) % 2 = 0
        \/ Ad /\ q \in Lagged /\ (steps + 1) % 3 = 0
        \/ Ad /\ q = "rho" /\ (steps + 1) % 2 = 0
        \/ Ad /\ q \in Paired \ {"rho"}

\* "Recompute the density from mass and volume. Only needed for output."
\* (simulation.cpp:1983): the density the outputs read is the new one.  It is
\* not after an odd number of steps: the store has the other array.
OutputDensityCurrent ==
  pc = "outputs" => mem[<<"rho", "in">>] = Level("rho", steps + 1, "state")
=============================================================================
