-------------------------- MODULE TimeLevels_proofs --------------------------
(***************************************************************************)
(* Proofs about TimeLevels, for every set of models and projections, every *)
(* first iteration and every number of time steps.                         *)
(***************************************************************************)
EXTENDS TimeLevels, TLAPS

Names == Fields \cup Single
Roles == {"in", "out", "lag"}

\* The pointers are a permutation of the arrays within each field.
Pointers ==
  /\ ptr \in [Arrays -> Arrays]
  /\ \A p \in Arrays : ptr[p][1] = p[1]
  /\ NoAlias

LEMMA Shapes ==
  /\ Paired \cap Lagged = {} /\ Single \cap Fields = {}
  /\ \A q \in Fields : <<q, "in">> \in Arrays /\ <<q, "out">> \in Arrays
  /\ \A q \in Lagged : <<q, "lag">> \in Arrays
  /\ \A q \in Single : <<q, "in">> \in Arrays
  /\ \A p \in Arrays : /\ p[1] \in Names /\ p[2] \in Roles /\ p = <<p[1], p[2]>>
                       /\ p[2] = "out" => p[1] \in Fields
                       /\ p[2] = "lag" => p[1] \in Lagged
  /\ "in" # "out" /\ "in" # "lag" /\ "out" # "lag"
<1>1. Paired \cap Lagged = {} /\ Single \cap Fields = {}
  BY DEF Paired, Lagged, Single, Fields
<1>2. \A q \in Fields : <<q, "in">> \in Arrays /\ <<q, "out">> \in Arrays
  BY DEF Arrays
<1>3. \A q \in Lagged : <<q, "lag">> \in Arrays
  BY DEF Arrays
<1>4. \A q \in Single : <<q, "in">> \in Arrays
  BY DEF Arrays
<1>5. \A p \in Arrays : /\ p[1] \in Names /\ p[2] \in Roles /\ p = <<p[1], p[2]>>
                        /\ p[2] = "out" => p[1] \in Fields
                        /\ p[2] = "lag" => p[1] \in Lagged
  BY DEF Arrays, Names, Roles, Fields
<1> QED
  BY <1>1, <1>2, <1>3, <1>4, <1>5

\* A swap of two roles that every field of F has keeps a permutation.
LEMMA ExchangePermutes ==
  ASSUME Pointers, NEW F \in SUBSET Fields, NEW r \in Roles, NEW s \in Roles, r # s,
         F \X {r, s} \subseteq Arrays
  PROVE  /\ Exchange(F, r, s) \in [Arrays -> Arrays]
         /\ \A p \in Arrays : Exchange(F, r, s)[p][1] = p[1]
         /\ \A p, q \in Arrays : Exchange(F, r, s)[p] = Exchange(F, r, s)[q] => p = q
<1> DEFINE x == Exchange(F, r, s)
           twin(p) == IF p[1] \in F /\ p[2] = r THEN <<p[1], s>>
                      ELSE IF p[1] \in F /\ p[2] = s THEN <<p[1], r>> ELSE p
<1>1. \A p \in Arrays : twin(p) \in Arrays /\ twin(p)[1] = p[1]
  BY Shapes
<1>2. x \in [Arrays -> Arrays] /\ \A p \in Arrays : x[p] = ptr[twin(p)]
  BY <1>1 DEF Exchange, Pointers
<1>3. \A p, q \in Arrays : twin(p) = twin(q) => p = q
  <2> SUFFICES ASSUME NEW p \in Arrays, NEW q \in Arrays, twin(p) = twin(q) PROVE p = q
    OBVIOUS
  <2>1. p[1] = q[1]
    BY <1>1
  <2>2. p = <<p[1], p[2]>> /\ q = <<q[1], q[2]>>
    BY Shapes
  <2>3. p[2] = q[2]
    <3>1. CASE p[1] \notin F
      BY <2>1, <3>1
    <3>2. CASE p[1] \in F /\ p[2] = r
      BY <2>1, <2>2, <3>2
    <3>3. CASE p[1] \in F /\ p[2] = s
      BY <2>1, <2>2, <3>3
    <3>4. CASE p[1] \in F /\ p[2] # r /\ p[2] # s
      BY <2>1, <2>2, <3>4
    <3> QED
      BY <3>1, <3>2, <3>3, <3>4
  <2> QED
    BY <2>1, <2>2, <2>3
<1> HIDE DEF twin, x
<1>4. \A p \in Arrays : x[p][1] = p[1]
  BY <1>1, <1>2 DEF Pointers
<1>5. \A p, q \in Arrays : x[p] = x[q] => p = q
  BY <1>1, <1>2, <1>3 DEF Pointers, NoAlias
<1> QED
  BY <1>2, <1>4, <1>5 DEF x

-----------------------------------------------------------------------------
\* Arguments and results of a kernel call, as sets of <<pointer, stage>>.
Calls == SUBSET (Arrays \X Stages)

LEMMA AtCalls ==
  ASSUME NEW P \in SUBSET Arrays, NEW s \in Stages
  PROVE  /\ At(P, s) \in Calls
         /\ \A p \in P : <<p, s>> \in At(P, s)
         /\ \A a \in At(P, s) : a[1] \in P /\ a[2] = s /\ a = <<a[1], a[2]>>
BY DEF At, Calls

\* What a kernel call stores: arguments that agree on step n give every result
\* that step, and every pointer that is not a result sees what it saw.
LEMMA StoredLevels ==
  ASSUME Pointers, steps \in Nat,
         NEW args \in Calls, args # {}, NEW outs \in Calls,
         \A o, u \in outs : o[1] = u[1] => o = u,
         NEW n \in 0 .. steps + 1, Agree(args, n), NEW up \in Nat
  PROVE  LET m1 == Stored(args, outs, up)
         IN /\ \A o \in outs : m1[ptr[o[1]]] = Level(o[1][1], n + up, o[2])
            /\ \A p \in Arrays : (\A o \in outs : o[1] # p) => m1[ptr[p]] = mem[ptr[p]]
<1> DEFINE m1 == Stored(args, outs, up)
<1>1. \A k \in 0 .. steps + 1 : Agree(args, k) => k = n
  <2> SUFFICES ASSUME NEW k \in 0 .. steps + 1, Agree(args, k) PROVE k = n
    OBVIOUS
  <2>1. PICK a \in args : TRUE
    OBVIOUS
  <2>2. Level(a[1][1], k, a[2]) = Level(a[1][1], n, a[2])
    BY <2>1 DEF Agree
  <2>3. Level(a[1][1], k, a[2]).step = Level(a[1][1], n, a[2]).step
    BY <2>2
  <2> QED
    BY <2>3 DEF Level
<1>2. (CHOOSE k \in 0 .. steps + 1 : Agree(args, k)) = n
  BY <1>1
<1>3. \A o : Written(args, o, up) = Level(o[1][1], n + up, o[2])
  BY <1>2 DEF Written
<1>4. \A b \in Arrays : m1[b] = IF \E o \in outs : ptr[o[1]] = b
                                THEN Written(args, CHOOSE o \in outs : ptr[o[1]] = b, up)
                                ELSE mem[b]
  BY DEF Stored
<1>5. \A o \in outs : o[1] \in Arrays
  BY DEF Calls
<1>6. \A o \in outs : m1[ptr[o[1]]] = Level(o[1][1], n + up, o[2])
  <2> SUFFICES ASSUME NEW o \in outs
               PROVE  m1[ptr[o[1]]] = Level(o[1][1], n + up, o[2])
    OBVIOUS
  <2>1. \A u \in outs : ptr[u[1]] = ptr[o[1]] => u = o
    BY <1>5 DEF Pointers, NoAlias
  <2>2. (CHOOSE u \in outs : ptr[u[1]] = ptr[o[1]]) = o
    BY <2>1
  <2>3. ptr[o[1]] \in Arrays
    BY <1>5 DEF Pointers
  <2> HIDE DEF m1
  <2>4. m1[ptr[o[1]]] = Written(args, o, up)
    BY <1>4, <2>2, <2>3
  <2> QED
    BY <1>3, <2>4
<1>7. \A p \in Arrays : (\A o \in outs : o[1] # p) => m1[ptr[p]] = mem[ptr[p]]
  BY <1>4, <1>5 DEF Pointers, NoAlias
<1> QED
  BY <1>6, <1>7

LEMMA StoredType ==
  ASSUME Pointers, steps \in Nat, mem \in [Arrays -> Levels],
         NEW args \in Calls, NEW outs \in Calls, NEW up \in Nat
  PROVE  Stored(args, outs, up) \in [Arrays -> Levels]
<1> SUFFICES ASSUME NEW b \in Arrays, NEW o \in outs
             PROVE  Written(args, o, up) \in Levels
  <2>1. \A b \in Arrays : (\E o \in outs : ptr[o[1]] = b)
                          => (CHOOSE o \in outs : ptr[o[1]] = b) \in outs
    OBVIOUS
  <2> QED
    BY <2>1 DEF Stored
<1>1. o[1][1] \in Names /\ o[2] \in Stages
  BY Shapes DEF Calls
<1>2. CASE \E n \in 0 .. steps + 1 : Agree(args, n)
  <2>1. (CHOOSE n \in 0 .. steps + 1 : Agree(args, n)) \in 0 .. steps + 1
    BY <1>2
  <2>2. (CHOOSE n \in 0 .. steps + 1 : Agree(args, n)) + up \in Nat
    BY <2>1
  <2> QED
    BY <1>1, <1>2, <2>2 DEF Written, Level, Levels, Names
<1>3. CASE ~ \E n \in 0 .. steps + 1 : Agree(args, n)
  BY <1>3 DEF Written, Levels
<1> QED
  BY <1>2, <1>3

\* What each model's drivers read and write.
LEMMA ModelFacts ==
  ASSUME NEW m
  PROVE  /\ StateOf(m) \subseteq Fields /\ "mass" \in StateOf(m)
         /\ ProjectedFrom(m) \subseteq StateOf(m) \cap (Paired \ {"rho"})
         /\ "mass" \in ProjectedFrom(m)
         /\ LagrangeOf(m) \subseteq StateOf(m) \cap LagrangeOuts(m)
         /\ LagrangeOuts(m) \subseteq Lagged
         /\ LagrangeFrom(m) \subseteq StateOf(m) /\ "mass" \in LagrangeFrom(m)
         /\ PressuresOf(m) \subseteq Single \ Velocities
         /\ GivenTo(m) \subseteq Names /\ "u" \in GivenTo(m)
         /\ SetupOuts(m) \subseteq In(Names) \cup Out(Fields)
         /\ \A q \in StateOf(m) \cup PressuresOf(m) :
              q \in GivenTo(m) \/ <<q, "in">> \in SetupOuts(m)
         /\ m # "MultimaterialMix" => TimeStepFrom(m) \cap Single \subseteq PressuresOf(m)
<1> USE DEF Fields, Paired, Lagged, Single, Names, Velocities, In, Out
<1>1. CASE m = "MultimaterialMix"
  BY <1>1 DEF StateOf, ProjectedFrom, LagrangeOf, LagrangeOuts, LagrangeFrom, PressuresOf,
              GivenTo, SetupOuts, TimeStepFrom
<1>2. CASE m = "MultimaterialInterface"
  BY <1>2 DEF StateOf, ProjectedFrom, LagrangeOf, LagrangeOuts, LagrangeFrom, PressuresOf,
              GivenTo, SetupOuts, TimeStepFrom
<1>3. CASE m # "MultimaterialMix" /\ m # "MultimaterialInterface"
  BY <1>3 DEF StateOf, ProjectedFrom, LagrangeOf, LagrangeOuts, LagrangeFrom, PressuresOf,
              GivenTo, SetupOuts, TimeStepFrom
<1> QED
  BY <1>1, <1>2, <1>3
-----------------------------------------------------------------------------
\* The state is complete at step n; the Lagrangian results and the predicted
\* velocities are those of step n; the first pass is done.
StateAt(n)  == \A q \in StateOf(model) : Seen(<<q, "in">>) = Level(q, n, "state")
MovedAt(n)  == \A q \in LagrangeOf(model) : Seen(<<q, "lag">>) = Level(q, n, "lagrange")
SpeedAt(n)  == \A q \in Velocities : Seen(<<q, "in">>) = Level(q, n, "lagrange")
HalfAt(n)   == /\ \A q \in ProjectedFrom(model) : Seen(<<q, "in">>) = Level(q, n, "middle")
               /\ \A q \in LagrangeOf(model) : Seen(<<q, "lag">>) = Level(q, n, "middle")

\* The pressures that the Lagrange phase stores are those of step n; the one whose
\* pressures the next time step reads.
PressedAt(n) == \A q \in PressuresOf(model) : Seen(<<q, "in">>) = Level(q, n, "state")
Before == IF Reached = 0 THEN 0 ELSE Reached - 1

Known == Ad \/ OneCall

\* What each point of Run's loop relies on.
Phase ==
  /\ pc = "setup" => /\ steps = 0 /\ ptr = [p \in Arrays |-> p]
                     /\ \A q \in GivenTo(model) : Seen(<<q, "in">>) = Level(q, 0, "state")
  /\ pc \in {"loop", "left", "lagrange"} => StateAt(Reached)
  /\ pc \in {"first", "direct"} => StateAt(steps) /\ MovedAt(steps) /\ SpeedAt(steps)
  /\ pc = "second" => HalfAt(steps) /\ SpeedAt(steps)
  /\ pc \in {"density", "outputs"} => StateAt(IF Known THEN steps + 1 ELSE 0)
  /\ pc \in {"loop", "left", "lagrange"} => PressedAt(Before)
  /\ pc \in {"first", "second", "direct", "density", "outputs"} => PressedAt(Reached)
  /\ pc \in {"first", "second"} => Ad
  /\ pc = "direct" => OneCall

Typing ==
  /\ iter \in Nat /\ steps \in 0 .. MaxSteps
  /\ pc \in {"setup", "loop", "lagrange", "first", "second", "direct", "density",
            "outputs", "left"}
  /\ pc \notin {"setup", "loop", "left"} => steps < MaxSteps
  /\ model \in Models /\ projection \in Projections
  /\ mem \in [Arrays -> Levels]

IInv == Typing /\ Pointers /\ Phase

LEMMA InitIInv == Init => IInv
<1> SUFFICES ASSUME Init PROVE IInv
  OBVIOUS
<1>1. PICK given \in {In(GivenTo(model)), Fields \X {"in", "out"} \cup In({"p", "p_1", "p_2"})} :
        mem = [b \in Arrays |-> IF b \in given THEN Level(b[1], 0, "state") ELSE Garbage]
  BY DEF Init
<1>2. ptr = [p \in Arrays |-> p] /\ pc = "setup" /\ steps = 0
  BY DEF Init
<1>3. Pointers
  BY <1>2 DEF Pointers, NoAlias
<1>4. mem \in [Arrays -> Levels]
  BY <1>1, Shapes DEF Levels, Level, Stages, Names
<1>5. ASSUME NEW q \in GivenTo(model) PROVE Seen(<<q, "in">>) = Level(q, 0, "state")
  <2>1. <<q, "in">> \in Arrays
    BY <1>5, ModelFacts, Shapes DEF Names
  <2>2. <<q, "in">> \in In(GivenTo(model))
    BY <1>5 DEF In
  <2>3. <<q, "in">> \in Fields \X {"in", "out"} \cup In({"p", "p_1", "p_2"})
    BY <1>5 DEF In, GivenTo, Fields, Paired, Lagged
  <2> QED
    BY <1>1, <1>2, <2>1, <2>2, <2>3 DEF Seen
<1>6. Typing
  BY <1>2, <1>4, LevelsAssumption DEF Init, Typing
<1>7. Phase
  BY <1>2, <1>5 DEF Phase
<1> QED
  BY <1>3, <1>6, <1>7 DEF IInv

\* The pointers the drivers are called with.
LEMMA PointersOf ==
  ASSUME NEW F \in SUBSET Names
  PROVE  /\ F \subseteq Fields => In(F) \subseteq Arrays /\ Out(F) \subseteq Arrays
         /\ F \subseteq Lagged => Lag(F) \subseteq Arrays
         /\ F \subseteq Single => In(F) \subseteq Arrays
         /\ \A q \in F : /\ <<q, "in">> \in In(F) /\ <<q, "out">> \in Out(F)
                        /\ <<q, "lag">> \in Lag(F)
BY DEF In, Out, Lag, Arrays

LEMMA DriverPointers ==
  /\ In(StateOf(model)) \subseteq Arrays /\ Out(StateOf(model)) \subseteq Arrays
  /\ In(ProjectedFrom(model)) \subseteq Arrays /\ In(LagrangeFrom(model)) \subseteq Arrays
  /\ Lag(LagrangeOuts(model)) \subseteq Arrays /\ Lag(LagrangeOf(model)) \subseteq Arrays
  /\ In(PressuresOf(model)) \subseteq Arrays /\ In(Velocities) \subseteq Arrays
<1>1. Velocities \subseteq Single
  BY DEF Velocities, Single
<1> QED
  BY <1>1, ModelFacts, PointersOf DEF Names, Fields

\* The kernels of the Lagrange phase: the Lagrangian arrays and the predicted
\* velocities get the step of the state, and the state is left alone.
LEMMA LagrangeStep == IInv /\ Lagrange => IInv'
<1> SUFFICES ASSUME IInv, Lagrange PROVE IInv'
  OBVIOUS
<1> DEFINE args == At(In(LagrangeFrom(model)), "state")
           outs == At(Lag(LagrangeOuts(model)) \cup In(Velocities), "lagrange")
                     \cup At(In(PressuresOf(model)), "state")
<1> USE DEF IInv
<1>0. UNCHANGED <<model, projection, iter, steps, ptr>> /\ mem' = Stored(args, outs, 0)
  BY DEF Lagrange
<1>1. steps \in Nat /\ Reached \in 0 .. steps + 1
  BY LevelsAssumption DEF Typing, Reached
<1>2. args \in Calls /\ outs \in Calls /\ args # {}
  <2>1. "state" \in Stages /\ "lagrange" \in Stages
    BY DEF Stages
  <2>2. <<<<"mass", "in">>, "state">> \in args
    BY ModelFacts DEF At, In
  <2> QED
    BY <2>1, <2>2, DriverPointers, AtCalls DEF Calls
<1>3. \A o, u \in outs : o[1] = u[1] => o = u
  BY ModelFacts DEF At, In, Lag
<1>4. Agree(args, Reached)
  <2>1. StateAt(Reached)
    BY DEF Lagrange, Phase
  <2> QED
    BY <2>1, ModelFacts DEF Agree, StateAt, At, In
<1>5. /\ \A o \in outs : mem'[ptr[o[1]]] = Level(o[1][1], Reached + 0, o[2])
      /\ \A p \in Arrays : (\A o \in outs : o[1] # p) => mem'[ptr[p]] = mem[ptr[p]]
  <2> HIDE DEF args, outs
  <2> QED
    BY <1>0, <1>1, <1>2, <1>3, <1>4, StoredLevels
<1>6. mem' \in [Arrays -> Levels]
  <2> HIDE DEF args, outs
  <2> QED
    BY <1>0, <1>1, <1>2, StoredType DEF Typing
<1>7. Reached + 0 = Reached
  BY <1>1
<1>8. \A q \in StateOf(model) : Seen(<<q, "in">>)' = Level(q, Reached, "state")
  <2> SUFFICES ASSUME NEW q \in StateOf(model)
               PROVE  mem'[ptr[<<q, "in">>]] = Level(q, Reached, "state")
    BY <1>0 DEF Seen
  <2>1. <<q, "in">> \in Arrays /\ q \in Fields
    BY ModelFacts, DriverPointers, PointersOf DEF Names
  <2>2. \A o \in outs : o[1] # <<q, "in">>
    <3>1. \A o \in outs : o[1][2] = "lag" \/ o[1][1] \in Single
      BY ModelFacts DEF At, In, Lag, Velocities, Single
    <3> QED
      BY <3>1, <2>1, Shapes
  <2> QED
    BY <1>5, <2>1, <2>2 DEF Lagrange, Phase, StateAt, Seen
<1>9. /\ \A q \in LagrangeOf(model) : Seen(<<q, "lag">>)' = Level(q, Reached, "lagrange")
      /\ \A q \in Velocities : Seen(<<q, "in">>)' = Level(q, Reached, "lagrange")
  <2>1. \A q \in LagrangeOf(model) : <<<<q, "lag">>, "lagrange">> \in outs
    BY ModelFacts DEF At, Lag
  <2>2. \A q \in Velocities : <<<<q, "in">>, "lagrange">> \in outs
    BY DEF At, In
  <2> HIDE DEF outs
  <2> QED
    BY <1>0, <1>5, <1>7, <2>1, <2>2 DEF Seen
<1>9a. \A q \in PressuresOf(model) : Seen(<<q, "in">>)' = Level(q, Reached, "state")
  <2>1. \A q \in PressuresOf(model) : <<<<q, "in">>, "state">> \in outs
    BY DEF At, In
  <2> HIDE DEF outs
  <2> QED
    BY <1>0, <1>5, <1>7, <2>1 DEF Seen
<1>10. Pointers'
  BY <1>0 DEF Pointers, NoAlias
<1>11. Typing'
  BY <1>0, <1>6 DEF Typing, Lagrange
<1>12. Phase'
  BY <1>0, <1>8, <1>9, <1>9a
     DEF Phase, Lagrange, StateAt, MovedAt, SpeedAt, PressedAt, Reached, Known, Ad, OneCall
<1> QED
  BY <1>10, <1>11, <1>12

-----------------------------------------------------------------------------
\* A projection driver called with arguments of step n.
LEMMA ProjectLevels ==
  ASSUME Pointers, steps \in Nat, mem \in [Arrays -> Levels],
         NEW V \in SUBSET Velocities, NEW a \in Stages, NEW b \in Stages, NEW s \in Stages,
         NEW up \in Nat, NEW n \in 0 .. steps + 1,
         \A q \in ProjectedFrom(model) : Seen(<<q, "in">>) = Level(q, n, a),
         \A q \in LagrangeOf(model) : Seen(<<q, "lag">>) = Level(q, n, b),
         SpeedAt(n), Project(V, a, b, up, s)
  PROVE  /\ \A q \in StateOf(model) : mem'[ptr[<<q, "out">>]] = Level(q, n + up, s)
         /\ \A p \in Arrays : p[2] # "out" => mem'[ptr[p]] = mem[ptr[p]]
         /\ mem' \in [Arrays -> Levels]
<1> DEFINE args == At(In(ProjectedFrom(model)), a) \cup At(Lag(LagrangeOf(model)), b)
                     \cup At(In(V), "lagrange")
           outs == At(Out(StateOf(model)), s)
<1>0. mem' = Stored(args, outs, up)
  BY DEF Project
<1>1. "lagrange" \in Stages
  BY DEF Stages
<1>2. args \in Calls /\ outs \in Calls /\ args # {}
  <2>1. <<<<"mass", "in">>, a>> \in args
    BY ModelFacts DEF At, In
  <2>2. In(V) \subseteq In(Velocities)
    BY DEF In
  <2> QED
    BY <1>1, <2>1, <2>2, DriverPointers, AtCalls DEF Calls
<1>3. \A o, u \in outs : o[1] = u[1] => o = u
  BY DEF At
<1>4. Agree(args, n)
  BY DEF Agree, At, In, Lag, SpeedAt
<1>5. \A o \in outs : o[1][2] = "out"
  BY DEF At, Out
<1>6. \A q \in StateOf(model) : <<<<q, "out">>, s>> \in outs
  BY DEF At, Out
<1> HIDE DEF args, outs
<1>7. /\ \A o \in outs : mem'[ptr[o[1]]] = Level(o[1][1], n + up, o[2])
      /\ \A p \in Arrays : (\A o \in outs : o[1] # p) => mem'[ptr[p]] = mem[ptr[p]]
  BY <1>0, <1>2, <1>3, <1>4, StoredLevels
<1>8. mem' \in [Arrays -> Levels]
  BY <1>0, <1>2, StoredType
<1>9. \A q \in StateOf(model) : mem'[ptr[<<q, "out">>]] = Level(q, n + up, s)
  BY <1>6, <1>7
<1>10. \A p \in Arrays : p[2] # "out" => mem'[ptr[p]] = mem[ptr[p]]
  BY <1>5, <1>7
<1> QED
  BY <1>8, <1>9, <1>10

\* The two halves of a swap.
LEMMA ExchangeValues ==
  ASSUME NEW F \in SUBSET Fields, NEW r \in Roles, NEW s \in Roles, r # s,
         F \X {r, s} \subseteq Arrays
  PROVE  /\ \A q \in F : /\ Exchange(F, r, s)[<<q, r>>] = ptr[<<q, s>>]
                        /\ Exchange(F, r, s)[<<q, s>>] = ptr[<<q, r>>]
         /\ \A p \in Arrays : p[1] \notin F \/ p[2] \notin {r, s}
                             => Exchange(F, r, s)[p] = ptr[p]
<1>1. \A q \in F : <<q, r>> \in Arrays /\ <<q, s>> \in Arrays
  OBVIOUS
<1> QED
  BY <1>1 DEF Exchange

\* The swap that ends a time step: the out_ arrays become the state.
LEMMA NewState ==
  ASSUME Pointers, NEW n,
         \A q \in StateOf(model) : mem'[ptr[<<q, "out">>]] = Level(q, n, "state"),
         ptr' = Exchange(Fields, "in", "out")
  PROVE  /\ Pointers'
         /\ \A q \in StateOf(model) : Seen(<<q, "in">>)' = Level(q, n, "state")
         /\ \A q \in Single : ptr'[<<q, "in">>] = ptr[<<q, "in">>]
<1>1. Fields \in SUBSET Fields /\ Fields \X {"in", "out"} \subseteq Arrays
  BY DEF Arrays
<1>2. "in" \in Roles /\ "out" \in Roles /\ "in" # "out"
  BY DEF Roles
<1>3. Pointers'
  <2>1. /\ Exchange(Fields, "in", "out") \in [Arrays -> Arrays]
        /\ \A p \in Arrays : Exchange(Fields, "in", "out")[p][1] = p[1]
        /\ \A p, q \in Arrays :
             Exchange(Fields, "in", "out")[p] = Exchange(Fields, "in", "out")[q] => p = q
    BY <1>1, <1>2, ExchangePermutes
  <2> QED
    BY <2>1 DEF Pointers, NoAlias
<1>4. \A q \in StateOf(model) : ptr'[<<q, "in">>] = ptr[<<q, "out">>]
  <2>1. \A q \in Fields : Exchange(Fields, "in", "out")[<<q, "in">>] = ptr[<<q, "out">>]
    BY <1>1, <1>2, ExchangeValues
  <2>2. StateOf(model) \subseteq Fields
    BY ModelFacts
  <2> QED
    BY <2>1, <2>2
<1>5. \A q \in Single : ptr'[<<q, "in">>] = ptr[<<q, "in">>]
  <2>1. \A q \in Single : <<q, "in">> \in Arrays /\ q \notin Fields
    BY Shapes
  <2> QED
    BY <1>1, <1>2, <2>1, ExchangeValues
<1> QED
  BY <1>3, <1>4, <1>5 DEF Seen

\* A projection leaves the pressures as they are.
LEMMA PressuresKept ==
  ASSUME PressedAt(Reached), UNCHANGED <<model, projection, steps>>,
         \A q \in Single : ptr'[<<q, "in">>] = ptr[<<q, "in">>],
         \A p \in Arrays : p[2] # "out" => mem'[ptr[p]] = mem[ptr[p]]
  PROVE  PressedAt(Reached)'
<1> SUFFICES ASSUME NEW q \in PressuresOf(model)
             PROVE  mem'[ptr'[<<q, "in">>]] = Level(q, Reached, "state")
  BY DEF PressedAt, Seen, Reached, Ad, OneCall
<1>1. q \in Single /\ <<q, "in">> \in Arrays
  BY ModelFacts, Shapes
<1> QED
  BY <1>1 DEF PressedAt, Seen

LEMMA DirectStep == IInv /\ Direct => IInv'
<1> SUFFICES ASSUME IInv, Direct PROVE IInv'
  OBVIOUS
<1> USE DEF IInv
<1>1. steps \in Nat /\ steps \in 0 .. steps + 1
  BY LevelsAssumption DEF Typing
<1>2. "state" \in Stages /\ "lagrange" \in Stages
  BY DEF Stages
<1>3. StateAt(steps) /\ MovedAt(steps) /\ SpeedAt(steps) /\ OneCall
  BY DEF Phase, Direct
<1>4. \A q \in ProjectedFrom(model) : Seen(<<q, "in">>) = Level(q, steps, "state")
  BY <1>3, ModelFacts DEF StateAt
<1>5. /\ \A q \in StateOf(model) : mem'[ptr[<<q, "out">>]] = Level(q, steps + 1, "state")
      /\ \A p \in Arrays : p[2] # "out" => mem'[ptr[p]] = mem[ptr[p]]
      /\ mem' \in [Arrays -> Levels]
  <2>1. \A q \in LagrangeOf(model) : Seen(<<q, "lag">>) = Level(q, steps, "lagrange")
    BY <1>3 DEF MovedAt
  <2>2. Project(Velocities, "state", "lagrange", 1, "state") /\ mem \in [Arrays -> Levels]
    BY DEF Direct, Typing
  <2> QED
    BY <1>1, <1>2, <1>3, <1>4, <2>1, <2>2, ProjectLevels
<1>7. /\ Pointers' /\ \A q \in StateOf(model) : Seen(<<q, "in">>)' = Level(q, steps + 1, "state")
      /\ \A q \in Single : ptr'[<<q, "in">>] = ptr[<<q, "in">>]
  BY <1>5, NewState DEF Direct
<1>8. Typing'
  BY <1>5 DEF Typing, Direct
<1>8a. PressedAt(Reached)'
  BY <1>5, <1>7, PressuresKept DEF Phase, Direct
<1>9. Phase'
  BY <1>3, <1>7, <1>8a DEF Phase, Direct, StateAt, Known, Ad, OneCall
<1> QED
  BY <1>7, <1>8, <1>9

LEMMA SecondPassStep == IInv /\ SecondPass => IInv'
<1> SUFFICES ASSUME IInv, SecondPass PROVE IInv'
  OBVIOUS
<1> USE DEF IInv
<1>1. steps \in Nat /\ steps \in 0 .. steps + 1
  BY LevelsAssumption DEF Typing
<1>2. "state" \in Stages /\ "middle" \in Stages /\ Velocity(2) \in SUBSET Velocities
  BY DEF Stages, Velocity, Velocities
<1>3. HalfAt(steps) /\ SpeedAt(steps) /\ Ad
  BY DEF Phase, SecondPass
<1>4. /\ \A q \in StateOf(model) : mem'[ptr[<<q, "out">>]] = Level(q, steps + 1, "state")
      /\ \A p \in Arrays : p[2] # "out" => mem'[ptr[p]] = mem[ptr[p]]
      /\ mem' \in [Arrays -> Levels]
  <2>1. /\ Project(Velocity(2), "middle", "middle", 1, "state")
        /\ Pointers /\ mem \in [Arrays -> Levels]
    BY DEF SecondPass, Typing
  <2>2. \A q \in ProjectedFrom(model) : Seen(<<q, "in">>) = Level(q, steps, "middle")
    BY <1>3 DEF HalfAt
  <2>3. \A q \in LagrangeOf(model) : Seen(<<q, "lag">>) = Level(q, steps, "middle")
    BY <1>3 DEF HalfAt
  <2>4. SpeedAt(steps) /\ 1 \in Nat /\ "middle" \in Stages
    BY <1>2, <1>3
  <2> HIDE DEF IInv, HalfAt
  <2>5. /\ \A q \in StateOf(model) : mem'[ptr[<<q, "out">>]] = Level(q, steps + 1, "state")
        /\ \A p \in Arrays : p[2] # "out" => mem'[ptr[p]] = mem[ptr[p]]
        /\ mem' \in [Arrays -> Levels]
    BY <1>1, <1>2, <2>1, <2>2, <2>3, <2>4, ProjectLevels
  <2> QED
    BY <2>5
<1>5. /\ Pointers' /\ \A q \in StateOf(model) : Seen(<<q, "in">>)' = Level(q, steps + 1, "state")
      /\ \A q \in Single : ptr'[<<q, "in">>] = ptr[<<q, "in">>]
  BY <1>4, NewState DEF SecondPass
<1>6. Typing'
  BY <1>4 DEF Typing, SecondPass
<1>6a. PressedAt(Reached)'
  BY <1>4, <1>5, PressuresKept DEF Phase, SecondPass
<1>7. Phase'
  BY <1>3, <1>5, <1>6a DEF Phase, SecondPass, StateAt, Known, Ad, OneCall
<1> QED
  BY <1>5, <1>6, <1>7

\* The first pass: in_ and out_ change places for the paired fields but the
\* density, lag and out_ for the others.
LEMMA FirstPassStep == IInv /\ FirstPass => IInv'
<1> SUFFICES ASSUME IInv, FirstPass PROVE IInv'
  OBVIOUS
<1> USE DEF IInv
<1> DEFINE P == Paired \ {"rho"}
           x == Exchange(P, "in", "out")
           y == Exchange(Lagged, "lag", "out")
<1>1. steps \in Nat /\ steps \in 0 .. steps + 1
  BY LevelsAssumption DEF Typing
<1>2. /\ "state" \in Stages /\ "middle" \in Stages /\ "lagrange" \in Stages
      /\ Velocity(1) \in SUBSET Velocities
  BY DEF Stages, Velocity, Velocities
<1>3. StateAt(steps) /\ MovedAt(steps) /\ SpeedAt(steps) /\ Ad
  BY DEF Phase, FirstPass
<1>4. /\ \A q \in StateOf(model) : mem'[ptr[<<q, "out">>]] = Level(q, steps + 0, "middle")
      /\ \A p \in Arrays : p[2] # "out" => mem'[ptr[p]] = mem[ptr[p]]
      /\ mem' \in [Arrays -> Levels]
  <2>1. Project(Velocity(1), "state", "lagrange", 0, "middle") /\ mem \in [Arrays -> Levels]
    BY DEF FirstPass, Typing
  <2>2. \A q \in ProjectedFrom(model) : Seen(<<q, "in">>) = Level(q, steps, "state")
    BY <1>3, ModelFacts DEF StateAt
  <2>3. \A q \in LagrangeOf(model) : Seen(<<q, "lag">>) = Level(q, steps, "lagrange")
    BY <1>3 DEF MovedAt
  <2> QED
    BY <1>1, <1>2, <1>3, <2>1, <2>2, <2>3, ProjectLevels
<1>a. P \subseteq Paired /\ \A q \in ProjectedFrom(model) : q \in P
  BY ModelFacts
<1>5. /\ P \in SUBSET Fields /\ P \X {"in", "out"} \subseteq Arrays
      /\ Lagged \in SUBSET Fields /\ Lagged \X {"lag", "out"} \subseteq Arrays
      /\ "in" \in Roles /\ "out" \in Roles /\ "lag" \in Roles
      /\ "in" # "out" /\ "lag" # "out"
  BY DEF Arrays, Roles, Fields
<1>b. Pointers
  OBVIOUS
<1> HIDE DEF P, IInv
<1>6. /\ x \in [Arrays -> Arrays] /\ \A p \in Arrays : x[p][1] = p[1]
      /\ \A p, q \in Arrays : x[p] = x[q] => p = q
  BY <1>5, <1>b, ExchangePermutes
<1>7. /\ y \in [Arrays -> Arrays] /\ \A p \in Arrays : y[p][1] = p[1]
      /\ \A p, q \in Arrays : y[p] = y[q] => p = q
  BY <1>5, <1>b, ExchangePermutes
<1>8. /\ \A q \in P : x[<<q, "in">>] = ptr[<<q, "out">>]
      /\ \A p \in Arrays : p[1] \notin P => x[p] = ptr[p]
  BY <1>5, ExchangeValues
<1>9. /\ \A q \in Lagged : y[<<q, "lag">>] = ptr[<<q, "out">>]
      /\ \A p \in Arrays : p[1] \notin Lagged => y[p] = ptr[p]
  BY <1>5, ExchangeValues
<1> HIDE DEF x, y
<1>10. ptr' = [p \in Arrays |-> IF p[1] \in Paired THEN x[p] ELSE y[p]]
  BY DEF FirstPass, x, y, P
<1>11. Pointers'
  <2>1. ptr' \in [Arrays -> Arrays]
    BY <1>6, <1>7, <1>10
  <2>2. \A p \in Arrays : ptr'[p][1] = p[1]
    BY <1>6, <1>7, <1>10
  <2>3. \A p, q \in Arrays : ptr'[p] = ptr'[q] => p = q
    <3> SUFFICES ASSUME NEW p \in Arrays, NEW q \in Arrays, ptr'[p] = ptr'[q] PROVE p = q
      OBVIOUS
    <3>1. p[1] = q[1]
      BY <2>2
    <3> QED
      BY <3>1, <1>6, <1>7, <1>10
  <2> QED
    BY <2>1, <2>2, <2>3 DEF Pointers, NoAlias
<1>12. \A q \in ProjectedFrom(model) : Seen(<<q, "in">>)' = Level(q, steps, "middle")
  <2> SUFFICES ASSUME NEW q \in ProjectedFrom(model)
               PROVE  mem'[ptr'[<<q, "in">>]] = Level(q, steps, "middle")
    BY DEF Seen
  <2>1. q \in P /\ q \in StateOf(model) /\ q \in Paired
    BY <1>a, ModelFacts
  <2>2. <<q, "in">> \in Arrays
    BY <2>1 DEF Arrays, Fields
  <2>3. ptr'[<<q, "in">>] = ptr[<<q, "out">>]
    BY <1>8, <1>10, <2>1, <2>2
  <2> QED
    BY <1>1, <1>4, <2>1, <2>3
<1>13. \A q \in LagrangeOf(model) : Seen(<<q, "lag">>)' = Level(q, steps, "middle")
  <2> SUFFICES ASSUME NEW q \in LagrangeOf(model)
               PROVE  mem'[ptr'[<<q, "lag">>]] = Level(q, steps, "middle")
    BY DEF Seen
  <2>1. q \in Lagged /\ q \in StateOf(model) /\ q \notin Paired
    BY ModelFacts, Shapes
  <2>2. <<q, "lag">> \in Arrays
    BY <2>1 DEF Arrays
  <2>3. ptr'[<<q, "lag">>] = ptr[<<q, "out">>]
    BY <1>9, <1>10, <2>1, <2>2
  <2> QED
    BY <1>1, <1>4, <2>1, <2>3
<1>13a. \A q \in Single : <<q, "in">> \in Arrays /\ ptr'[<<q, "in">>] = ptr[<<q, "in">>]
  <2>1. \A q \in Single : <<q, "in">> \in Arrays /\ q \notin Paired /\ q \notin Lagged
    BY Shapes DEF Fields
  <2> QED
    BY <1>9, <1>10, <2>1
<1>14. \A q \in Velocities : Seen(<<q, "in">>)' = Level(q, steps, "lagrange")
  <2>1. Velocities \subseteq Single
    BY DEF Velocities, Single
  <2> QED
    BY <1>3, <1>4, <1>13a, <2>1, Shapes DEF SpeedAt, Seen
<1>14a. PressedAt(Reached)'
  BY <1>4, <1>13a, PressuresKept DEF Phase, FirstPass, IInv
<1>15. Typing'
  BY <1>4 DEF Typing, FirstPass, IInv
<1>16. Phase'
  BY <1>3, <1>12, <1>13, <1>14, <1>14a DEF Phase, FirstPass, HalfAt, SpeedAt, Ad
<1> QED
  BY <1>11, <1>15, <1>16 DEF IInv

\* Run's loop "INIT" completes the state from the arrays the file gave.
LEMMA SetupStep == IInv /\ Setup => IInv'
<1> SUFFICES ASSUME IInv, Setup PROVE IInv'
  OBVIOUS
<1> DEFINE args == At(In(GivenTo(model)), "state")
           outs == At(SetupOuts(model), "state")
           m1   == Stored(args, outs, 0)
<1> USE DEF IInv
<1>0. /\ steps = 0 /\ ptr = [p \in Arrays |-> p] /\ UNCHANGED <<model, projection, iter, steps, ptr>>
      /\ mem' = [b \in Arrays |-> IF b \in Lag(Lagged) THEN Zero ELSE m1[b]]
      /\ \A q \in GivenTo(model) : Seen(<<q, "in">>) = Level(q, 0, "state")
  BY DEF Setup, Phase
<1>1. steps \in Nat /\ 0 \in 0 .. steps + 1 /\ "state" \in Stages
  BY <1>0 DEF Stages
<1>2. args \in Calls /\ outs \in Calls /\ args # {}
  <2>1. \A q \in Names : <<q, "in">> \in Arrays
    BY Shapes DEF Names
  <2>2. In(GivenTo(model)) \subseteq Arrays /\ SetupOuts(model) \subseteq Arrays
    <3>1. In(Names) \subseteq Arrays
      BY <2>1 DEF In
    <3>2. Out(Fields) \subseteq Arrays
      BY DEF Out, Arrays
    <3>3. In(GivenTo(model)) \subseteq In(Names)
      BY ModelFacts DEF In
    <3> QED
      BY <3>1, <3>2, <3>3, ModelFacts
  <2>3. <<<<"u", "in">>, "state">> \in args
    BY ModelFacts DEF At, In
  <2> QED
    BY <1>1, <2>2, <2>3, AtCalls
<1>3. \A o, u \in outs : o[1] = u[1] => o = u
  BY DEF At
<1>4. Agree(args, 0)
  BY <1>0 DEF Agree, At, In
<1>5. \A q : <<q, "in">> \in SetupOuts(model) => \E o \in outs : o[1] = <<q, "in">>
  <2> SUFFICES ASSUME NEW q, <<q, "in">> \in SetupOuts(model)
               PROVE  \E o \in outs : o[1] = <<q, "in">>
    OBVIOUS
  <2>1. <<<<q, "in">>, "state">> \in outs
    BY DEF At
  <2> QED
    BY <2>1
<1>5a. \A o \in outs : o[2] = "state" /\ o[1] \in Arrays
  BY <1>2 DEF At, Calls
<1> HIDE DEF args, outs, m1
<1>6. /\ \A o \in outs : m1[ptr[o[1]]] = Level(o[1][1], 0 + 0, o[2])
      /\ \A p \in Arrays : (\A o \in outs : o[1] # p) => m1[ptr[p]] = mem[ptr[p]]
  BY <1>1, <1>2, <1>3, <1>4, StoredLevels DEF m1
<1>7. m1 \in [Arrays -> Levels]
  BY <1>1, <1>2, StoredType DEF m1, Typing
<1>8. mem' \in [Arrays -> Levels]
  BY <1>0, <1>7 DEF Levels
<1>9. \A q \in StateOf(model) \cup PressuresOf(model) :
        Seen(<<q, "in">>)' = Level(q, 0, "state")
  <2> SUFFICES ASSUME NEW q \in StateOf(model) \cup PressuresOf(model)
               PROVE  mem'[<<q, "in">>] = Level(q, 0, "state")
    BY <1>0, DriverPointers DEF Seen, In
  <2>1. <<q, "in">> \in Arrays /\ <<q, "in">> \notin Lag(Lagged)
    BY DriverPointers DEF In, Lag
  <2>2. mem'[<<q, "in">>] = m1[ptr[<<q, "in">>]]
    BY <1>0, <2>1
  <2>3. CASE \E o \in outs : o[1] = <<q, "in">>
    BY <1>5a, <1>6, <2>2, <2>3
  <2>4. CASE \A o \in outs : o[1] # <<q, "in">>
    <3>1. <<q, "in">> \notin SetupOuts(model)
      BY <1>5, <2>4
    <3>2. q \in GivenTo(model)
      BY <3>1, ModelFacts
    <3> QED
      BY <1>0, <1>6, <2>1, <2>2, <2>4, <3>2 DEF Seen
  <2> QED
    BY <2>3, <2>4
<1>10. Pointers'
  BY <1>0 DEF Pointers, NoAlias
<1>11. Typing'
  BY <1>0, <1>8 DEF Typing, Setup
<1>12. Phase'
  BY <1>0, <1>9 DEF Phase, Setup, StateAt, PressedAt, Before, Reached
<1> QED
  BY <1>10, <1>11, <1>12

LEMMA DensityStep == IInv /\ RecomputeDensity => IInv'
<1> SUFFICES ASSUME IInv, RecomputeDensity PROVE IInv'
  OBVIOUS
<1> DEFINE args == At(In({"mass"}), "state")
           outs == At(In({"rho"}), "state")
           n    == IF Known THEN steps + 1 ELSE 0
<1> USE DEF IInv
<1>0. mem' = Stored(args, outs, 0) /\ UNCHANGED <<model, projection, iter, steps, ptr>>
  BY DEF RecomputeDensity
<1>1. steps \in Nat /\ n \in 0 .. steps + 1 /\ n + 0 = n
  BY LevelsAssumption DEF Typing
<1>2. StateAt(n)
  BY DEF Phase, RecomputeDensity
<1>3. args \in Calls /\ outs \in Calls /\ args # {}
  <2>1. In({"mass"}) \subseteq Arrays /\ In({"rho"}) \subseteq Arrays /\ "state" \in Stages
    BY DEF In, Arrays, Fields, Paired, Stages
  <2>2. <<<<"mass", "in">>, "state">> \in args
    BY DEF At, In
  <2> QED
    BY <2>1, <2>2, AtCalls
<1>4. \A o, u \in outs : o[1] = u[1] => o = u
  BY DEF At
<1>5. Agree(args, n)
  BY <1>2, ModelFacts DEF Agree, StateAt, At, In
<1>6. \A o \in outs : o[1] = <<"rho", "in">> /\ o[2] = "state"
  BY DEF At, In
<1> HIDE DEF args, outs, n
<1>7. /\ \A o \in outs : mem'[ptr[o[1]]] = Level(o[1][1], n + 0, o[2])
      /\ \A p \in Arrays : (\A o \in outs : o[1] # p) => mem'[ptr[p]] = mem[ptr[p]]
  BY <1>0, <1>1, <1>3, <1>4, <1>5, StoredLevels
<1>8. mem' \in [Arrays -> Levels]
  BY <1>0, <1>1, <1>3, StoredType DEF Typing
<1>9. \A q \in StateOf(model) : Seen(<<q, "in">>)' = Level(q, n, "state")
  <2> SUFFICES ASSUME NEW q \in StateOf(model)
               PROVE  mem'[ptr[<<q, "in">>]] = Level(q, n, "state")
    BY <1>0 DEF Seen
  <2>1. <<q, "in">> \in Arrays
    BY DriverPointers DEF In
  <2>2. CASE \E o \in outs : o[1] = <<q, "in">>
    BY <1>1, <1>6, <1>7, <2>2
  <2>3. CASE \A o \in outs : o[1] # <<q, "in">>
    BY <1>2, <1>7, <2>1, <2>3 DEF StateAt, Seen
  <2> QED
    BY <2>2, <2>3
<1>10. Pointers'
  BY <1>0 DEF Pointers, NoAlias
<1>11. Typing'
  BY <1>0, <1>8 DEF Typing, RecomputeDensity
<1>11a. PressedAt(Reached)'
  <2> SUFFICES ASSUME NEW q \in PressuresOf(model)
               PROVE  mem'[ptr[<<q, "in">>]] = Level(q, Reached, "state")
    BY <1>0 DEF PressedAt, Seen, Reached, Ad, OneCall
  <2>1. <<q, "in">> \in Arrays /\ q # "rho"
    BY ModelFacts, Shapes DEF Single
  <2>2. \A o \in outs : o[1] # <<q, "in">>
    BY <1>6, <2>1
  <2> QED
    BY <1>7, <2>1, <2>2 DEF Phase, RecomputeDensity, PressedAt, Seen
<1>12. Phase'
  BY <1>0, <1>9, <1>11a DEF Phase, RecomputeDensity, StateAt, Known, Ad, OneCall, n
<1> QED
  BY <1>10, <1>11, <1>12
-----------------------------------------------------------------------------
LEMMA NextIInv == IInv /\ [Next]_vars => IInv'
<1> SUFFICES ASSUME IInv, [Next]_vars PROVE IInv'
  OBVIOUS
<1>1. CASE Setup
  BY <1>1, SetupStep
<1>2. CASE TimeStep
  BY <1>2, LevelsAssumption DEF TimeStep, IInv, Typing, Pointers, NoAlias, Phase, StateAt, Seen,
                                PressedAt, Before, Reached, Ad, OneCall
<1>3. CASE Leave
  BY <1>3 DEF Leave, IInv, Typing, Pointers, NoAlias, Phase, StateAt, PressedAt,
              Before, Seen, Reached, Ad, OneCall
<1>4. CASE Lagrange
  BY <1>4, LagrangeStep
<1>5. CASE FirstPass
  BY <1>5, FirstPassStep
<1>6. CASE SecondPass
  BY <1>6, SecondPassStep
<1>7. CASE Direct
  BY <1>7, DirectStep
<1>8. CASE RecomputeDensity
  BY <1>8, DensityStep
<1>9. CASE Outputs
  BY <1>9, LevelsAssumption DEF Outputs, IInv, Typing, Pointers, NoAlias, Phase, StateAt, Seen,
                                PressedAt, Before, Reached, Known, Ad, OneCall
<1>10. CASE UNCHANGED vars
  BY <1>10 DEF vars, IInv, Typing, Pointers, NoAlias, Phase, StateAt, MovedAt, SpeedAt, HalfAt,
               PressedAt, Before, Seen, Reached, Known, Ad, OneCall
<1> QED
  BY <1>1, <1>2, <1>3, <1>4, <1>5, <1>6, <1>7, <1>8, <1>9, <1>10 DEF Next

LEMMA Inductive == Spec => []IInv
BY InitIInv, NextIInv, PTL DEF Spec

\* Every variable of Run keeps its type: a pointer only ever has an array of
\* its own field.
THEOREM TypeCorrect == Spec => []TypeOK
<1>1. IInv => TypeOK
  BY DEF IInv, Typing, Pointers, TypeOK
<1> QED
  BY <1>1, Inductive, PTL

\* The RESTRICT arguments of the kernels never share an array, whatever swaps
\* the steps before made.
THEOREM NeverAliased == Spec => []NoAlias
<1>1. IInv => NoAlias
  BY DEF IInv, Pointers
<1> QED
  BY <1>1, Inductive, PTL

\* After any number of steps, with any model and projection, every field of
\* the state read through its in_ pointer is at the step of the loop.
THEOREM StateAlwaysCurrent == Spec => []StateIsCurrent
<1>1. IInv => StateIsCurrent
  BY DEF IInv, Phase, StateAt, StateIsCurrent
<1> QED
  BY <1>1, Inductive, PTL

\* The time step reads the pressures of the step before, never older ones: no exchange of
\* a projection touches them, and every Lagrange phase stores those its model reads.
THEOREM PressureOfStepBefore == Spec => []TimeStepPressure
<1>1. IInv => TimeStepPressure
  <2> SUFFICES ASSUME IInv, pc = "loop", model # "MultimaterialMix",
                      NEW q \in TimeStepFrom(model) \cap Single
               PROVE  Seen(<<q, "in">>) = Level(q, Before, "state")
    BY DEF TimeStepPressure, Before
  <2>1. q \in PressuresOf(model)
    BY ModelFacts
  <2> QED
    BY <2>1 DEF IInv, Phase, PressedAt
<1> QED
  BY <1>1, Inductive, PTL

-----------------------------------------------------------------------------
\* Where the pointers of a field are after k steps: in, lag and out of a field with three
\* arrays take turns, in and out of one with two change places.
Three(q, a, b, c) ==
  ptr[<<q, "in">>] = <<q, a>> /\ ptr[<<q, "lag">>] = <<q, b>> /\ ptr[<<q, "out">>] = <<q, c>>
Two(q, a, b) == ptr[<<q, "in">>] = <<q, a>> /\ ptr[<<q, "out">>] = <<q, b>>

Rotated(k) ==
  \A q \in Lagged :
    /\ k % 3 = 0 => Three(q, "in", "lag", "out")
    /\ k % 3 = 1 => Three(q, "lag", "out", "in")
    /\ k % 3 = 2 => Three(q, "out", "in", "lag")

HalfRotated(k) ==
  \A q \in Lagged :
    /\ k % 3 = 0 => Three(q, "in", "out", "lag")
    /\ k % 3 = 1 => Three(q, "lag", "in", "out")
    /\ k % 3 = 2 => Three(q, "out", "lag", "in")

Alternated(F, k) ==
  \A q \in F : /\ k % 2 = 0 => Two(q, "in", "out")
               /\ k % 2 = 1 => Two(q, "out", "in")

\* The projections that are done.
Projected == IF pc \in {"density", "outputs"} THEN steps + 1 ELSE steps

Turns ==
  /\ Ad => /\ IF pc = "second" THEN HalfRotated(steps) ELSE Rotated(Projected)
           /\ Alternated({"rho"}, Projected)
           /\ Alternated(Paired \ {"rho"}, IF pc = "second" THEN 1 ELSE 0)
  /\ OneCall => Alternated(Fields, Projected)

LEMMA Remainders ==
  ASSUME NEW k \in Nat
  PROVE  /\ k % 2 \in {0, 1} /\ k % 3 \in {0, 1, 2}
         /\ (k + 1) % 2 = IF k % 2 = 0 THEN 1 ELSE 0
         /\ (k + 1) % 3 = IF k % 3 = 0 THEN 1 ELSE IF k % 3 = 1 THEN 2 ELSE 0
         /\ 0 % 2 = 0 /\ 1 % 2 = 1 /\ 0 % 3 = 0
OBVIOUS

\* The two exchanges of the alternating projection, and the one of the direct projections.
LEMMA FirstExchange ==
  ASSUME Pointers, FirstPass
  PROVE  /\ \A q \in Lagged : /\ ptr'[<<q, "in">>] = ptr[<<q, "in">>]
                              /\ ptr'[<<q, "lag">>] = ptr[<<q, "out">>]
                              /\ ptr'[<<q, "out">>] = ptr[<<q, "lag">>]
         /\ \A q \in Paired \ {"rho"} : /\ ptr'[<<q, "in">>] = ptr[<<q, "out">>]
                                        /\ ptr'[<<q, "out">>] = ptr[<<q, "in">>]
         /\ ptr'[<<"rho", "in">>] = ptr[<<"rho", "in">>]
         /\ ptr'[<<"rho", "out">>] = ptr[<<"rho", "out">>]
<1>1. /\ \A q \in Lagged : /\ <<q, "in">> \in Arrays /\ <<q, "lag">> \in Arrays
                           /\ <<q, "out">> \in Arrays /\ q \notin Paired
      /\ \A q \in Paired : <<q, "in">> \in Arrays /\ <<q, "out">> \in Arrays
      /\ "rho" \in Paired
  BY Shapes DEF Fields, Paired
<1> QED
  BY <1>1 DEF FirstPass, Exchange

LEMMA LastExchange ==
  ASSUME Pointers, ptr' = Exchange(Fields, "in", "out")
  PROVE  /\ \A q \in Fields : /\ ptr'[<<q, "in">>] = ptr[<<q, "out">>]
                              /\ ptr'[<<q, "out">>] = ptr[<<q, "in">>]
         /\ \A q \in Lagged : ptr'[<<q, "lag">>] = ptr[<<q, "lag">>]
  BY Shapes DEF Exchange

LEMMA TurnsStep ==
  ASSUME IInv, Turns, Next
  PROVE  Turns'
<1>1. steps \in Nat /\ Pointers
  BY LevelsAssumption DEF IInv, Typing
<1>2. Lagged \subseteq Fields /\ Paired \subseteq Fields /\ "rho" \in Fields /\ ~(Ad /\ OneCall)
  BY DEF Fields, Paired, Ad, OneCall
<1>3. CASE FirstPass
  <2>1. /\ pc = "first" /\ pc' = "second" /\ UNCHANGED <<projection, steps>> /\ Ad
    BY <1>3 DEF FirstPass, IInv, Phase
  <2>2. Rotated(steps) /\ Alternated({"rho"}, steps) /\ Alternated(Paired \ {"rho"}, 0)
    BY <2>1 DEF Turns, Projected
  <2>3. HalfRotated(steps)'
    BY <1>1, <1>3, <2>1, <2>2, FirstExchange DEF Rotated, HalfRotated, Three
  <2>4. Alternated({"rho"}, steps)' /\ Alternated(Paired \ {"rho"}, 1)'
    BY <1>1, <1>3, <2>1, <2>2, FirstExchange, Remainders DEF Alternated, Two
  <2> QED
    BY <1>2, <2>1, <2>3, <2>4 DEF Turns, Projected, Ad, OneCall
<1>4. CASE SecondPass
  <2>1. /\ pc = "second" /\ pc' = "density" /\ UNCHANGED <<projection, steps>> /\ Ad
        /\ ptr' = Exchange(Fields, "in", "out")
    BY <1>4 DEF SecondPass, IInv, Phase
  <2>2. HalfRotated(steps) /\ Alternated({"rho"}, steps) /\ Alternated(Paired \ {"rho"}, 1)
    BY <2>1 DEF Turns, Projected
  <2>3. Rotated(steps + 1)'
    <3> SUFFICES ASSUME NEW q \in Lagged
                 PROVE  /\ (steps + 1) % 3 = 0 => Three(q, "in", "lag", "out")'
                        /\ (steps + 1) % 3 = 1 => Three(q, "lag", "out", "in")'
                        /\ (steps + 1) % 3 = 2 => Three(q, "out", "in", "lag")'
      BY <2>1 DEF Rotated, Three
    <3>1. /\ ptr'[<<q, "in">>] = ptr[<<q, "out">>] /\ ptr'[<<q, "out">>] = ptr[<<q, "in">>]
          /\ ptr'[<<q, "lag">>] = ptr[<<q, "lag">>]
      BY <1>1, <1>2, <2>1, LastExchange
    <3>2. /\ steps % 3 = 0 => Three(q, "in", "out", "lag")
          /\ steps % 3 = 1 => Three(q, "lag", "in", "out")
          /\ steps % 3 = 2 => Three(q, "out", "lag", "in")
      BY <2>2 DEF HalfRotated
    <3> QED
      BY <1>1, <3>1, <3>2, Remainders DEF Three
  <2>4. Alternated({"rho"}, steps + 1)' /\ Alternated(Paired \ {"rho"}, 0)'
    BY <1>1, <1>2, <2>1, <2>2, LastExchange, Remainders DEF Alternated, Two
  <2> QED
    BY <1>2, <2>1, <2>3, <2>4 DEF Turns, Projected, Ad, OneCall
<1>5. CASE Direct
  <2>1. /\ pc = "direct" /\ pc' = "density" /\ UNCHANGED <<projection, steps>> /\ OneCall
        /\ ptr' = Exchange(Fields, "in", "out")
    BY <1>5 DEF Direct, IInv, Phase
  <2>2. Alternated(Fields, steps)
    BY <2>1 DEF Turns, Projected
  <2>3. Alternated(Fields, steps + 1)'
    BY <1>1, <2>1, <2>2, LastExchange, Remainders DEF Alternated, Two
  <2> QED
    BY <1>2, <2>1, <2>3 DEF Turns, Projected, Ad, OneCall
<1>6. CASE Setup \/ TimeStep \/ Leave \/ Lagrange \/ RecomputeDensity \/ Outputs
  <2>1. /\ UNCHANGED <<projection, ptr>> /\ (Ad \/ OneCall => Projected' = Projected)
        /\ pc # "second" /\ pc' # "second"
    BY <1>1, <1>6 DEF Setup, TimeStep, Leave, Lagrange, RecomputeDensity, Outputs, Projected,
                      IInv, Phase, Ad, OneCall
  <2> QED
    BY <2>1 DEF Turns, Rotated, Alternated, Three, Two, Ad, OneCall
<1> QED
  BY <1>3, <1>4, <1>5, <1>6 DEF Next

LEMMA TurnsAlways == Spec => []Turns
<1>1. Init => Turns
  <2> SUFFICES ASSUME Init PROVE Turns
    OBVIOUS
  <2>1. ptr = [p \in Arrays |-> p] /\ steps = 0 /\ pc = "setup"
    BY DEF Init
  <2>2. \A q \in Fields : Two(q, "in", "out")
    BY <2>1, Shapes DEF Two
  <2>3. \A q \in Lagged : Three(q, "in", "lag", "out")
    BY <2>1, Shapes DEF Three, Fields
  <2> QED
    BY <2>1, <2>2, <2>3, Remainders
       DEF Turns, Projected, Rotated, Alternated, Fields, Paired
<1>2. Turns /\ UNCHANGED vars => Turns'
  BY DEF vars, Turns, Projected, Rotated, HalfRotated, Alternated, Three, Two, Ad, OneCall
<1> QED
  BY <1>1, <1>2, TurnsStep, Inductive, PTL DEF Spec

-----------------------------------------------------------------------------
\* No array holds a step that is not reached, and after a projection only the in pointers
\* may see the new one.
Fresh ==
  /\ \A b \in Arrays : mem[b].step <= Projected
  /\ pc \in {"density", "outputs"} =>
       \A p \in Arrays : p[2] # "in" => mem[ptr[p]].step <= steps

LEMMA StepsAreNumbers == \A l \in Levels : l.step \in Nat
BY DEF Levels, Garbage, Zero

\* What a call writes is no newer than what it reads, but for the step that it completes.
LEMMA StoredSteps ==
  ASSUME Fresh, IInv, NEW args, NEW a \in args, a[1] \in Arrays, NEW outs, NEW up \in Nat
  PROVE  /\ \A b \in Arrays : Stored(args, outs, up)[b].step <= Projected + up
         /\ \A b \in Arrays : (\A o \in outs : ptr[o[1]] # b) => Stored(args, outs, up)[b] = mem[b]
<1>1. steps \in Nat /\ Projected \in Nat /\ Pointers
  BY LevelsAssumption DEF IInv, Typing, Projected
<1>2. \A b \in Arrays : mem[b].step \in Nat
  BY StepsAreNumbers DEF IInv, Typing
<1>3. ASSUME NEW o PROVE Written(args, o, up).step <= Projected + up
  <2>1. CASE \E n \in 0 .. steps + 1 : Agree(args, n)
    <3> DEFINE n == CHOOSE n \in 0 .. steps + 1 : Agree(args, n)
    <3>1. n \in 0 .. steps + 1 /\ Agree(args, n)
      BY <2>1
    <3>2. Written(args, o, up) = Level(o[1][1], n + up, o[2])
      BY <2>1 DEF Written
    <3> HIDE DEF n
    <3>3. mem[ptr[a[1]]] = Level(a[1][1], n, a[2]) /\ ptr[a[1]] \in Arrays
      BY <1>1, <3>1 DEF Agree, Seen, Pointers
    <3>4. n <= Projected
      BY <3>3 DEF Fresh, Level
    <3> QED
      BY <1>1, <3>1, <3>2, <3>4 DEF Level
  <2>2. CASE ~ \E n \in 0 .. steps + 1 : Agree(args, n)
    BY <1>1, <2>2 DEF Written, Garbage
  <2> QED
    BY <2>1, <2>2
<1>4. \A b \in Arrays : mem[b].step <= Projected + up
  BY <1>1, <1>2 DEF Fresh
<1> QED
  BY <1>3, <1>4 DEF Stored

LEMMA FreshStep ==
  ASSUME IInv, Fresh, Next
  PROVE  Fresh'
<1>1. steps \in Nat /\ Pointers /\ Projected \in Nat
  BY LevelsAssumption DEF IInv, Typing, Projected
<1>2. /\ <<"mass", "in">> \in Arrays /\ \A q \in Fields : <<q, "in">> \in Arrays
      /\ \A s : <<<<"mass", "in">>, s>> \in At(In(LagrangeFrom(model)), s)
      /\ \A s : <<<<"mass", "in">>, s>> \in At(In(ProjectedFrom(model)), s)
      /\ <<"u", "in">> \in Arrays /\ \A s : <<<<"u", "in">>, s>> \in At(In(GivenTo(model)), s)
      /\ \A s : <<<<"mass", "in">>, s>> \in At(In({"mass"}), s)
  BY ModelFacts, Shapes DEF At, In, Fields, Paired, Lagged
<1>3. ASSUME pc \notin {"density", "outputs"}, UNCHANGED <<steps, ptr>>,
             \A b \in Arrays : mem'[b].step <= steps
      PROVE  Fresh'
  <2>1. \A b \in Arrays : mem'[b].step \in Nat
    <3>1. IInv'
      BY NextIInv
    <3> QED
      BY <3>1, StepsAreNumbers DEF IInv, Typing
  <2>2. ptr' = ptr /\ steps' = steps /\ Projected' \in {steps, steps + 1}
    BY <1>3 DEF Projected
  <2> QED
    BY <1>1, <1>3, <2>1, <2>2 DEF Fresh, Pointers
<1>4. CASE Setup
  <2> DEFINE args == At(In(GivenTo(model)), "state")
             outs == At(SetupOuts(model), "state")
  <2>1. \A b \in Arrays : Stored(args, outs, 0)[b].step <= Projected + 0
    <3>1. <<<<"u", "in">>, "state">> \in args
      BY <1>2
    <3> HIDE DEF args, outs
    <3> QED
      BY <1>2, <3>1, StoredSteps
  <2>2. Projected = steps
    BY <1>4 DEF Setup, Projected
  <2>3. \A b \in Arrays : mem'[b] = Zero \/ mem'[b] = Stored(args, outs, 0)[b]
    BY <1>4 DEF Setup
  <2>4. \A b \in Arrays : mem'[b].step <= steps
    BY <1>1, <2>1, <2>2, <2>3 DEF Zero
  <2> QED
    BY <1>3, <1>4, <2>4 DEF Setup
<1>5. CASE Lagrange
  <2> DEFINE args == At(In(LagrangeFrom(model)), "state")
             outs == At(Lag(LagrangeOuts(model)) \cup In(Velocities), "lagrange")
                       \cup At(In(PressuresOf(model)), "state")
  <2>1. \A b \in Arrays : Stored(args, outs, 0)[b].step <= Projected + 0
    <3>1. <<<<"mass", "in">>, "state">> \in args
      BY <1>2
    <3> HIDE DEF args, outs
    <3> QED
      BY <1>2, <3>1, StoredSteps
  <2>2. Projected = steps /\ mem' = Stored(args, outs, 0)
    BY <1>5 DEF Lagrange, Projected
  <2> HIDE DEF args, outs
  <2>3. \A b \in Arrays : mem'[b].step <= steps
    BY <1>1, <2>1, <2>2
  <2> QED
    BY <1>3, <1>5, <2>3 DEF Lagrange
<1>6. ASSUME NEW V, NEW r, NEW s, NEW t, NEW up \in Nat, Project(V, r, s, up, t)
      PROVE  /\ \A b \in Arrays : mem'[b].step <= Projected + up
             /\ \A p \in Arrays : p[2] # "out" => mem'[ptr[p]] = mem[ptr[p]]
  <2> DEFINE args == At(In(ProjectedFrom(model)), r) \cup At(Lag(LagrangeOf(model)), s)
                       \cup At(In(V), "lagrange")
             outs == At(Out(StateOf(model)), t)
  <2>1. <<<<"mass", "in">>, r>> \in args
    BY <1>2
  <2>2. mem' = Stored(args, outs, up)
    BY <1>6 DEF Project
  <2>3. \A o \in outs : o[1] \in Arrays /\ o[1][2] = "out"
    BY DriverPointers DEF At, Out
  <2> HIDE DEF args, outs
  <2>4. \A p \in Arrays : p[2] # "out" => ptr[p] \in Arrays /\ \A o \in outs : ptr[o[1]] # ptr[p]
    BY <1>1, <2>3 DEF Pointers, NoAlias
  <2> QED
    BY <1>2, <1>6, <2>1, <2>2, <2>4, StoredSteps
<1>7. CASE FirstPass
  <2>1. \A b \in Arrays : mem'[b].step <= Projected + 0
    BY <1>6, <1>7 DEF FirstPass
  <2> QED
    BY <1>1, <1>7, <2>1 DEF Fresh, Projected, FirstPass
<1>8. ASSUME pc \notin {"density", "outputs"}, pc' = "density", UNCHANGED steps,
             ptr' = Exchange(Fields, "in", "out"),
             \A b \in Arrays : mem'[b].step <= Projected + 1,
             \A p \in Arrays : p[2] # "out" => mem'[ptr[p]] = mem[ptr[p]]
      PROVE  Fresh'
  <2>1. Projected = steps /\ Projected' = steps + 1
    BY <1>8 DEF Projected
  <2>2. ASSUME NEW p \in Arrays, p[2] # "in" PROVE mem'[ptr'[p]].step <= steps
    <3>1. \A b \in Arrays : mem[b].step <= steps
      BY <2>1 DEF Fresh
    <3>2. CASE p[2] = "out"
      <4>1. p[1] \in Fields /\ p = <<p[1], "out">> /\ <<p[1], "in">> \in Arrays
        BY <2>2, <3>2, Shapes
      <4>2. ptr'[p] = ptr[<<p[1], "in">>]
        BY <1>1, <1>8, <4>1, LastExchange
      <4> QED
        BY <1>1, <1>8, <3>1, <4>1, <4>2 DEF Pointers
    <3>3. CASE p[2] = "lag"
      <4>1. p[1] \in Lagged /\ p = <<p[1], "lag">>
        BY <2>2, <3>3, Shapes
      <4>2. ptr'[p] = ptr[p]
        BY <1>1, <1>8, <4>1, LastExchange
      <4> QED
        BY <1>1, <1>8, <2>2, <3>1, <3>3, <4>2 DEF Pointers
    <3> QED
      BY <2>2, <3>2, <3>3, Shapes DEF Roles
  <2> QED
    BY <1>1, <1>8, <2>1, <2>2 DEF Fresh
<1>9. CASE SecondPass
  BY <1>6, <1>8, <1>9 DEF SecondPass
<1>10. CASE Direct
  BY <1>6, <1>8, <1>10 DEF Direct
<1>11. CASE RecomputeDensity
  <2> DEFINE args == At(In({"mass"}), "state")
             outs == At(In({"rho"}), "state")
  <2>1. <<<<"mass", "in">>, "state">> \in args
    BY <1>2
  <2>2. mem' = Stored(args, outs, 0) /\ UNCHANGED <<steps, ptr>> /\ pc = "density" /\ pc' = "outputs"
    BY <1>11 DEF RecomputeDensity
  <2>3. \A o \in outs : o[1] = <<"rho", "in">>
    BY DEF At, In
  <2> HIDE DEF args, outs
  <2>4. \A b \in Arrays : mem'[b].step <= Projected + 0
    BY <1>2, <2>1, <2>2, StoredSteps
  <2>5. \A p \in Arrays : p[2] # "in" => ptr[p] \in Arrays /\ \A o \in outs : ptr[o[1]] # ptr[p]
    <3>1. <<"rho", "in">> \in Arrays
      BY Shapes DEF Fields, Paired
    <3> QED
      BY <1>1, <2>3, <3>1 DEF Pointers, NoAlias
  <2>6. \A p \in Arrays : p[2] # "in" => mem'[ptr[p]] = mem[ptr[p]]
    BY <1>2, <2>1, <2>2, <2>5, StoredSteps
  <2> QED
    BY <1>1, <2>2, <2>4, <2>6 DEF Fresh, Projected
<1>12. CASE TimeStep \/ Leave \/ Outputs
  BY <1>12 DEF TimeStep, Leave, Outputs, Fresh, Projected
<1> QED
  BY <1>4, <1>5, <1>7, <1>9, <1>10, <1>11, <1>12 DEF Next

LEMMA FreshAlways == Spec => []Fresh
<1>1. Init => Fresh
  BY DEF Init, Fresh, Projected, Level, Garbage
<1>2. Fresh /\ UNCHANGED vars => Fresh'
  BY DEF vars, Fresh, Projected
<1> QED
  BY <1>1, <1>2, FreshStep, Inductive, PTL DEF Spec

\* Which arrays of the store are current when the outputs read them: a field that is
\* projected once a step and has two arrays after every second step, one that has three
\* after every third, and one whose two arrays change places twice a step always.
THEOREM SlotsFollowSchedule == Spec => []SlotSchedule
<1>1. IInv /\ Turns /\ Fresh => SlotSchedule
  <2> SUFFICES ASSUME IInv, Turns, Fresh, pc = "outputs", Ad \/ OneCall,
                      NEW q \in StateOf(model)
               PROVE  mem[<<q, "in">>] = Level(q, steps + 1, "state") <=>
                        \/ OneCall /\ (steps + 1) % 2 = 0
                        \/ Ad /\ q \in Lagged /\ (steps + 1) % 3 = 0
                        \/ Ad /\ q = "rho" /\ (steps + 1) % 2 = 0
                        \/ Ad /\ q \in Paired \ {"rho"}
    BY DEF SlotSchedule
  <2>1. /\ q \in Fields /\ (q \in Lagged \/ q \in Paired) /\ ~(q \in Lagged /\ q \in Paired)
        /\ "rho" \in Paired /\ ~(Ad /\ OneCall) /\ steps \in Nat /\ Projected = steps + 1
    BY ModelFacts, Shapes, LevelsAssumption DEF Fields, Paired, Ad, OneCall, Projected, IInv, Typing
  <2>2. ASSUME ptr[<<q, "in">>] = <<q, "in">> PROVE mem[<<q, "in">>] = Level(q, steps + 1, "state")
    BY <2>2 DEF IInv, Phase, Known, StateAt, Seen
  <2>3. ASSUME NEW r \in {"out", "lag"}, <<q, r>> \in Arrays, ptr[<<q, r>>] = <<q, "in">>
        PROVE  mem[<<q, "in">>] # Level(q, steps + 1, "state")
    <3>1. mem[<<q, "in">>].step <= steps
      BY <2>3 DEF Fresh
    <3> QED
      BY <2>1, <3>1 DEF Level
  <2>4. /\ <<q, "out">> \in Arrays
        /\ q \in Lagged => <<q, "lag">> \in Arrays
        /\ (steps + 1) % 2 \in {0, 1} /\ (steps + 1) % 3 \in {0, 1, 2} /\ 0 % 2 = 0
    BY <2>1, Shapes, Remainders
  <2>5. CASE OneCall
    <3>1. Alternated(Fields, steps + 1)
      BY <2>1, <2>5 DEF Turns
    <3>2. CASE (steps + 1) % 2 = 0
      BY <2>1, <2>2, <2>5, <3>1, <3>2 DEF Alternated, Two
    <3>3. CASE (steps + 1) % 2 = 1
      <4>1. ptr[<<q, "out">>] = <<q, "in">>
        BY <2>5, <2>1, <3>1, <3>3 DEF Alternated, Two
      <4>2. mem[<<q, "in">>] # Level(q, steps + 1, "state")
        BY <2>3, <2>4, <4>1
      <4> QED
        BY <2>1, <2>5, <3>3, <4>2
    <3> QED
      BY <2>4, <3>2, <3>3
  <2>6. CASE Ad /\ q \in Lagged
    <3>1. Rotated(steps + 1)
      BY <2>1, <2>6 DEF Turns
    <3>2. CASE (steps + 1) % 3 = 0
      BY <2>1, <2>2, <2>6, <3>1, <3>2 DEF Rotated, Three
    <3>3. CASE (steps + 1) % 3 # 0
      <4>1. ptr[<<q, "out">>] = <<q, "in">> \/ ptr[<<q, "lag">>] = <<q, "in">>
        BY <2>4, <2>6, <3>1, <3>3 DEF Rotated, Three
      <4>2. mem[<<q, "in">>] # Level(q, steps + 1, "state")
        BY <2>3, <2>4, <2>6, <4>1
      <4> QED
        BY <2>1, <2>6, <3>3, <4>2
    <3> QED
      BY <3>2, <3>3
  <2>7. CASE Ad /\ q = "rho"
    <3>1. Alternated({"rho"}, steps + 1)
      BY <2>1, <2>7 DEF Turns
    <3>2. CASE (steps + 1) % 2 = 0
      BY <2>1, <2>2, <2>7, <3>1, <3>2 DEF Alternated, Two
    <3>3. CASE (steps + 1) % 2 = 1
      <4>1. ptr[<<q, "out">>] = <<q, "in">>
        BY <2>7, <2>1, <3>1, <3>3 DEF Alternated, Two
      <4>2. mem[<<q, "in">>] # Level(q, steps + 1, "state")
        BY <2>3, <2>4, <4>1
      <4> QED
        BY <2>1, <2>7, <3>3, <4>2
    <3> QED
      BY <2>4, <3>2, <3>3
  <2>8. CASE Ad /\ q \in Paired \ {"rho"}
    <3>1. Alternated(Paired \ {"rho"}, 0)
      BY <2>1, <2>8 DEF Turns
    <3> QED
      BY <2>1, <2>2, <2>4, <2>8, <3>1 DEF Alternated, Two
  <2> QED
    BY <2>1, <2>5, <2>6, <2>7, <2>8
<1> QED
  BY <1>1, Inductive, TurnsAlways, FreshAlways, PTL
=============================================================================
