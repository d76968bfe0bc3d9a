------------------------ MODULE EventScheduler_proofs ------------------------
(***************************************************************************)
(* Theorems about EventScheduler, for any number of events, any timetables *)
(* and either C++ dialect, checked by TLAPS.                               *)
(***************************************************************************)
EXTENDS EventScheduler, TLAPS

(* The slots past the end still point to the last event, or to nothing in  *)
(* a build where it was moved out of them.                                 *)
StaleSlots ==
  \A i \in Events :
    i > size => slots[i] = NbEvents \/ (MoveAssign /\ slots[i] = Null)

(* A pass erases at most once per turn: after cur - 1 turns at least       *)
(* last - (cur - 1) elements are left.                                     *)
PassBounds ==
  InPass => /\ size <= last
            /\ cur <= last + 1
            /\ size + (cur - 1) >= last

StorageInv == TypeOK /\ ListIsSuffix /\ StaleSlots /\ PassBounds

USE DEF Events, Null

-----------------------------------------------------------------------------

(* Ticked and ZeroClock are clocks. *)
LEMMA ClocksClosed ==
  /\ ZeroClock \in Clocks
  /\ \A c \in Clocks, dt \in Nat : Ticked(c, dt) \in Clocks
BY DEF ZeroClock, Clocks, Ticked

(* The storage after an erasure from a vector that is not empty. *)
LEMMA EraseKeepsStorage ==
  ASSUME TypeOK, ListIsSuffix, StaleSlots,
         size >= 1, EraseFirst
  PROVE  /\ slots' \in [Events -> Events \cup {Null}]
         /\ size' \in 0 .. NbEvents
         /\ size' = size - 1
         /\ ListIsSuffix'
         /\ StaleSlots'
<1>1. size \in 1 .. NbEvents /\ size' = size - 1 /\ NbEvents \in Nat
  BY SchedulerAssumption DEF TypeOK, EraseFirst
<1>2. \A i \in Events : i < size => slots'[i] = slots[i + 1] /\ i + 1 \in Events
  BY <1>1 DEF EraseFirst
<1>3. \A i \in Events :
        i >= size => slots'[i] = slots[i] \/ (MoveAssign /\ slots'[i] = Null)
  BY <1>1 DEF EraseFirst
<1>4. slots' \in [Events -> Events \cup {Null}]
  <2>1. DOMAIN slots' = Events /\ slots' = [i \in Events |-> slots'[i]]
    BY DEF EraseFirst
  <2>2. \A i \in Events : slots'[i] \in Events \cup {Null}
    BY <1>1, <1>2, <1>3 DEF TypeOK
  <2> QED BY <2>1, <2>2
<1>5. ListIsSuffix'
  BY <1>1, <1>2 DEF ListIsSuffix
<1>6. StaleSlots'
  <2> SUFFICES ASSUME NEW i \in Events, i > size - 1
               PROVE  slots'[i] = NbEvents \/ (MoveAssign /\ slots'[i] = Null)
    BY <1>1 DEF StaleSlots
  <2>1. slots'[i] = slots[i] \/ (MoveAssign /\ slots'[i] = Null)
    BY <1>1, <1>3
  <2>2. CASE i > size
    BY <2>1, <2>2 DEF StaleSlots
  <2>3. CASE i = size
    BY <1>1, <2>1, <2>3 DEF ListIsSuffix
  <2> QED BY <1>1, <2>2, <2>3
<1> QED BY <1>1, <1>4, <1>5, <1>6

(* The type of what a turn does to one event. *)
LEMMA ExecuteTyped ==
  ASSUME TypeOK, NEW e \in Events, Execute(e) \/ UNCHANGED trace
  PROVE  mark' \in [Events -> Clocks] /\ fired' \in [Events -> Nat]
<1>1. CASE Execute(e)
  BY <1>1 DEF TypeOK, Execute
<1>2. CASE UNCHANGED trace
  BY <1>2 DEF TypeOK, trace
<1> QED BY <1>1, <1>2

LEMMA LocalTyped ==
  ASSUME TypeOK, NEW e \in Events,
         \/ local' = [local EXCEPT ![e] = Ticked(@, 0)]
         \/ local' = [local EXCEPT ![e] = ZeroClock]
         \/ UNCHANGED local
  PROVE  local' \in [Events -> Clocks]
<1>1. local \in [Events -> Clocks]
  BY DEF TypeOK
<1>2. Ticked(local[e], 0) \in Clocks /\ ZeroClock \in Clocks
  BY <1>1, ClocksClosed
<1> QED BY <1>1, <1>2

(* The tail of a turn, during a pass that is not over. *)
LEMMA RetireKeepsStorage ==
  ASSUME StorageInv, InPass, cur <= last,
         NEW over \in BOOLEAN, Retire(over)
  PROVE  /\ slots' \in [Events -> Events \cup {Null}]
         /\ size' \in 0 .. NbEvents
         /\ cur' \in 1 .. NbEvents + 1
         /\ ListIsSuffix' /\ StaleSlots' /\ PassBounds'
<1>1. /\ size \in 0 .. NbEvents /\ cur \in 1 .. NbEvents + 1
      /\ last \in 0 .. NbEvents /\ NbEvents \in Nat
  BY SchedulerAssumption DEF StorageInv, TypeOK
<1>2. size >= 1
  BY <1>1 DEF StorageInv, PassBounds
<1>3. cur' = cur + 1 /\ last' = last /\ pc' = pc
  BY DEF Retire
<1>4. CASE over
  <2>1. EraseFirst
    BY <1>4 DEF Retire
  <2>2. /\ slots' \in [Events -> Events \cup {Null}]
        /\ size' \in 0 .. NbEvents /\ size' = size - 1
        /\ ListIsSuffix' /\ StaleSlots'
    BY <1>2, <2>1, EraseKeepsStorage DEF StorageInv
  <2>3. PassBounds'
    BY <1>1, <1>3, <2>2 DEF StorageInv, PassBounds, InPass
  <2> QED BY <1>1, <1>3, <2>2, <2>3
<1>5. CASE ~over
  <2>1. slots' = slots /\ size' = size
    BY <1>5 DEF Retire, vector
  <2>2. ListIsSuffix' /\ StaleSlots'
    BY <2>1 DEF StorageInv, ListIsSuffix, StaleSlots
  <2>3. PassBounds'
    BY <1>1, <1>3, <2>1 DEF StorageInv, PassBounds, InPass
  <2> QED BY <1>1, <1>3, <2>1, <2>2, <2>3 DEF StorageInv, TypeOK
<1> QED BY <1>4, <1>5

(* A turn of any of the three passes keeps the invariant. *)
LEMMA VisitKeepsStorage == StorageInv /\ Visit => StorageInv'
<1> SUFFICES ASSUME StorageInv, Visit
             PROVE  StorageInv'
  OBVIOUS
<1> DEFINE e == slots[cur]
<1>1. InPass /\ cur <= last /\ e # Null
  BY DEF Visit
<1>2. cur \in Events /\ e \in Events
  BY SchedulerAssumption, <1>1 DEF StorageInv, TypeOK
<1>3. \E over \in BOOLEAN : Retire(over)
  <2>1. (VisitPre(e) \/ VisitPost(e) \/ VisitRun(e))
    BY DEF Visit
  <2>2. CASE VisitPre(e)
    BY <2>2 DEF VisitPre, IsFinished
  <2>3. CASE VisitPost(e)
    BY <2>3 DEF VisitPost, IsFinished
  <2>4. CASE VisitRun(e)
    BY <2>4 DEF VisitRun, IsFinished
  <2> QED BY <2>1, <2>2, <2>3, <2>4
<1>4. PICK over \in BOOLEAN : Retire(over)
  BY <1>3
<1>5. /\ slots' \in [Events -> Events \cup {Null}]
      /\ size' \in 0 .. NbEvents
      /\ cur' \in 1 .. NbEvents + 1
      /\ ListIsSuffix' /\ StaleSlots' /\ PassBounds'
  BY <1>1, <1>4, RetireKeepsStorage
<1>6. /\ Execute(e) \/ UNCHANGED trace
      /\ \/ local' = [local EXCEPT ![e] = Ticked(@, 0)]
         \/ local' = [local EXCEPT ![e] = ZeroClock]
         \/ UNCHANGED local
  BY DEF Visit, VisitPre, VisitPost, VisitRun
<1>7. mark' \in [Events -> Clocks] /\ fired' \in [Events -> Nat]
  BY <1>2, <1>6, ExecuteTyped DEF StorageInv
<1>8. local' \in [Events -> Clocks]
  BY <1>2, <1>6, LocalTyped DEF StorageInv
<1>9. TypeOK'
  BY <1>4, <1>5, <1>7, <1>8 DEF StorageInv, TypeOK, Retire, config
<1> QED BY <1>5, <1>9 DEF StorageInv

(* A pass begins with its bounds. *)
LEMMA BeginPassBounds ==
  ASSUME StorageInv, NEW where \in Pcs,
         BeginPass(where), UNCHANGED vector
  PROVE  /\ pc' \in Pcs /\ cur' \in 1 .. NbEvents + 1 /\ last' \in 0 .. NbEvents
         /\ fired' \in [Events -> Nat]
         /\ ListIsSuffix' /\ StaleSlots' /\ PassBounds'
BY SchedulerAssumption DEF BeginPass, StorageInv, TypeOK, ListIsSuffix, StaleSlots, PassBounds,
       InPass, vector

LEMMA StorageInvariant == Spec => []StorageInv
<1>1. Init => StorageInv
  BY SchedulerAssumption, ClocksClosed DEF Init, StorageInv, TypeOK, ListIsSuffix, StaleSlots,
     PassBounds, Pcs
<1>2. StorageInv /\ [Next]_vars => StorageInv'
  <2> SUFFICES ASSUME StorageInv, [Next]_vars PROVE StorageInv'
    OBVIOUS
  <2>1. CASE Visit
    BY <2>1, VisitKeepsStorage
  <2>2. CASE Segfault
    BY <2>2 DEF Segfault, StorageInv, TypeOK, ListIsSuffix, StaleSlots,
       PassBounds, InPass, Pcs, vars, config, vector, trace
  <2>3. CASE EndPre
    BY <2>3, BeginPassBounds
       DEF EndPre, Pcs, StorageInv, TypeOK, config, vector
  <2>4. CASE EndPass
    BY <2>4 DEF EndPass, StorageInv, TypeOK, ListIsSuffix, StaleSlots,
       PassBounds, InPass, Pcs, vars, config, vector, trace
  <2>5. CASE Iterate
    <3>1. PICK dt \in TimeSteps :
            /\ clock' = Ticked(clock, dt)
            /\ local' = [e \in Events |->
                 IF e \in Listed THEN Ticked(local[e], dt) ELSE local[e]]
      BY <2>5 DEF Iterate
    <3>2. dt \in Nat
      BY SchedulerAssumption

    <3>3. clock' \in Clocks /\ local' \in [Events -> Clocks]
      BY <3>1, <3>2, ClocksClosed DEF StorageInv, TypeOK
    <3> QED BY <2>5, <3>3, BeginPassBounds
            DEF Iterate, Pcs, StorageInv, TypeOK, config, vector
  <2>6. CASE Stop
    BY <2>6 DEF Stop, StorageInv, TypeOK, ListIsSuffix, StaleSlots,
       PassBounds, InPass, Pcs, vars, config, vector, trace
  <2>7. CASE UNCHANGED vars
    BY <2>7 DEF StorageInv, TypeOK, ListIsSuffix, StaleSlots,
       PassBounds, InPass, Pcs, vars, config, vector, trace
  <2> QED BY <2>1, <2>2, <2>3, <2>4, <2>5, <2>6, <2>7 DEF Next
<1> QED BY <1>1, <1>2, PTL DEF Spec

-----------------------------------------------------------------------------

(* Every variable keeps its type: local clocks and marks are clocks, the   *)
(* slots hold events or null, the size never becomes negative.             *)
THEOREM TypeCorrect == Spec => []TypeOK
<1>1. StorageInv => TypeOK
  BY DEF StorageInv
<1> QED BY <1>1, StorageInvariant, PTL

(* Only the head of the vector is ever erased, so the list is at any time  *)
(* a suffix of the file's list, in the file's order.                       *)
THEOREM SuffixAlways == Spec => []ListIsSuffix
<1>1. StorageInv => ListIsSuffix
  BY DEF StorageInv
<1> QED BY <1>1, StorageInvariant, PTL

(* What a turn finds in its slot. *)
LEMMA StorageImpliesLive == StorageInv => VisitedIsLive
<1> SUFFICES ASSUME StorageInv, InPass, cur <= last
             PROVE  /\ size >= 1
                    /\ \/ slots[cur] \in Listed
                       \/ MoveAssign /\ slots[cur] = Null
  BY DEF VisitedIsLive
<1>1. /\ size \in 0 .. NbEvents /\ cur \in 1 .. NbEvents + 1
      /\ last \in 0 .. NbEvents /\ NbEvents \in Nat
  BY SchedulerAssumption DEF StorageInv, TypeOK
<1>2. size >= 1
  BY <1>1 DEF StorageInv, PassBounds
<1>3. CASE cur <= size
  BY <1>1, <1>2, <1>3 DEF Listed
<1>4. CASE cur > size
  <2>1. slots[size] = NbEvents
    BY <1>1, <1>2 DEF StorageInv, ListIsSuffix
  <2>2. NbEvents \in Listed
    BY <1>1, <1>2, <2>1 DEF Listed
  <2> QED BY <1>1, <1>2, <1>4, <2>2 DEF StorageInv, StaleSlots
<1> QED BY <1>1, <1>2, <1>3, <1>4

(* No pass erases from an empty vector or visits a destroyed event,        *)
(* although its end iterator is older than its erasures.                   *)
THEOREM LiveVisits == Spec => []VisitedIsLive
<1> QED BY StorageInvariant, StorageImpliesLive, PTL

-----------------------------------------------------------------------------

(* A null pointer is only met in a pass that erased something: the slots   *)
(* of the list hold events, and those past its end lie before the cached   *)
(* end only when the list has shrunk since the pass began.                 *)
THEOREM CrashOnlyAfterErasure == Spec => []CrashNeedsErasure
<1>1. Init => CrashNeedsErasure
  BY DEF Init, CrashNeedsErasure
<1>2. StorageInv /\ CrashNeedsErasure /\ [Next]_vars => CrashNeedsErasure'
  <2> SUFFICES ASSUME StorageInv, CrashNeedsErasure, [Next]_vars PROVE CrashNeedsErasure'
    OBVIOUS
  <2>1. CASE Segfault
    <3>1. /\ size \in 0 .. NbEvents /\ cur \in 1 .. NbEvents + 1 /\ last \in 0 .. NbEvents
          /\ NbEvents \in Nat /\ cur <= last /\ slots[cur] = Null
      BY <2>1, SchedulerAssumption DEF Segfault, StorageInv, TypeOK
    <3>2. cur > size
      BY <3>1 DEF StorageInv, ListIsSuffix
    <3>3. MoveAssign
      BY <3>1, <3>2 DEF StorageInv, StaleSlots
    <3> QED BY <2>1, <3>1, <3>2, <3>3 DEF Segfault, CrashNeedsErasure, vector
  <2>2. CASE Visit \/ EndPre \/ EndPass \/ Iterate \/ Stop
    BY <2>2 DEF CrashNeedsErasure, InPass, Visit, VisitPre, VisitPost, VisitRun, Retire, EndPre,
       EndPass, Iterate, Stop, BeginPass
  <2>3. CASE UNCHANGED vars
    BY <2>3 DEF CrashNeedsErasure, vars, vector
  <2> QED BY <2>1, <2>2, <2>3 DEF Next
<1> QED BY <1>1, <1>2, StorageInvariant, PTL DEF Spec

-----------------------------------------------------------------------------

(* While every event outlives the simulation, no pass finds one finished:  *)
(* the clock is at most one iteration past the simulation's last one.      *)
OrderlyInv ==
  OrderlyConfig /\ clock.time <= INFTY =>
    /\ clock.iter <= sim.iend + 1
    /\ size = NbEvents
    /\ pc # "segv"

(* If every event outlives the simulation, nothing is ever erased and no   *)
(* null pointer is met.                                                    *)
THEOREM NothingRemoved == Spec => []NothingRemovedEarly
<1>1. Init => OrderlyInv
  BY SchedulerAssumption
     DEF Init, OrderlyInv, OrderlyConfig, TimetableRecords, Clocks
<1>2. StorageInv /\ OrderlyInv /\ [Next]_vars => OrderlyInv'
  <2> SUFFICES ASSUME StorageInv, OrderlyInv, [Next]_vars,
                      OrderlyConfig', clock'.time <= INFTY
               PROVE  /\ clock'.iter <= sim'.iend + 1
                      /\ size' = NbEvents /\ pc' # "segv"
    BY DEF OrderlyInv
  <2>1. sim' = sim /\ table' = table /\ origin' = origin
    BY DEF Next, Visit, VisitPre, VisitPost, VisitRun, Retire, Segfault, EndPre,
       EndPass, Iterate, Stop, vars, config
  <2>2. OrderlyConfig
    BY <2>1 DEF OrderlyConfig, Outlives
  <2>3. /\ clock.time \in Nat /\ clock.iter \in Nat /\ INFTY \in Nat
        /\ sim.iend \in Nat /\ NbEvents \in Nat
    BY InfinityAssumption, SchedulerAssumption
       DEF StorageInv, TypeOK, Clocks, TimetableRecords
  <2>4. CASE Iterate
    <3>1. PICK dt \in TimeSteps : clock' = Ticked(clock, dt)
      BY <2>4 DEF Iterate
    <3>2. dt \in Nat /\ clock'.time = clock.time + dt /\ clock'.iter = clock.iter + 1
      BY <3>1, SchedulerAssumption DEF Ticked
    <3>3. clock.iter <= sim.iend
      BY <2>3, <2>4 DEF Iterate, IsFinished
    <3>4. size = NbEvents
      BY <2>2, <2>3, <3>2 DEF OrderlyInv
    <3> QED BY <2>1, <2>3, <2>4, <3>2, <3>3, <3>4
            DEF Iterate, BeginPass, vector
  <2>5. CASE ~Iterate
    <3>1. clock' = clock
      BY <2>5 DEF Next, Visit, VisitPre, VisitPost, VisitRun, Retire, Segfault,
         EndPre, EndPass, Stop, vars
    <3>2. clock.iter <= sim.iend + 1 /\ size = NbEvents /\ pc # "segv"
      BY <2>2, <3>1 DEF OrderlyInv
    <3>3. \A i \in Events : slots[i] = i
      BY <2>3, <3>2 DEF StorageInv, ListIsSuffix
    <3>4. \A e \in Events : ~IsFinished(table[e], clock)
      <4> SUFFICES ASSUME NEW e \in Events PROVE ~IsFinished(table[e], clock)
        OBVIOUS
      <4>1. table[e].iend >= sim.iend + 1 /\ table[e].end = INFTY
        BY <2>2 DEF OrderlyConfig, Outlives
      <4>2. table[e].iend \in Nat
        BY DEF StorageInv, TypeOK, TimetableRecords
      <4> QED BY <2>3, <3>1, <3>2, <4>1, <4>2 DEF IsFinished
    <3>5. CASE Visit
      <4>1. cur \in Events /\ slots[cur] \in Events
        BY <2>3, <3>3, <3>5 DEF Visit, StorageInv, TypeOK
      <4>2. UNCHANGED vector /\ pc' = pc
        BY <3>4, <3>5, <4>1 DEF Visit, VisitPre, VisitPost, VisitRun, Retire
      <4> QED BY <2>1, <3>1, <3>2, <4>2 DEF vector
    <3>6. ~Segfault
      BY <2>3, <3>3 DEF Segfault, StorageInv, TypeOK
    <3>7. CASE EndPre \/ EndPass \/ Stop \/ UNCHANGED vars
      BY <2>1, <3>1, <3>2, <3>7
         DEF EndPre, EndPass, Stop, BeginPass, vars, vector
    <3> QED BY <2>5, <3>5, <3>6, <3>7 DEF Next
  <2> QED BY <2>4, <2>5
<1>3. OrderlyInv => NothingRemovedEarly
  BY DEF OrderlyInv, NothingRemovedEarly
<1> QED BY <1>1, <1>2, <1>3, StorageInvariant, PTL DEF Spec

-----------------------------------------------------------------------------

(* During Init no POST event's local clock has moved, and none executed at *)
(* another clock than the one Load read.                                   *)
PostInInit ==
  pc \in {"pre", "post"} =>
    /\ clock = origin
    /\ \A e \in Events :
         type[e] = "POST" => local[e] = ZeroClock /\ mark[e] = origin

PostInv == PostInInit /\ PostLocalClock

(* The vector only loses events in a step. *)
LEMMA ListedShrinks ==
  ASSUME StorageInv, [Next]_vars
  PROVE  Listed' \subseteq Listed /\ Listed \subseteq Events
<1>1. size \in 0 .. NbEvents /\ NbEvents \in Nat
  BY SchedulerAssumption DEF StorageInv, TypeOK
<1>2. Listed \subseteq Events
  <2>1. \A i \in 1 .. size : slots[i] \in Events
    BY <1>1 DEF StorageInv, ListIsSuffix
  <2> QED BY <2>1 DEF Listed
<1>3. CASE UNCHANGED vector
  BY <1>2, <1>3 DEF Listed, vector
<1>4. CASE EraseFirst /\ size >= 1
  <2>1. size' = size - 1
    BY <1>4 DEF EraseFirst
  <2>2. \A i \in 1 .. size - 1 : slots'[i] = slots[i + 1]
    BY <1>1, <1>4 DEF EraseFirst
  <2>3. \A i \in 1 .. size - 1 : i + 1 \in 1 .. size
    BY <1>1
  <2>4. \A i \in 1 .. size - 1 : slots'[i] \in Listed
    BY <2>2, <2>3 DEF Listed
  <2>5. Listed' \subseteq Listed
    BY <2>1, <2>4 DEF Listed
  <2> QED BY <1>2, <2>5
<1>5. UNCHANGED vector \/ (EraseFirst /\ size >= 1)
  <2>1. Visit => size >= 1
    BY <1>1 DEF Visit, StorageInv, TypeOK, PassBounds
  <2> QED BY <2>1 DEF Next, Visit, VisitPre, VisitPost, VisitRun, Retire,
             Segfault, EndPre, EndPass, Iterate, Stop, vars
<1> QED BY <1>2, <1>3, <1>4, <1>5

(* A turn finds an event of the list, whatever slot it reads. *)
LEMMA VisitedListed ==
  ASSUME StorageInv, Visit
  PROVE  slots[cur] \in Listed
<1>1. VisitedIsLive /\ slots[cur] # Null
  BY StorageImpliesLive DEF Visit
<1> QED BY <1>1 DEF VisitedIsLive, Visit

LEMMA PostInvStep == StorageInv /\ PostInv /\ [Next]_vars => PostInv'
<1> SUFFICES ASSUME StorageInv, PostInv, [Next]_vars PROVE PostInv'
  OBVIOUS
<1> DEFINE e == slots[cur]
<1>1. Listed' \subseteq Listed /\ Listed \subseteq Events
  BY ListedShrinks
<1>2. TypeOK
  BY DEF StorageInv
<1>3. /\ clock.iter \in Nat /\ clock.time \in Nat
      /\ \A p \in Events : mark[p].iter \in Nat /\ mark[p].time \in Nat
      /\ \A p \in Events : local[p].iter \in Nat /\ local[p].time \in Nat
  BY <1>2 DEF TypeOK, Clocks
<1>4. ASSUME Visit, pc = "pre" PROVE PostInv'
  <2>1. VisitPre(e) /\ e \in Events
    BY <1>1, <1>4, VisitedListed DEF Visit
  <2>2. \A p \in Events : type[p] = "POST" => UNCHANGED <<local[p], mark[p]>>
    BY <1>2, <2>1 DEF VisitPre, Execute, trace, TypeOK
  <2>3. UNCHANGED <<type, origin, clock, pc>>
    BY <2>1 DEF VisitPre, Retire, config
  <2> QED BY <1>1, <2>2, <2>3 DEF PostInv, PostInInit, PostLocalClock
<1>5. ASSUME Visit, pc = "post" PROVE PostInv'
  <2>1. VisitPost(e) /\ e \in Events
    BY <1>1, <1>5, VisitedListed DEF Visit
  <2>2. UNCHANGED <<type, origin, clock, pc, local>>
    BY <2>1 DEF VisitPost, Retire, config
  <2>3. \A p \in Events : type[p] = "POST" => mark'[p] = origin
    BY <1>2, <1>5, <2>1 DEF VisitPost, Execute, trace, TypeOK, PostInv, PostInInit
  <2> QED BY <1>1, <1>3, <1>5, <2>2, <2>3
          DEF PostInv, PostInInit, PostLocalClock, ZeroClock
<1>6. ASSUME Visit, pc = "visit" PROVE PostInv'
  <2>1. VisitRun(e) /\ e \in Events
    BY <1>1, <1>6, VisitedListed DEF Visit
  <2>2. UNCHANGED <<type, clock, pc>>
    BY <2>1 DEF VisitRun, Retire, config
  <2>3. \A p \in Events : \/ UNCHANGED <<local[p], mark[p]>>
                          \/ local'[p] = ZeroClock /\ mark'[p] = clock
    BY <1>2, <2>1 DEF VisitRun, Execute, trace, TypeOK
  <2> QED BY <1>1, <1>3, <1>6, <2>2, <2>3
          DEF PostInv, PostInInit, PostLocalClock, ZeroClock
<1>7. ASSUME Iterate PROVE PostInv'
  <2>1. PICK dt \in TimeSteps :
          /\ clock' = Ticked(clock, dt)
          /\ local' = [p \in Events |->
               IF p \in Listed THEN Ticked(local[p], dt) ELSE local[p]]
    BY <1>7 DEF Iterate
  <2>2. dt \in Nat
    BY SchedulerAssumption
  <2>3. UNCHANGED <<type, mark>> /\ pc' = "visit"
    BY <1>7 DEF Iterate, BeginPass, config
  <2>4. /\ clock'.iter = clock.iter + 1 /\ clock'.time = clock.time + dt
        /\ \A p \in Listed : /\ local'[p].iter = local[p].iter + 1
                             /\ local'[p].time = local[p].time + dt
    BY <1>1, <2>1 DEF Ticked
  <2> QED BY <1>1, <1>3, <2>2, <2>3, <2>4
          DEF PostInv, PostInInit, PostLocalClock
<1>8. ASSUME \/ Segfault \/ EndPre \/ EndPass \/ Stop \/ UNCHANGED vars
      PROVE PostInv'
  <2>1. /\ UNCHANGED <<type, origin, clock, local, mark>>
        /\ pc' \in {"pre", "post"} => pc \in {"pre", "post"}
    BY <1>8 DEF Segfault, EndPre, EndPass, Stop, BeginPass, vars, config, trace
  <2> QED BY <1>1, <2>1 DEF PostInv, PostInInit, PostLocalClock
<1> QED BY <1>4, <1>5, <1>6, <1>7, <1>8 DEF Next, Visit

LEMMA PostInvariant == Spec => []PostInv
<1>1. Init => PostInv
  <2> SUFFICES ASSUME Init PROVE PostInv
    OBVIOUS
  <2>1. \A e \in Listed : e \in Events
    BY SchedulerAssumption DEF Init, Listed
  <2>2. origin.iter \in Nat /\ origin.time \in Nat
    BY SchedulerAssumption DEF Init, Clocks
  <2> QED BY <2>1, <2>2
          DEF Init, PostInv, PostInInit, PostLocalClock, ZeroClock
<1> QED BY <1>1, PostInvStep, StorageInvariant, PTL DEF Spec

(* The local clock of a listed POST event measures the time and iterations *)
(* since it last executed, whatever was erased or visited twice.           *)
THEOREM PostLocalClockHolds == Spec => []PostLocalClock
<1>1. PostInv => PostLocalClock
  BY DEF PostInv
<1> QED BY <1>1, PostInvariant, PTL

-----------------------------------------------------------------------------

(* The abstract state of the contract: the POST events and their marks. *)
LEMMA VisitOfOther ==
  ASSUME Listed' \subseteq Listed, UNCHANGED <<type, table, clock>>,
         \A p \in Events : type[p] = "POST" => mark'[p] = mark[p]
  PROVE  Contract!Withdraw
<1>1. {e \in Listed : type[e] = "POST"}' \subseteq {e \in Listed : type[e] = "POST"}
  OBVIOUS
<1>2. [e \in {p \in Events : type[p] = "POST"} |-> mark[e]]'
        = [e \in {p \in Events : type[p] = "POST"} |-> mark[e]]
  OBVIOUS
<1> QED BY <1>1, <1>2 DEF Contract!Withdraw

(* A POST event of the list that executes because its timetable says so. *)
LEMMA VisitOfOutput ==
  ASSUME TypeOK, PostLocalClock, Listed' \subseteq Listed,
         UNCHANGED <<type, table, clock>>,
         NEW e \in Listed, e \in Events, type[e] = "POST", HappensNow(e),
         mark' = [mark EXCEPT ![e] = clock]
  PROVE  \E p \in Contract!Posts : Contract!Output(p)
<1> DEFINE posts == {p \in Events : type[p] = "POST"}
           abstract == [p \in posts |-> mark[p]]
<1>1. e \in Contract!Posts /\ e \in posts
  BY DEF Contract!Posts
<1>2. InWindow(table[e], clock)
  BY DEF HappensNow, Happens
<1>3. /\ local[e].iter = clock.iter - mark[e].iter
      /\ local[e].time = clock.time - mark[e].time
  BY DEF PostLocalClock
<1>4. /\ clock.iter \in Nat /\ clock.time \in Nat
      /\ mark[e].iter \in Nat /\ mark[e].time \in Nat
      /\ table[e].istep \in Nat /\ table[e].step \in Nat
  BY DEF TypeOK, Clocks, TimetableRecords
<1>5. abstract[e] = mark[e]
  BY <1>1
<1>6. Contract!Due(e)
  BY <1>3, <1>4, <1>5 DEF HappensNow, Happens, Contract!Due, Contract!Elapsed
<1>7. abstract' = [abstract EXCEPT ![e] = clock]
  <2>1. \A p \in posts : mark'[p] = IF p = e THEN clock ELSE mark[p]
    BY DEF TypeOK
  <2> QED BY <1>1, <2>1
<1>8. {p \in Listed : type[p] = "POST"}' \subseteq {p \in Listed : type[p] = "POST"}
  OBVIOUS
<1>9. Contract!Output(e)
  BY <1>1, <1>2, <1>6, <1>7, <1>8 DEF Contract!Output, Contract!InWindow, InWindow
<1> QED BY <1>1, <1>9

(* Every step of the scheduler is a step of the contract or a stutter. *)
LEMMA StepsImplementContract ==
  StorageInv /\ PostInv /\ [Next]_vars => [Contract!Next]_(Contract!vars)
<1> SUFFICES ASSUME StorageInv, PostInv, [Next]_vars
             PROVE  Contract!Next \/ UNCHANGED Contract!vars
  OBVIOUS
<1> DEFINE e == slots[cur]
<1>1. Listed' \subseteq Listed /\ Listed \subseteq Events
  BY ListedShrinks
<1>2. TypeOK /\ PostLocalClock
  BY DEF StorageInv, PostInv
<1>3. CASE Visit
  <2>1. e \in Listed /\ e \in Events
    BY <1>1, <1>3, VisitedListed
  <2>2. UNCHANGED <<type, table, clock>>
    BY <1>3 DEF Visit, VisitPre, VisitPost, VisitRun, Retire, config
  <2>3. \/ mark' = mark
        \/ mark' = [mark EXCEPT ![e] = clock] /\ type[e] = "PRE"
        \/ mark' = [mark EXCEPT ![e] = clock] /\ type[e] = "POST" /\ HappensNow(e)
    <3>1. type[e] = "PRE" \/ type[e] = "POST"
      BY <1>2, <2>1 DEF TypeOK
    <3> QED BY <1>3, <3>1
            DEF Visit, VisitPre, VisitPost, VisitRun, Execute, trace
  <2>4. ASSUME \/ mark' = mark
               \/ mark' = [mark EXCEPT ![e] = clock] /\ type[e] = "PRE"
        PROVE  Contract!Next
    <3>1. \A p \in Events : type[p] = "POST" => mark'[p] = mark[p]
      BY <1>2, <2>4 DEF TypeOK
    <3> QED BY <1>1, <2>2, <3>1, VisitOfOther DEF Contract!Next
  <2>5. ASSUME mark' = [mark EXCEPT ![e] = clock], type[e] = "POST", HappensNow(e)
        PROVE  Contract!Next
    BY <1>1, <1>2, <2>1, <2>2, <2>5, VisitOfOutput DEF Contract!Next
  <2> QED BY <2>3, <2>4, <2>5
<1>4. CASE Iterate
  <2>1. PICK dt \in TimeSteps : clock' = Ticked(clock, dt)
    BY <1>4 DEF Iterate
  <2>2. clock'.iter = clock.iter + 1 /\ clock'.time >= clock.time
    <3>1. dt \in Nat /\ clock.time \in Nat
      BY <1>2, SchedulerAssumption DEF TypeOK, Clocks
    <3> QED BY <2>1, <3>1 DEF Ticked
  <2>3. UNCHANGED <<type, table, mark, slots, size>>
    BY <1>4 DEF Iterate, config, vector
  <2> QED BY <2>2, <2>3 DEF Contract!Next, Contract!Tick, Listed
<1>5. CASE Segfault \/ EndPre \/ EndPass \/ Stop \/ UNCHANGED vars
  <2>1. UNCHANGED <<type, table, clock, mark, slots, size>>
    BY <1>5 DEF Segfault, EndPre, EndPass, Stop, vars, config, vector, trace
  <2> QED BY <2>1 DEF Contract!vars, Listed
<1> QED BY <1>3, <1>4, <1>5 DEF Next

(* The event list, with its storage, its cached end iterators and its      *)
(* local clocks, implements the contract of the POST events: they execute  *)
(* in their window, spaced by istep or step, and never after they left.    *)
THEOREM ImplementsContract == Spec => ContractSpec
<1>1. Init => Contract!Init
  <2> SUFFICES ASSUME Init PROVE Contract!Init
    OBVIOUS
  <2>1. Listed = Events
    BY SchedulerAssumption DEF Init, Listed
  <2> QED BY <2>1 DEF Init, Contract!Init, Contract!Posts
<1> QED BY <1>1, StepsImplementContract, StorageInvariant, PostInvariant, PTL
        DEF Spec, ContractSpec, Contract!Spec

-----------------------------------------------------------------------------
(* The closed form of the schedule, for any timetables, time steps and     *)
(* start clock: an event without time limits executes at the multiples of  *)
(* its istep, once per pass, as long as nothing was erased.                *)

(* The iterations an event has counted, and its place in a period. *)
Steps(e)     == clock.iter - (origin.iter - Lead(e))
Remainder(e) == Steps(e) % table[e].istep

(* The window opens after the first multiple: the local clock is past      *)
(* istep by then, and the equality test of Happens never holds again.      *)
OpensLate(e) == table[e].istart > (origin.iter - Lead(e)) + table[e].istep

(* What the local clock of an event counts, in closed form. *)
LocalPhase(e) ==
  IF pc = "pre" THEN IF e < cur THEN Lead(e) ELSE 0
  ELSE IF OpensLate(e) THEN Steps(e)
  ELSE IF pc = "visit" /\ e >= cur /\ Remainder(e) = 0 THEN table[e].istep
  ELSE Remainder(e)

ClockInv ==
  /\ clock.iter >= origin.iter
  /\ pc \in {"pre", "post"} => clock = origin
  /\ pc = "visit" => clock.iter > origin.iter
  /\ pc = "run" => cur > last /\ last >= size
  /\ \A e \in Events : local[e].time <= clock.time

(* An event whose window has not closed keeps the closed form; whether it  *)
(* is executed in a pass is decided when the pass has visited it.          *)
EventPhase(e) ==
  /\ table[e].istep > 1 /\ clock.iter <= table[e].iend =>
       local[e].iter = LocalPhase(e)
  /\ pc \in {"visit", "run"} /\ clock.iter > origin.iter =>
       fired[e] = IF e < cur /\ Scheduled(e) THEN 1 ELSE 0

Watching == size = NbEvents /\ pc \in {"pre", "post", "visit", "run"}

PhaseInv == Watching => \A e \in Events : NoTimeLimits(e) => EventPhase(e)

-----------------------------------------------------------------------------

(* Division with remainder by a step that is a variable. *)
LEMMA Division ==
  ASSUME NEW s \in Nat, s > 0, NEW n \in Int
  PROVE  n \div s \in Int /\ n % s \in 0 .. s - 1 /\ n = (s * (n \div s)) + (n % s)
BY SMTT(20)

LEMMA MultipleAtLeast ==
  ASSUME NEW s \in Nat, s > 0, NEW k \in Int
  PROVE  (k >= 1 => s * k >= s) /\ (k <= -1 => s * k <= -s)
BY SMTT(20)

LEMMA RemainderUnique ==
  ASSUME NEW s \in Nat, s > 0,
         NEW q \in Int, NEW p \in Int, NEW r \in 0 .. s - 1, NEW t \in 0 .. s - 1,
         (s * q) + r = (s * p) + t
  PROVE  r = t
<1>1. s * (q - p) = t - r
  BY SMTT(20)
<1>2. q - p = 0
  BY <1>1, MultipleAtLeast, SMTT(20)
<1> QED BY <1>1, <1>2, SMTT(20)

(* The remainder of the next number. *)
LEMMA NextRemainder ==
  ASSUME NEW s \in Nat, s > 0, NEW n \in Int
  PROVE  (n + 1) % s = IF n % s = s - 1 THEN 0 ELSE (n % s) + 1
<1> DEFINE q == n \div s
           p == (n + 1) \div s
           r == n % s
           t == (n + 1) % s
<1>1. n = (s * q) + r /\ q \in Int /\ r \in 0 .. s - 1
  BY Division
<1>2. n + 1 = (s * p) + t /\ p \in Int /\ t \in 0 .. s - 1
  BY Division
<1> HIDE DEF q, p, r, t
<1>3. CASE r = s - 1
  <2>1. (s * (q + 1)) + 0 = (s * p) + t
    BY <1>1, <1>2, <1>3, SMTT(20)
  <2>2. t = 0
    BY <1>1, <1>2, <2>1, RemainderUnique
  <2> QED BY <1>3, <2>2 DEF t, r
<1>4. CASE r # s - 1
  <2>1. (s * q) + (r + 1) = (s * p) + t
    BY <1>1, <1>2, SMTT(20)
  <2>2. r + 1 \in 0 .. s - 1
    BY <1>1, <1>4
  <2>3. t = r + 1
    BY <1>1, <1>2, <2>1, <2>2, RemainderUnique
  <2> QED BY <1>4, <2>3 DEF t, r
<1> QED BY <1>3, <1>4

LEMMA SmallRemainder ==
  ASSUME NEW s \in Nat, NEW n \in Nat, n < s
  PROVE  n % s = n
BY SMTT(20)

-----------------------------------------------------------------------------

(* The numbers of an event. *)
LEMMA EventNumbers ==
  ASSUME TypeOK, NEW e \in Events
  PROVE  /\ table[e].istep \in Nat /\ table[e].istart \in Nat /\ table[e].iend \in Nat
         /\ table[e].start \in Nat /\ table[e].end \in Nat /\ table[e].step \in Nat
         /\ origin.iter \in Nat /\ clock.iter \in Nat /\ clock.time \in Nat
         /\ local[e].iter \in Nat /\ local[e].time \in Nat
         /\ fired[e] \in Nat /\ e \in Nat /\ cur \in Nat /\ last \in 0 .. NbEvents
         /\ Lead(e) \in {0, 1} /\ INFTY \in Nat /\ NbEvents \in Nat
<1>1. table[e] \in TimetableRecords /\ local[e] \in Clocks /\ fired[e] \in Nat
  BY DEF TypeOK
<1>2. origin \in Clocks /\ clock \in Clocks /\ cur \in Nat /\ last \in 0 .. NbEvents
  BY SchedulerAssumption DEF TypeOK
<1>3. e \in Nat /\ INFTY \in Nat /\ NbEvents \in Nat
  BY SchedulerAssumption, InfinityAssumption
<1>4. Lead(e) \in {0, 1}
  BY DEF Lead
<1> QED BY <1>1, <1>2, <1>3, <1>4 DEF Clocks, TimetableRecords

(* What no step changes, and what only moves one way. *)
LEMMA StepFrame ==
  ASSUME StorageInv, [Next]_vars
  PROVE  /\ UNCHANGED <<type, table, sim, origin>>
         /\ size' <= size
         /\ \/ Iterate
            \/ clock' = clock
<1>1. CASE Visit
  <2>1. size \in Nat
    BY <1>1 DEF StorageInv, TypeOK
  <2>2. clock' = clock /\ UNCHANGED config
    BY <1>1 DEF Visit, VisitPre, VisitPost, VisitRun, Retire
  <2>3. size' = size - 1 \/ size' = size
    BY <1>1 DEF Visit, VisitPre, VisitPost, VisitRun, Retire, EraseFirst, vector
  <2> QED BY <2>1, <2>2, <2>3 DEF config
<1>2. CASE ~Visit
  BY <1>2 DEF Next, Segfault, EndPre, EndPass, Iterate, Stop, vars, config, vector,
     StorageInv, TypeOK
<1> QED BY <1>1, <1>2

LEMMA ClockInvStep == StorageInv /\ ClockInv /\ [Next]_vars => ClockInv'
<1> SUFFICES ASSUME StorageInv, ClockInv, [Next]_vars PROVE ClockInv'
  OBVIOUS
<1> DEFINE v == slots[cur]
<1>1. TypeOK /\ UNCHANGED <<type, table, sim, origin>>
  BY StepFrame DEF StorageInv
<1>2. /\ clock.iter \in Nat /\ clock.time \in Nat /\ origin.iter \in Nat
      /\ \A e \in Events : local[e].time \in Nat
      /\ cur \in Nat /\ last \in Nat /\ size \in Nat
  BY <1>1, SchedulerAssumption DEF TypeOK, Clocks
<1>3. CASE Visit
  <2>1. v \in Events
    BY <1>3, VisitedListed, ListedShrinks
  <2>2. \A e \in Events : local'[e].time = local[e].time \/ local'[e].time = 0
    <3>1. \/ local' = [local EXCEPT ![v] = Ticked(@, 0)]
          \/ local' = [local EXCEPT ![v] = ZeroClock]
          \/ local' = local
      BY <1>3 DEF Visit, VisitPre, VisitPost, VisitRun
    <3>2. local \in [Events -> Clocks]
      BY <1>1 DEF TypeOK
    <3>3. \A e \in Events : local'[e] \in {local[e], ZeroClock, Ticked(local[e], 0)}
      BY <3>1, <3>2
    <3>4. /\ ZeroClock.time = 0
          /\ \A e \in Events : Ticked(local[e], 0).time = local[e].time
      BY <1>2 DEF Ticked, ZeroClock
    <3> QED BY <3>3, <3>4
  <2>3. clock' = clock /\ pc' = pc /\ pc # "run"
    BY <1>3 DEF Visit, InPass, VisitPre, VisitPost, VisitRun, Retire
  <2> QED BY <1>1, <1>2, <2>2, <2>3 DEF ClockInv
<1>4. CASE Iterate
  <2>1. PICK dt \in TimeSteps :
          /\ clock' = Ticked(clock, dt)
          /\ local' = [e \in Events |->
               IF e \in Listed THEN Ticked(local[e], dt) ELSE local[e]]
    BY <1>4 DEF Iterate
  <2>2. dt \in Nat
    BY SchedulerAssumption
  <2>3. clock'.iter = clock.iter + 1 /\ clock'.time = clock.time + dt
    BY <2>1 DEF Ticked
  <2>4. \A e \in Events : \/ local'[e].time = local[e].time + dt
                          \/ local'[e].time = local[e].time
    BY <2>1 DEF Ticked
  <2>5. pc' = "visit"
    BY <1>4 DEF Iterate, BeginPass
  <2> QED BY <1>1, <1>2, <2>2, <2>3, <2>4, <2>5 DEF ClockInv
<1>5. CASE Segfault \/ EndPre \/ EndPass \/ Stop \/ UNCHANGED vars
  BY <1>1, <1>2, <1>5 DEF Segfault, EndPre, EndPass, Stop, BeginPass, vars, config,
     vector, trace, ClockInv, StorageInv, PassBounds, InPass
<1> QED BY <1>3, <1>4, <1>5 DEF Next

LEMMA ClockInvariant == Spec => []ClockInv
<1>1. Init => ClockInv
  BY SchedulerAssumption DEF Init, ClockInv, ZeroClock, Clocks
<1> QED BY <1>1, ClockInvStep, StorageInvariant, PTL DEF Spec

-----------------------------------------------------------------------------

(* One turn of a pass over a list that stays whole visits the event of its *)
(* own number and erases nothing.                                          *)
LEMMA WholeTurn ==
  ASSUME StorageInv, Visit, size' = NbEvents
  PROVE  /\ size = NbEvents /\ cur \in Events /\ slots[cur] = cur
         /\ cur' = cur + 1 /\ pc' = pc /\ clock' = clock
         /\ UNCHANGED <<type, table, sim, origin, vector>>
<1>1. size \in 0 .. NbEvents /\ NbEvents \in Nat /\ cur \in Nat /\ last \in 0 .. NbEvents
  BY SchedulerAssumption DEF StorageInv, TypeOK
<1>2. PICK over \in BOOLEAN : Retire(over)
  BY DEF Visit, VisitPre, VisitPost, VisitRun, IsFinished
<1>3. ~over
  BY <1>1, <1>2 DEF Retire, EraseFirst
<1>4. UNCHANGED vector /\ size = NbEvents
  BY <1>2, <1>3 DEF Retire, vector
<1>5. cur \in Events
  BY <1>1 DEF Visit, StorageInv, TypeOK
<1>6. slots[cur] = cur
  BY <1>1, <1>4, <1>5 DEF StorageInv, ListIsSuffix
<1> QED BY <1>2, <1>4, <1>5, <1>6 DEF Retire, config

(* When an event whose window is open happens, before it has counted past  *)
(* its step: INFTY lies after every local time.                            *)
LEMMA HappensByCount ==
  ASSUME TypeOK, ClockInv, NEW e \in Events, NoTimeLimits(e)
  PROVE  HappensNow(e) <=>
           /\ clock.iter >= table[e].istart /\ clock.iter <= table[e].iend
           /\ \/ clock.iter = 0
              \/ table[e].istep = 1
              \/ local[e].iter = table[e].istep
<1>1. local[e].time <= clock.time
  BY DEF ClockInv
<1>2. /\ clock.time >= table[e].start /\ clock.time <= table[e].end
      /\ ~(local[e].time >= table[e].step)
  BY <1>1, EventNumbers DEF NoTimeLimits
<1> QED BY <1>2 DEF HappensNow, Happens, InWindow

(* The closed form, in terms of the remainder. *)
LEMMA ScheduledByRemainder ==
  ASSUME TypeOK, NEW e \in Events, NoTimeLimits(e)
  PROVE  Scheduled(e) <=>
           /\ clock.iter >= table[e].istart /\ clock.iter <= table[e].iend
           /\ table[e].istep = 1 \/ (~OpensLate(e) /\ Remainder(e) = 0)
<1>1. clock.time >= table[e].start /\ clock.time <= table[e].end
  BY EventNumbers DEF NoTimeLimits
<1>2. OpensLate(e) <=> ~(table[e].istart <= (origin.iter - Lead(e)) + table[e].istep)
  BY EventNumbers DEF OpensLate
<1> QED BY <1>1, <1>2 DEF Scheduled, InWindow, Remainder, Steps

(* What a step leaves of the watch: a list that is whole now was whole     *)
(* before, and the timetables, the lead and the first multiple are fixed.  *)
LEMMA WatchFrame ==
  ASSUME StorageInv, ClockInv, [Next]_vars, Watching', NEW e \in Events, NoTimeLimits(e)'
  PROVE  /\ Watching /\ NoTimeLimits(e)
         /\ table'[e] = table[e] /\ origin' = origin
         /\ Lead(e)' = Lead(e) /\ OpensLate(e)' = OpensLate(e)
<1>1. UNCHANGED <<type, table, sim, origin>> /\ size' <= size
  BY StepFrame
<1>2. size = NbEvents
  BY <1>1, SchedulerAssumption DEF Watching, StorageInv, TypeOK
<1>3. pc \in {"pre", "post", "visit", "run"}
  BY DEF Watching, Next, Visit, InPass, Segfault, EndPre, EndPass, Iterate, Stop, vars
<1>4. clock'.time >= clock.time
  <2>1. CASE Iterate
    <3>1. PICK dt \in TimeSteps : clock' = Ticked(clock, dt)
      BY <2>1 DEF Iterate
    <3> QED BY <3>1, SchedulerAssumption DEF Ticked, StorageInv, TypeOK, Clocks
  <2>2. CASE clock' = clock
    BY <2>2 DEF StorageInv, TypeOK, Clocks
  <2> QED BY <2>1, <2>2, StepFrame
<1>5. NoTimeLimits(e)
  <2>1. clock.time \in Nat /\ clock'.time < INFTY /\ clock.time <= clock'.time /\ INFTY \in Nat
    BY <1>4, InfinityAssumption DEF NoTimeLimits, StorageInv, TypeOK, Clocks
  <2>2. clock'.time \in Nat
    <3>1. CASE Iterate
      <4>1. PICK dt \in TimeSteps : clock' = Ticked(clock, dt)
        BY <3>1 DEF Iterate
      <4> QED BY <2>1, <4>1, SchedulerAssumption DEF Ticked
    <3> QED BY <2>1, <3>1, StepFrame
  <2> QED BY <1>1, <2>1, <2>2 DEF NoTimeLimits
<1> QED BY <1>1, <1>2, <1>3, <1>5 DEF Watching, Lead, OpensLate

(* A turn of Init's first pass: only the PRE events that open at iteration *)
(* 0 advance their local clock.                                            *)
LEMMA PhaseInPre ==
  ASSUME StorageInv, ClockInv, [Next]_vars, Watching', NEW e \in Events, NoTimeLimits(e)',
         EventPhase(e), Visit, pc = "pre"
  PROVE  EventPhase(e)'
<1>1. /\ Watching /\ NoTimeLimits(e) /\ table'[e] = table[e] /\ Lead(e)' = Lead(e)
      /\ TypeOK
  BY WatchFrame DEF StorageInv
<1>2. /\ cur \in Events /\ slots[cur] = cur /\ cur' = cur + 1 /\ pc' = pc /\ clock' = clock
      /\ VisitPre(cur)
  BY WholeTurn DEF Watching, Visit
<1>3. clock = origin
  BY DEF ClockInv
<1> SUFFICES ASSUME table[e].istep > 1, clock.iter <= table[e].iend
             PROVE  local'[e].iter = IF e < cur + 1 THEN Lead(e) ELSE 0
  BY <1>1, <1>2 DEF EventPhase, LocalPhase
<1>4. local[e].iter = IF e < cur THEN Lead(e) ELSE 0
  BY DEF EventPhase, LocalPhase
<1>5. CASE e # cur
  <2>1. local'[e] = local[e]
    BY <1>1, <1>2, <1>5 DEF VisitPre, TypeOK
  <2> QED BY <1>1, <1>2, <1>4, <1>5, <2>1, EventNumbers
<1>6. CASE e = cur
  <2>1. local[e].iter = 0
    BY <1>1, <1>4, <1>6, EventNumbers
  <2>2. HappensNow(e) /\ type[e] = "PRE" <=> Lead(e) = 1
    <3>1. HappensNow(e) <=> clock.iter = 0 /\ clock.iter >= table[e].istart
      BY <1>1, <2>1, HappensByCount, EventNumbers
    <3> QED BY <1>1, <1>3, <3>1, EventNumbers DEF Lead
  <2>3. local'[e].iter = Lead(e)
    <3>1. CASE HappensNow(e) /\ type[e] = "PRE"
      <4>1. local' = [local EXCEPT ![e] = Ticked(@, 0)] /\ DOMAIN local = Events
        BY <1>1, <1>2, <1>6, <3>1 DEF VisitPre, TypeOK
      <4>2. local'[e].iter = local[e].iter + 1
        BY <4>1 DEF Ticked
      <4> QED BY <2>1, <2>2, <3>1, <4>2
    <3>2. CASE ~(HappensNow(e) /\ type[e] = "PRE")
      <4>1. Lead(e) = 0
        BY <1>1, <2>2, <3>2, EventNumbers
      <4> QED BY <1>2, <1>6, <2>1, <3>2, <4>1 DEF VisitPre
    <3> QED BY <3>1, <3>2
  <2> QED BY <1>1, <1>6, <2>3, EventNumbers
<1> QED BY <1>5, <1>6

(* A turn of Init's second pass moves no local clock. *)
LEMMA PhaseInPost ==
  ASSUME StorageInv, ClockInv, [Next]_vars, Watching', NEW e \in Events, NoTimeLimits(e)',
         EventPhase(e), Visit, pc = "post"
  PROVE  EventPhase(e)'
<1>1. /\ table'[e] = table[e] /\ Lead(e)' = Lead(e) /\ OpensLate(e)' = OpensLate(e)
      /\ origin' = origin
  BY WatchFrame
<1>2. pc' = pc /\ clock' = clock /\ VisitPost(cur)
  BY WholeTurn DEF Watching, Visit
<1>3. local' = local
  BY <1>2 DEF VisitPost
<1> QED BY <1>1, <1>2, <1>3 DEF EventPhase, LocalPhase, Steps, Remainder

(* A turn of the pass that ends a step: the event executes when the closed *)
(* form says so, and its local clock starts again.                         *)
LEMMA PhaseInVisit ==
  ASSUME StorageInv, ClockInv, [Next]_vars, Watching', NEW e \in Events, NoTimeLimits(e)',
         EventPhase(e), Visit, pc = "visit"
  PROVE  EventPhase(e)'
<1>1. /\ Watching /\ NoTimeLimits(e) /\ TypeOK
      /\ table'[e] = table[e] /\ origin' = origin
      /\ Lead(e)' = Lead(e) /\ OpensLate(e)' = OpensLate(e)
  BY WatchFrame DEF StorageInv
<1>2. /\ cur \in Events /\ slots[cur] = cur /\ cur' = cur + 1 /\ pc' = pc /\ clock' = clock
      /\ VisitRun(cur)
  BY WholeTurn DEF Watching, Visit
<1>3. clock.iter > origin.iter
  BY DEF ClockInv
<1>4. Steps(e)' = Steps(e) /\ Remainder(e)' = Remainder(e) /\ Scheduled(e)' = Scheduled(e)
  BY <1>1, <1>2 DEF Steps, Remainder, Scheduled
<1>5. CASE e # cur
  <2>1. local'[e] = local[e] /\ fired'[e] = fired[e]
    BY <1>1, <1>2, <1>5 DEF VisitRun, Execute, trace, TypeOK
  <2>2. (e < cur' <=> e < cur) /\ (e >= cur' <=> e >= cur)
    BY <1>1, <1>2, <1>5, EventNumbers
  <2> QED BY <1>1, <1>2, <1>4, <2>1, <2>2 DEF EventPhase, LocalPhase
<1>6. CASE e = cur
  <2>1. fired[e] = 0 /\ ~(e < cur) /\ e >= cur /\ e < cur' /\ ~(e >= cur')
    BY <1>1, <1>2, <1>3, <1>6, EventNumbers DEF EventPhase
  <2>2. /\ table[e].istep > 1 /\ clock.iter <= table[e].iend =>
             local[e].iter = IF OpensLate(e) THEN Steps(e)
                             ELSE IF Remainder(e) = 0 THEN table[e].istep
                             ELSE Remainder(e)
    BY <2>1 DEF EventPhase, LocalPhase
  <2>3. Steps(e) \in Int /\ Remainder(e) \in 0 .. table[e].istep - 1
    BY <1>1, EventNumbers, Division DEF Steps, Remainder, NoTimeLimits
  <2>4. clock.iter >= table[e].istart /\ OpensLate(e) => Steps(e) > table[e].istep
    BY <1>1, EventNumbers DEF OpensLate, Steps
  <2>5. HappensNow(e) <=> Scheduled(e)
    <3>1. clock.iter # 0
      BY <1>1, <1>3, EventNumbers
    <3> QED BY <1>1, <2>2, <2>3, <2>4, <3>1, EventNumbers, HappensByCount,
               ScheduledByRemainder DEF NoTimeLimits
  <2>6. fired'[e] = IF Scheduled(e) THEN 1 ELSE 0
    <3>1. CASE HappensNow(e)
      <4>1. fired' = [fired EXCEPT ![e] = @ + 1] /\ DOMAIN fired = Events
        BY <1>1, <1>2, <1>6, <3>1 DEF VisitRun, Execute, TypeOK
      <4> QED BY <2>1, <2>5, <3>1, <4>1
    <3>2. CASE ~HappensNow(e)
      BY <1>2, <1>6, <2>1, <2>5, <3>2 DEF VisitRun, trace
    <3> QED BY <3>1, <3>2
  <2>7. ASSUME table[e].istep > 1, clock.iter <= table[e].iend
        PROVE  local'[e].iter = IF OpensLate(e) THEN Steps(e) ELSE Remainder(e)
    <3>1. CASE HappensNow(e)
      <4>1. local'[e].iter = 0
        <5>1. local' = [local EXCEPT ![e] = ZeroClock] /\ DOMAIN local = Events
          BY <1>1, <1>2, <1>6, <3>1 DEF VisitRun, TypeOK
        <5> QED BY <5>1 DEF ZeroClock
      <4>2. ~OpensLate(e) /\ Remainder(e) = 0
        BY <1>1, <2>5, <2>7, <3>1, ScheduledByRemainder
      <4> QED BY <4>1, <4>2
    <3>2. CASE ~HappensNow(e)
      <4>1. local'[e].iter = local[e].iter
        BY <1>2, <1>6, <3>2 DEF VisitRun
      <4>2. ~OpensLate(e) => Remainder(e) # 0
        <5>1. SUFFICES ASSUME ~OpensLate(e), Remainder(e) = 0
                       PROVE  clock.iter >= table[e].istart
          BY <1>1, <2>5, <2>7, <3>2, ScheduledByRemainder
        <5>2. Steps(e) >= table[e].istep
          <6>1. Steps(e) > 0
            BY <1>1, <1>3, EventNumbers DEF Steps
          <6> QED BY <1>1, <2>3, <5>1, <6>1, EventNumbers, SmallRemainder DEF Remainder
        <5> QED BY <1>1, <5>1, <5>2, EventNumbers DEF OpensLate, Steps
      <4> QED BY <2>2, <2>7, <4>1, <4>2
    <3> QED BY <3>1, <3>2
  <2> QED BY <1>1, <1>2, <1>3, <1>4, <2>1, <2>6, <2>7 DEF EventPhase, LocalPhase
<1> QED BY <1>5, <1>6

(* The tick that begins a pass moves every local clock of a whole list.    *)
LEMMA PhaseInIterate ==
  ASSUME StorageInv, ClockInv, [Next]_vars, Watching', NEW e \in Events, NoTimeLimits(e)',
         EventPhase(e), Iterate
  PROVE  EventPhase(e)'
<1>1. /\ Watching /\ NoTimeLimits(e) /\ TypeOK
      /\ table'[e] = table[e] /\ origin' = origin
      /\ Lead(e)' = Lead(e) /\ OpensLate(e)' = OpensLate(e)
  BY WatchFrame DEF StorageInv
<1>2. PICK dt \in TimeSteps :
        /\ clock' = Ticked(clock, dt)
        /\ local' = [p \in Events |->
             IF p \in Listed THEN Ticked(local[p], dt) ELSE local[p]]
  BY DEF Iterate
<1>3. e \in Listed
  <2>1. slots[e] = e
    BY <1>1, EventNumbers DEF Watching, StorageInv, ListIsSuffix
  <2> QED BY <1>1, <2>1 DEF Listed, Watching
<1>4. clock'.iter = clock.iter + 1 /\ local'[e].iter = local[e].iter + 1
  BY <1>2, <1>3 DEF Ticked
<1>5. pc = "run" /\ pc' = "visit" /\ cur' = 1 /\ fired'[e] = 0
  BY DEF Iterate, BeginPass
<1>6. /\ Steps(e) \in Int /\ Remainder(e) \in 0 .. table[e].istep - 1
      /\ Steps(e)' = Steps(e) + 1
  BY <1>1, <1>4, EventNumbers, Division DEF Steps, Remainder, NoTimeLimits
<1>7. Remainder(e)' = IF Remainder(e) = table[e].istep - 1 THEN 0 ELSE Remainder(e) + 1
  BY <1>1, <1>6, EventNumbers, NextRemainder DEF Remainder, NoTimeLimits
<1>8. e >= cur' /\ ~(e < cur')
  BY <1>5
<1>9. ASSUME table[e].istep > 1, clock'.iter <= table[e].iend
      PROVE  local'[e].iter = LocalPhase(e)'
  <2>1. clock.iter <= table[e].iend
    BY <1>1, <1>4, <1>9, EventNumbers
  <2>2. local[e].iter = IF OpensLate(e) THEN Steps(e) ELSE Remainder(e)
    BY <1>5, <1>9, <2>1 DEF EventPhase, LocalPhase
  <2>3. LocalPhase(e)' = IF OpensLate(e) THEN Steps(e) + 1
                         ELSE IF Remainder(e)' = 0 THEN table[e].istep
                         ELSE Remainder(e)'
    BY <1>1, <1>5, <1>6, <1>8 DEF LocalPhase
  <2> QED BY <1>1, <1>4, <1>6, <1>7, <2>2, <2>3, EventNumbers
<1> QED BY <1>1, <1>5, <1>8, <1>9 DEF EventPhase

(* The end of a pass over a whole list: every event has been visited. *)
LEMMA PhaseAtEnds ==
  ASSUME StorageInv, ClockInv, [Next]_vars, Watching', NEW e \in Events, NoTimeLimits(e)',
         EventPhase(e), EndPre \/ EndPass
  PROVE  EventPhase(e)'
<1>1. /\ Watching /\ NoTimeLimits(e) /\ TypeOK
      /\ table'[e] = table[e] /\ origin' = origin
      /\ Lead(e)' = Lead(e) /\ OpensLate(e)' = OpensLate(e)
  BY WatchFrame DEF StorageInv
<1>2. clock' = clock /\ local' = local
  BY DEF EndPre, EndPass
<1>3. e < cur /\ ~(e >= cur)
  <2>1. cur > last /\ size <= last
    BY DEF EndPre, EndPass, InPass, StorageInv, PassBounds
  <2> QED BY <1>1, <2>1, EventNumbers DEF Watching
<1>4. CASE EndPre
  <2>1. pc = "pre" /\ pc' = "post" /\ clock = origin
    BY <1>4 DEF EndPre, BeginPass, ClockInv
  <2>2. table[e].istep > 1 => Steps(e) = Lead(e) /\ Remainder(e) = Lead(e)
    <3>1. Steps(e) = Lead(e)
      BY <1>1, <2>1, EventNumbers DEF Steps
    <3> QED BY <1>1, <3>1, EventNumbers, SmallRemainder DEF Remainder
  <2>3. table[e].istep > 1 /\ clock.iter <= table[e].iend => local[e].iter = Lead(e)
    BY <1>3, <2>1 DEF EventPhase, LocalPhase
  <2> QED BY <1>1, <1>2, <2>1, <2>2, <2>3 DEF EventPhase, LocalPhase, Steps, Remainder
<1>5. CASE EndPass
  <2>1. /\ pc \in {"post", "visit"} /\ pc' = "run" /\ UNCHANGED <<cur, fired>>
        /\ pc = "post" => clock = origin
    BY <1>5 DEF EndPass, ClockInv, trace
  <2>2. LocalPhase(e)' = LocalPhase(e) /\ Scheduled(e)' = Scheduled(e)
    BY <1>1, <1>2, <1>3, <2>1 DEF LocalPhase, Steps, Remainder, Scheduled
  <2>3. pc = "post" => ~(clock.iter > origin.iter)
    BY <1>1, <2>1, EventNumbers
  <2> QED BY <1>1, <1>2, <2>1, <2>2, <2>3 DEF EventPhase
<1> QED BY <1>4, <1>5

LEMMA PhaseInvStep == StorageInv /\ ClockInv /\ PhaseInv /\ [Next]_vars => PhaseInv'
<1> SUFFICES ASSUME StorageInv, ClockInv, PhaseInv, [Next]_vars,
                    Watching', NEW e \in Events, NoTimeLimits(e)'
             PROVE  EventPhase(e)'
  BY DEF PhaseInv
<1>1. EventPhase(e)
  BY WatchFrame DEF PhaseInv
<1>2. CASE Visit
  BY <1>1, <1>2, PhaseInPre, PhaseInPost, PhaseInVisit DEF Visit
<1>3. CASE Iterate
  BY <1>1, <1>3, PhaseInIterate
<1>4. CASE EndPre \/ EndPass
  BY <1>1, <1>4, PhaseAtEnds
<1>5. CASE Segfault \/ Stop
  BY <1>5 DEF Watching, Segfault, Stop
<1>6. CASE UNCHANGED vars
  BY <1>1, <1>6 DEF EventPhase, LocalPhase, Steps, Remainder, OpensLate, Scheduled, Lead,
     vars, config, trace
<1> QED BY <1>2, <1>3, <1>4, <1>5, <1>6 DEF Next

(* While the list is whole, an event without time limits executes in the   *)
(* pass of a step exactly when its closed form says so, and once: at every *)
(* multiple of istep counted from the start, one earlier for a PRE event   *)
(* that executed in Init, and never if its window opens too late for the   *)
(* first of them.  For any timetables, time steps and number of events.    *)
THEOREM PeriodicSchedule == Spec => []ScheduleIsPeriodic
<1>1. Init => PhaseInv
  <2> SUFFICES ASSUME Init, NEW e \in Events PROVE EventPhase(e)
    BY DEF PhaseInv
  <2>1. pc = "pre" /\ cur = 1 /\ local[e].iter = 0
    BY DEF Init, ZeroClock
  <2> QED BY <2>1 DEF EventPhase, LocalPhase
<1>2. StorageInv /\ ClockInv /\ PhaseInv => ScheduleIsPeriodic
  <2> SUFFICES ASSUME StorageInv, ClockInv, PhaseInv,
                      pc = "run", size = NbEvents, clock.iter > origin.iter,
                      NEW e \in Events, NoTimeLimits(e)
               PROVE  fired[e] = IF Scheduled(e) THEN 1 ELSE 0
    BY DEF ScheduleIsPeriodic
  <2>1. EventPhase(e)
    BY DEF PhaseInv, Watching
  <2>2. e < cur
    BY EventNumbers DEF ClockInv, StorageInv
  <2> QED BY <2>1, <2>2 DEF EventPhase
<1> QED BY <1>1, <1>2, PhaseInvStep, StorageInvariant, ClockInvariant, PTL DEF Spec
=============================================================================
