--------------------------- MODULE EventScheduler ---------------------------
(***************************************************************************)
(* The event list of a simulation: Simulation::Init makes two passes over  *)
(* it, Simulation::Run one pass at the end of every time step.  During a   *)
(* pass an event whose timetable is over triggers                          *)
(*     events.erase(events.begin(), events.begin() + 1)                    *)
(* from inside BOOST_FOREACH, whose end iterator was taken before the pass *)
(* began.  The vector is therefore modelled with its storage: "slots" is   *)
(* the capacity, "size" the length; the slots past "size" keep what the    *)
(* last assignment and the destructor left in them, and a pass that erased *)
(* something reads them.                                                   *)
(*                                                                         *)
(* The hydrodynamics of the step appears only through the dt it adds to    *)
(* the clock; what an event does when it executes, through "mark".         *)
(***************************************************************************)
EXTENDS Timetable

CONSTANTS
  NbEvents,       \* events read from the simulation file
  Timetables,     \* timetables an event may have
  SimTimetables,  \* timetables the simulation may have
  StartClocks,    \* clocks the simulation file may hold (a restart: iter > 0)
  TimeSteps,      \* the values dt can take
  MoveAssign      \* the build's C++ dialect gives shared_ptr a move assignment

Events == 1 .. NbEvents
Null   == 0       \* the pointer a moved-from shared_ptr holds

ASSUME SchedulerAssumption ==
  /\ NbEvents \in Nat
  /\ Timetables \subseteq TimetableRecords
  /\ SimTimetables \subseteq TimetableRecords
  /\ StartClocks \subseteq Clocks
  /\ TimeSteps \subseteq Nat
  /\ MoveAssign \in BOOLEAN

VARIABLES
  type,      \* Event::m_type
  table,     \* Event::m_timetable, without its local clock
  sim,       \* Simulation::timetable
  origin,    \* the clock Load read (history: never written again)
  clock,     \* Simulation::clock
  local,     \* Timetable::m_local_clock of every event
  slots,     \* storage of Simulation::events: event numbers or Null
  size,      \* events.size()
  pc,        \* where the program is
  cur, last, \* BOOST_FOREACH: the current slot and the cached last slot
  mark,      \* history: the clock when the event last executed
  fired      \* history: executions of every event in the current pass

config == <<type, table, sim, origin>>
vector == <<slots, size>>
trace  == <<mark, fired>>
vars   == <<config, clock, local, vector, pc, cur, last, trace>>

Pcs == {"pre", "post", "run", "visit", "done", "segv"}

TypeOK ==
  /\ type \in [Events -> {"PRE", "POST"}]
  /\ table \in [Events -> TimetableRecords]
  /\ sim \in TimetableRecords
  /\ origin \in Clocks
  /\ clock \in Clocks
  /\ local \in [Events -> Clocks]
  /\ slots \in [Events -> Events \cup {Null}]
  /\ size \in 0 .. NbEvents
  /\ pc \in Pcs
  /\ cur \in 1 .. NbEvents + 1
  /\ last \in 0 .. NbEvents
  /\ mark \in [Events -> Clocks]
  /\ fired \in [Events -> Nat]

-----------------------------------------------------------------------------

(* The events the vector holds. *)
Listed == {slots[i] : i \in 1 .. size}

(* Simulation::Load: the events in the order of the file, local clocks at  *)
(* zero, the clock of the file.  Init then starts its first pass.          *)
Init ==
  /\ type \in [Events -> {"PRE", "POST"}]
  /\ table \in [Events -> Timetables]
  /\ sim \in SimTimetables
  /\ origin \in StartClocks
  /\ clock = origin
  /\ local = [e \in Events |-> ZeroClock]
  /\ slots = [i \in Events |-> i]
  /\ size = NbEvents
  /\ pc = "pre"
  /\ cur = 1 /\ last = NbEvents
  /\ mark = [e \in Events |-> origin]
  /\ fired = [e \in Events |-> 0]

(* Mutated pass: the end iterator is that of the list as it was loaded. *)
BeginPass_OldEnd(where) ==
  /\ pc' = where
  /\ cur' = 1 /\ last' = NbEvents
  /\ fired' = [e \in Events |-> 0]

(* BOOST_FOREACH(event, events): the end iterator is read once. *)
BeginPass(where) ==
  /\ pc' = where
  /\ cur' = 1 /\ last' = size
  /\ fired' = [e \in Events |-> 0]

(* Mutated erasures: of two elements, of the last one, and of none (the    *)
(* elements are shifted, as std::remove does, and the vector keeps its     *)
(* length).                                                                *)
EraseFirst_Two ==
  /\ size' = size - 2
  /\ slots' = [i \in Events |-> IF i < size - 1 THEN slots[i + 2] ELSE slots[i]]

EraseFirst_PopBack == size' = size - 1 /\ UNCHANGED slots

EraseFirst_KeepSize ==
  /\ UNCHANGED size
  /\ slots' = [i \in Events |->
                 IF i < size THEN slots[i + 1]
                 ELSE IF MoveAssign /\ size > 1 THEN Null ELSE slots[i]]

(* events.erase(events.begin(), events.begin() + 1).  Every element is     *)
(* assigned to its predecessor and the last one is destroyed, which leaves *)
(* its pointer in place; a move assignment has cleared it before.          *)
EraseFirst ==
  /\ size' = size - 1
  /\ slots' = [i \in Events |->
                 IF i < size THEN slots[i + 1]
                 ELSE IF MoveAssign /\ i = size /\ size > 1 THEN Null
                 ELSE slots[i]]

Execute(e) ==
  /\ mark' = [mark EXCEPT ![e] = clock]
  /\ fired' = [fired EXCEPT ![e] = @ + 1]

HappensNow(e) == Happens(table[e], local[e], clock)

(* The tail of a pass' body: erase if this event is over, go on. *)
Retire(over) ==
  /\ IF over THEN EraseFirst ELSE UNCHANGED vector
  /\ cur' = cur + 1
  /\ UNCHANGED <<config, clock, pc, last>>

(* One turn of Simulation::Init's first loop: the PRE events.  The local   *)
(* clock of an executed event is advanced, by an iteration and no time.    *)
VisitPre(e) ==
  /\ IF HappensNow(e) /\ type[e] = "PRE"
       THEN /\ Execute(e)
            /\ local' = [local EXCEPT ![e] = Ticked(@, 0)]
       ELSE UNCHANGED <<trace, local>>
  /\ Retire(IsFinished(table[e], clock) /\ type[e] = "PRE")

(* One turn of Simulation::Init's second loop: POST events execute, events *)
(* of either type are retired, local clocks are left alone.                *)
VisitPost(e) ==
  /\ IF HappensNow(e) /\ type[e] = "POST" THEN Execute(e) ELSE UNCHANGED trace
  /\ UNCHANGED local
  /\ Retire(IsFinished(table[e], clock))

(* Mutated turn: the local clock of an executed event is not reset. *)
VisitRun_NoReset(e) ==
  /\ IF HappensNow(e) THEN Execute(e) ELSE UNCHANGED trace
  /\ UNCHANGED local
  /\ Retire(IsFinished(table[e], clock))

(* One turn of the loop at the end of a time step, in Simulation::Run.     *)
VisitRun(e) ==
  /\ IF HappensNow(e)
       THEN /\ Execute(e)
            /\ local' = [local EXCEPT ![e] = ZeroClock]
       ELSE UNCHANGED <<trace, local>>
  /\ Retire(IsFinished(table[e], clock))

InPass == pc \in {"pre", "post", "visit"}

Visit ==
  /\ InPass /\ cur <= last
  /\ LET e == slots[cur] IN
     /\ e # Null
     /\ \/ pc = "pre"   /\ VisitPre(e)
        \/ pc = "post"  /\ VisitPost(e)
        \/ pc = "visit" /\ VisitRun(e)

(* The body dereferences a null shared_ptr; its assertion is compiled out. *)
Segfault ==
  /\ InPass /\ cur <= last
  /\ slots[cur] = Null
  /\ pc' = "segv"
  /\ UNCHANGED <<config, clock, local, vector, cur, last, trace>>

EndPre ==
  /\ pc = "pre" /\ cur > last
  /\ BeginPass("post")
  /\ UNCHANGED <<config, clock, local, vector, mark>>

(* The end of Init's second loop (Run starts) or of a step's loop. *)
EndPass ==
  /\ pc \in {"post", "visit"} /\ cur > last
  /\ pc' = "run"
  /\ UNCHANGED <<config, clock, local, vector, cur, last, trace>>

(* Mutated time loop: it tests for the end one iteration late. *)
Iterate_OneMore ==
  /\ pc = "run"
  /\ clock.iter <= sim.iend + 1
  /\ \E dt \in TimeSteps :
       /\ clock' = Ticked(clock, dt)
       /\ local' = [e \in Events |->
                      IF e \in Listed THEN Ticked(local[e], dt) ELSE local[e]]
  /\ BeginPass("visit")
  /\ UNCHANGED <<config, vector, mark>>

(* One turn of Simulation::Run's time loop, up to its pass over the        *)
(* events: clock.Update(dt), then UpdateTimetableClock(dt) on every event. *)
Iterate ==
  /\ pc = "run"
  /\ ~IsFinished(sim, clock)
  /\ \E dt \in TimeSteps :
       /\ clock' = Ticked(clock, dt)
       /\ local' = [e \in Events |->
                      IF e \in Listed THEN Ticked(local[e], dt) ELSE local[e]]
  /\ BeginPass("visit")
  /\ UNCHANGED <<config, vector, mark>>

Stop ==
  /\ pc = "run"
  /\ IsFinished(sim, clock)
  /\ pc' = "done"
  /\ UNCHANGED <<config, clock, local, vector, cur, last, trace>>

Next == Visit \/ Segfault \/ EndPre \/ EndPass \/ Iterate \/ Stop

Spec == Init /\ [][Next]_vars

(* The program is one thread that never blocks: it keeps taking steps.     *)
FairSpec == Spec /\ WF_vars(Next)

-----------------------------------------------------------------------------
(* Properties *)

(* The vector holds the events of the file except the first ones, in       *)
(* order: nothing but the head is ever erased (erase(begin(), begin()+1)), *)
(* so an event of the middle leaves only after all those before it.        *)
ListIsSuffix == \A i \in 1 .. size : slots[i] = i + (NbEvents - size)

(* A pass never erases from an empty vector and never visits an event that *)
(* was destroyed, although BOOST_FOREACH runs to an end iterator older     *)
(* than the erasures (simulation.cpp, the three passes): the slots between *)
(* the new end and the cached one still denote the last event, alive.      *)
(* In a build where elements are moved the slot may hold a null pointer    *)
(* instead.                                                                *)
VisitedIsLive ==
  InPass /\ cur <= last =>
    /\ size >= 1
    /\ slots[cur] \in Listed \/ (MoveAssign /\ slots[cur] = Null)

(* Timetables that outlive the simulation: the step that starts at         *)
(* iteration sim.iend ends at sim.iend + 1, and the pass over the events   *)
(* comes after.  An end by time is left out: INFTY is the largest double.  *)
Outlives(e) == table[e].iend >= sim.iend + 1 /\ table[e].end = INFTY

OrderlyConfig == (\A e \in Events : Outlives(e)) /\ origin.iter <= sim.iend

(* If every event outlives the simulation, no pass ever erases, whatever   *)
(* the build: the list stays whole and no null pointer is dereferenced.    *)
NothingRemovedEarly ==
  OrderlyConfig /\ clock.time <= INFTY => size = NbEvents /\ pc # "segv"

(* A null pointer can only be met in a pass that erased something: never   *)
(* in a pass whose list is still as long as when the pass began.           *)
CrashNeedsErasure == pc = "segv" => MoveAssign /\ size < last

(* The local clock of a listed POST event is what timetable.hpp says of    *)
(* it: the time and the iterations since it was last executed (since the   *)
(* start if it never was), once the pass that follows a tick is over and   *)
(* also while it runs, whatever was erased or visited twice.               *)
PostLocalClock ==
  \A e \in Listed : type[e] = "POST" =>
    /\ local[e].iter = clock.iter - mark[e].iter
    /\ local[e].time = clock.time - mark[e].time

(* Executing in Init puts the local clock of a PRE event one ahead.        *)
Lead(e) == IF type[e] = "PRE" /\ origin.iter = 0 /\ table[e].istart = 0
             THEN 1 ELSE 0

(* The iterations at which an event without time limits executes, in       *)
(* closed form: every iteration of its window for istep 1, otherwise the   *)
(* multiples of istep counted from the clock the simulation started at     *)
(* (one earlier for a PRE event that executed in Init), and not even one   *)
(* of them if the window opens after the first multiple.                   *)
Scheduled(e) ==
  LET first == origin.iter - Lead(e) IN
  /\ InWindow(table[e], clock)
  /\ \/ table[e].istep = 1
     \/ /\ table[e].istart <= first + table[e].istep
        /\ (clock.iter - first) % table[e].istep = 0

NoTimeLimits(e) ==
  /\ table[e].start = 0 /\ table[e].end = INFTY /\ table[e].step = INFTY
  /\ table[e].istep > 0 /\ clock.time < INFTY

(* While the list is whole, every event executes in the pass of a step     *)
(* exactly when the closed form says so, and exactly once.                 *)
ScheduleIsPeriodic ==
  pc = "run" /\ size = NbEvents /\ clock.iter > origin.iter =>
    \A e \in Events : NoTimeLimits(e) =>
      fired[e] = IF Scheduled(e) THEN 1 ELSE 0

(* An event executes only inside the window of its timetable and only      *)
(* spaced by istep or step, never after it left the vector: the abstract   *)
(* specification of the POST events.                                       *)
Contract == INSTANCE EventContract WITH
              Outputs <- Events,
              live <- {e \in Listed : type[e] = "POST"},
              mark <- [e \in {p \in Events : type[p] = "POST"} |-> mark[e]]

ContractSpec == Contract!Spec

(* The two passes of Init and the time loop come to an end, when the       *)
(* simulation bounds its iterations: the passes end although the vector    *)
(* shrinks under them.                                                     *)
Terminates == <>(pc \in {"done", "segv"})

(* simulation.cpp:2041, "Execute all post events that actually happen.":   *)
(* when the pass of a step ends, every listed POST event that happened at  *)
(* this clock was executed.                                                *)
EveryHappeningPostExecuted ==
  pc = "visit" /\ cur > last =>
    \A e \in Listed : type[e] = "POST" /\ HappensNow(e) => fired[e] > 0

=============================================================================
