----------------------------- MODULE Timetable -----------------------------
(***************************************************************************)
(* Clocks and timetables: when an event (or the time loop itself) starts,  *)
(* happens and stops.                                                      *)
(*                                                                         *)
(* A clock is a record [time, iter]; a timetable is a record               *)
(* [start, end, step, istart, iend, istep].  Times are integers: only the  *)
(* comparisons of the code are kept, the rounding of RealType is not.      *)
(***************************************************************************)
EXTENDS Integers

CONSTANTS
  INFTY,   \* the default of end and step: later than every reachable time
  MAXINT   \* the default of iend and istep: larger than every iteration

ASSUME InfinityAssumption == INFTY \in Nat /\ MAXINT \in Nat

Clocks == [time : Nat, iter : Nat]

TimetableRecords ==
  [start : Nat, end : Nat, step : Nat, istart : Nat, iend : Nat, istep : Nat]

(* Clock::Clock and Clock::Reset *)
ZeroClock == [time |-> 0, iter |-> 0]

(* Mutated Clock::Update: the clock was received by value. *)
Ticked_ByValue(c, dt) == c

(* Clock::Update *)
Ticked(c, dt) == [time |-> c.time + dt, iter |-> c.iter + 1]

(* Timetable::Load on an empty property tree: every field has its default. *)
DefaultTimetable ==
  [start |-> 0, end |-> INFTY, step |-> INFTY,
   istart |-> 0, iend |-> MAXINT, istep |-> MAXINT]

(* The first four conjuncts of Timetable::Happens: the event has started   *)
(* and has not stopped.                                                    *)
InWindow(tt, clock) ==
  /\ clock.time >= tt.start  /\ clock.time <= tt.end
  /\ clock.iter >= tt.istart /\ clock.iter <= tt.iend

(* Mutated Timetable::Happens: the window of the event is not tested. *)
Happens_NoWindow(tt, local, clock) ==
  \/ clock.iter = 0
  \/ tt.istep = 1
  \/ local.iter = tt.istep
  \/ local.time >= tt.step

(* Mutated Timetable::Happens: one iteration early is near enough. *)
Happens_Early(tt, local, clock) ==
  /\ InWindow(tt, clock)
  /\ \/ clock.iter = 0
     \/ local.iter + 1 >= tt.istep
     \/ local.time >= tt.step

(* Timetable::Happens.  "local" is m_local_clock.  Note the equality on    *)
(* the iteration count, against the inequality on the time.                *)
Happens(tt, local, clock) ==
  /\ InWindow(tt, clock)
  /\ \/ clock.iter = 0
     \/ tt.istep = 1
     \/ local.iter = tt.istep
     \/ local.time >= tt.step

(* Timetable::IsFinished *)
IsFinished(tt, clock) == clock.time > tt.end \/ clock.iter > tt.iend

=============================================================================
