-------------------------- MODULE MCEventScheduler --------------------------
(***************************************************************************)
(* Small instances of EventScheduler.  A simulation bounds its iterations, *)
(* as every file of examples/test does; the events' timetables cover each  *)
(* way to happen (istep 1, istep by equality, step by inequality), windows *)
(* that close before the simulation, that open late, and both defaults.    *)
(***************************************************************************)
EXTENDS EventScheduler

Inf == 100

TT(start, end, step, istart, iend, istep) ==
  [start |-> start, end |-> end, step |-> step,
   istart |-> istart, iend |-> iend, istep |-> istep]

(* Ends before the simulation, after it, by iteration and by time. *)
ListTimetables ==
  {TT(0, Inf, Inf, 0, Inf, 1),    \* every iteration
   TT(0, Inf, Inf, 0, 2, 2),      \* stops at iteration 2
   TT(1, 3, 2, 0, Inf, Inf),      \* by time, in a window of time
   TT(0, Inf, Inf, 1, 4, 3)}      \* opens late, stops at iteration 4

(* Outlive a simulation of 6 iterations, or exactly its last one. *)
LongTimetables ==
  {TT(0, Inf, Inf, 0, Inf, 1),
   TT(0, Inf, Inf, 0, 7, 2),
   TT(0, Inf, Inf, 1, Inf, 3),
   TT(0, Inf, Inf, 3, Inf, 2),    \* the window opens after the first multiple
   TT(0, Inf, Inf, 0, 6, 2),      \* over when the last step ends
   TT(2, Inf, 3, 0, Inf, Inf)}    \* by time

SimIterations(n) == {[DefaultTimetable EXCEPT !.iend = n]}

ShortSims == SimIterations(3) \cup {TT(0, 4, Inf, 0, 4, Inf)}
LongSims  == SimIterations(6)

FromZero  == {ZeroClock}
Restarted == {ZeroClock, [time |-> 3, iter |-> 3]}

=============================================================================
