---------------------------- MODULE EventContract ----------------------------
(***************************************************************************)
(* What the scheduler promises about POST events (the outputs), without    *)
(* vector, passes or local clocks: an event executes only while it is      *)
(* live and inside its window, and only at iteration 0, or at every        *)
(* iteration if istep is 1, or when istep iterations or step units of time *)
(* went by since it last executed (since the start, if it never did).  A   *)
(* live event may be retired; it never comes back.                         *)
(***************************************************************************)
EXTENDS Timetable

CONSTANTS Outputs   \* a set that contains every event

VARIABLES
  table,   \* the timetable of every event
  type,    \* PRE or POST
  clock,   \* the clock of the simulation
  mark,    \* the clock when a POST event last executed
  live     \* the POST events that may still execute

vars == <<table, type, clock, mark, live>>

Posts == {e \in Outputs : type[e] = "POST"}

Init ==
  /\ live = Posts
  /\ mark = [e \in Posts |-> clock]

(* Elapsed since the last execution. *)
Elapsed(e) == [time |-> clock.time - mark[e].time,
               iter |-> clock.iter - mark[e].iter]

Due(e) ==
  \/ clock.iter = 0
  \/ table[e].istep = 1
  \/ Elapsed(e).iter >= table[e].istep
  \/ Elapsed(e).time >= table[e].step

Tick ==
  /\ clock'.iter = clock.iter + 1
  /\ clock'.time >= clock.time
  /\ UNCHANGED <<table, type, mark, live>>

(* An event executes; the same step may retire an event. *)
Output(e) ==
  /\ e \in live
  /\ InWindow(table[e], clock)
  /\ Due(e)
  /\ mark' = [mark EXCEPT ![e] = clock]
  /\ live' \subseteq live
  /\ UNCHANGED <<table, type, clock>>

Withdraw ==
  /\ live' \subseteq live
  /\ UNCHANGED <<table, type, clock, mark>>

Next == Tick \/ Withdraw \/ \E e \in Posts : Output(e)

Spec == Init /\ [][Next]_vars

=============================================================================
