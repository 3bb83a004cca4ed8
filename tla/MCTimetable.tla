---------------------------- MODULE MCTimetable ----------------------------
(***************************************************************************)
(* Instances of Timetable for TLC: times before the service starts and     *)
(* after, and a scheduler that gets to its long delay.                     *)
(***************************************************************************)
EXTENDS Timetable, TLC

Symmetry == Permutations(Requests)
=============================================================================
