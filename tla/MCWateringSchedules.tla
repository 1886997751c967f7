------------------------- MODULE MCWateringSchedules -------------------------
(* Values for the constants of WateringSchedules: a day of three seconds   *)
(* with a slot that begins with the day, and one of length zero inside it. *)
EXTENDS WateringSchedules

CONSTANTS a, b, t1, t2

MCSlots == {[begin |-> 0, end |-> 2], [begin |-> 1, end |-> 1]}

Symmetry == Permutations({a, b}) \cup Permutations({t1, t2})
=============================================================================
