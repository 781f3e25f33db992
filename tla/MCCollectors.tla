---------------------------- MODULE MCCollectors ----------------------------
(* Instances of Collectors and of the theorem of Utilisation. *)
EXTENDS Collectors

\* A counter of 8 values, traffic of twice as much, a clock that may stand still
\* or be set back, ports of no, unknown and two speeds.
ASSUME BoundedUtilisation ==
    \A from \in 0 .. 7, carried, since \in 0 .. 16, t \in {-1, 0, 1, 3},
       speed \in {NULL, 0, 1, 2} : Earned(from, carried, since, 8, t, speed)
=============================================================================
