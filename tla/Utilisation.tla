---------------------------- MODULE Utilisation ----------------------------
(***************************************************************************)
(* The arithmetic of bandwidth utilisation (backend/app/util_calc.py and   *)
(* _apply_counter_utilization in backend/app/poller.py).  Octets come in   *)
(* units of 1 / Capacity of what a port of 1 Gbps carries in a second, a   *)
(* utilisation is in tenths of a per cent, None is NULL.                   *)
(***************************************************************************)
EXTENDS Integers

CONSTANTS
    Capacity,   \* units of octets that 1 Gbps carries in a second
    NULL

ASSUME UtilisationAssumption == Capacity \in Nat \ {0} /\ NULL \notin Int

\* round(x / y, 1) of a quotient in per cent (halves do not come up below).
Tenths(x, y) == (2000 * x + y) \div (2 * y)

\* What cannot be known is None; what exceeds the line rate is 100 %.
bandwidth_util_pct(delta_octets, dt, speed) ==
    IF speed = NULL THEN NULL
    ELSE IF speed <= 0 \/ dt <= 0 \/ delta_octets < 0 THEN NULL
    ELSE IF delta_octets > dt * speed * Capacity THEN 1000
    ELSE Tenths(delta_octets, dt * speed * Capacity)

\* A port's utilisation from its counter and the stored one, each [octets, ts];
\* no counter, no row or no speed leaves what the collector said, None.
port_util(new, old, speed) ==
    IF old = NULL \/ speed \in {NULL, 0} THEN NULL
    ELSE IF new.octets = NULL \/ old.octets = NULL THEN NULL
    ELSE bandwidth_util_pct(new.octets - old.octets, new.ts - old.ts, speed)

-----------------------------------------------------------------------------

\* What a counter of `width` values shows that showed `from` before `carried`
\* octets, the last `since` of them after a reset if there were so many.
Shown(from, carried, since, width) ==
    IF since <= carried THEN since % width ELSE (from + carried) % width

\* "No guess" (util_calc.py:19, fos_rest.py:12): whether the counter went on, wrapped or was
\* reset, what is reported is at most what was carried, is reported for time and speed
\* that are known, and is a percentage; a counter that went back gives nothing.
Earned(from, carried, since, width, t, speed) ==
    LET to   == Shown(from, carried, since, width)
        util == port_util([octets |-> to, ts |-> t], [octets |-> from, ts |-> 0], speed)
    IN  util # NULL => /\ speed # NULL /\ t > 0 /\ to >= from
                       /\ util \in 0 .. 1000
                       /\ util <= Tenths(carried, t * speed * Capacity)
=============================================================================
