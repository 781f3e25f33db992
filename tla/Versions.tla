------------------------------ MODULE Versions ------------------------------
(***************************************************************************)
(* The functions on version strings: the firmware inventory                *)
(* (backend/app/firmware.py) and the update check (backend/app/version.py).*)
(* A version is the sequence of its parts between dots, without blanks and *)
(* a "v" before them; a part is the number it begins with, or NULL, and    *)
(* whether something else follows.  A date is the number of its day.       *)
(***************************************************************************)
EXTENDS Integers, FiniteSets, Sequences

CONSTANTS
    EOL_TABLE,    \* the last day of support, by <<x, y>>
    NULL

Part == [number : Nat \cup {NULL}, tail : BOOLEAN]

ASSUME VersionsAssumption == /\ NULL \notin Nat
                             /\ DOMAIN EOL_TABLE \subseteq Nat \X Nat
                             /\ \A major \in DOMAIN EOL_TABLE : EOL_TABLE[major] \in Int

IsDigit(part) == part.number # NULL /\ ~part.tail

-----------------------------------------------------------------------------
(* firmware.py *)

\* "9.2" of "v9.2.1a".
_major(version) ==
    IF Len(version) >= 2 /\ IsDigit(version[1]) /\ IsDigit(version[2])
    THEN <<version[1].number, version[2].number>> ELSE NULL

classify(version, today) ==
    LET major     == _major(version)
        days_left == EOL_TABLE[major] - today
    IN  CASE major \notin DOMAIN EOL_TABLE                     -> "unknown"
          [] major \in DOMAIN EOL_TABLE /\ days_left < 0       -> "eol"
          [] major \in DOMAIN EOL_TABLE /\ days_left \in 0 .. 180 -> "eol_soon"
          [] OTHER                                             -> "supported"

\* fos[s] is the version of switch s, empty if it is not known.
inventory(fos, today) ==
    LET counts(of(_)) == [x \in {of(fos[s]) : s \in DOMAIN fos} |->
                             Cardinality({s \in DOMAIN fos : of(fos[s]) = x})]
    IN  [by_version    |-> counts(LAMBDA version : version),
         status_counts |-> counts(LAMBDA version : classify(version, today))]

-----------------------------------------------------------------------------
(* version.py *)

\* "1.2.3" at the beginning, or 0.0.0.
parse_semver(v) ==
    IF Len(v) >= 3 /\ IsDigit(v[1]) /\ IsDigit(v[2]) /\ v[3].number # NULL
    THEN <<v[1].number, v[2].number, v[3].number>> ELSE <<0, 0, 0>>

\* The order of tuples.
is_newer(latest, current) ==
    LET l == parse_semver(latest)
        c == parse_semver(current)
    IN  \E i \in 1 .. 3 : l[i] > c[i] /\ \A j \in 1 .. i - 1 : l[j] = c[j]

\* The answer to the query, "404", "HTTPError", "Exception" or "tag" with the newest tag.
check_latest(answer, tag, current) ==
    [latest           |-> IF answer = "tag" THEN tag ELSE NULL,
     update_available |-> answer = "tag" /\ is_newer(tag, current),
     error            |-> answer # "tag"]
=============================================================================
