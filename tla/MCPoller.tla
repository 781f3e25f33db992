------------------------------ MODULE MCPoller ------------------------------
(* Instances of Poller.                                                    *)
EXTENDS Poller, TLC

CONSTANTS ip1, ip2

MCReading == [src : {ip1, ip2}, at : 1 .. MaxClock]
MCReadings == [src : {ip1, ip2}, at : 1 .. MaxClock, util : MCReading \cup {NULL}]

\* Polls and addresses are interchangeable; the properties are safety.
MCSymmetry == Permutations(Task) \cup Permutations(Ip)
=============================================================================
