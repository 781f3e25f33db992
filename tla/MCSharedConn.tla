---------------------------- MODULE MCSharedConn ----------------------------
(* Instances of SharedConn: port lists of two polls, with and without a    *)
(* port name delivered twice.                                              *)
EXTENDS SharedConn

CONSTANTS p1, p2, before, after

Port(p, v) == [name |-> p, data |-> v]

\* Two polls of a switch that lost its first port in between.
MCPortLists == {<<Port(p1, before), Port(p2, before)>>, <<Port(p2, after)>>}

\* A walk of ifDescr that names two interfaces alike.
MCPortListsTwice == {<<Port(p1, before), Port(p2, before)>>,
                     <<Port(p2, after), Port(p2, before)>>}

MCCounterLists == {<<[name |-> p1, value |-> 1], [name |-> p2, value |-> 1]>>}

MCSwitchId == 1 .. 2
=============================================================================
