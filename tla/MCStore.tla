------------------------------- MODULE MCStore -------------------------------
(* An instance of Store: two switches, port lists of two polls.            *)
EXTENDS Store

CONSTANTS p1, p2, before, after

MCPortLists == {<<[name |-> p1, data |-> before], [name |-> p2, data |-> before]>>,
                <<[name |-> p2, data |-> after]>>}

MCCounterLists == {<<[name |-> p1, value |-> 1], [name |-> p2, value |-> 1]>>,
                   <<[name |-> p2, value |-> 2]>>}
=============================================================================
