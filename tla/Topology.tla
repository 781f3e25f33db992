------------------------------ MODULE Topology ------------------------------
(***************************************************************************)
(* The fabric graph (backend/app/topology.py): the links made up for demo  *)
(* switches, a ring in every region, and the nodes and edges that          *)
(* GET /api/topology answers.  A link is a row of isl_links, the pair of   *)
(* switch_id and remote_switch_id; names and speeds are left out.          *)
(***************************************************************************)
EXTENDS Integers, FiniteSets, FiniteSetsExt

\* The switches of the region of s, region being a function of the switch ids.
Group(region, s) == {t \in DOMAIN region : region[t] = region[s]}

\* Mutant: without the wrap-around, the last is its own next.
NextUnwrapped(group, s) == LET after == {t \in group : t > s}
                           IN  IF after = {} THEN s ELSE Min(after)

\* group[(i + 1) % n] of a group sorted by id.
NextInGroup(group, s) == LET after == {t \in group : t > s}
                         IN  Min(IF after = {} THEN group ELSE after)

\* Switches alone in their region have no link, two have one.
build_demo_isl(region) ==
    {<<s, NextInGroup(Group(region, s), s)>> :
        s \in {t \in DOMAIN region :
                 LET group == Group(region, t)
                 IN  \/ Cardinality(group) > 2
                     \/ Cardinality(group) = 2 /\ t = Min(group)}}

\* One edge for the rows of a pair, whichever way round (the row with the lower
\* switch_id stands for the first of them).
graph(nodes, isl) ==
    [nodes |-> nodes,
     edges |-> {l \in isl : <<l[2], l[1]>> \in isl => l[1] <= l[2]}]

Degree(edges, s) == Cardinality({e \in edges : s \in {e[1], e[2]}})
=============================================================================
