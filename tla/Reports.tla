------------------------------ MODULE Reports ------------------------------
(***************************************************************************)
(* What is read for a report while polls and administration go on: the     *)
(* capacity report (backend/app/reports.py), the metrics exposition        *)
(* (backend/app/metrics.py) and /api/summary list the switches first and   *)
(* then read the ports of each, in a thread of their own and without the   *)
(* lock.  Names, addresses, status and speeds are left out.                *)
(***************************************************************************)
EXTENDS History

CONSTANTS
    MaxSamples,    \* bound: how many samples there are when a report is asked for
    MaxChanges     \* bound: how many changes are made while it is read

ASSUME ReportsAssumption == MaxSamples \in Nat /\ MaxChanges \in Nat

VARIABLES
    stage,    \* of the report: "idle", "reading" or "done"
    listed,   \* its list_switches(): their data centres
    per,      \* the summaries of the switches read so far
    had,      \* history variable: the port lists of each switch since it began, until
              \* they are read
    changes   \* bounded: how often something changed since it began

reader == <<stage, listed, per, had, changes>>

NoRows == <<>>

-----------------------------------------------------------------------------
(* reports.py and metrics.py *)

\* _trend() of the occupancies of a history, in tenths of a per cent, "of more than
\* one per cent" after rounding to a tenth (half a tenth, which floating point may
\* round either way, down).
trend(occ) ==
    LET third == Len(occ) \div 3
        diff  == SumFunction(SubSeq(occ, Len(occ) - third + 1, Len(occ)))
                     - SumFunction(SubSeq(occ, 1, third))
    IN  CASE Len(occ) < 4           -> "insufficient"
          [] Len(occ) >= 4 /\ 2 * diff > 21 * third  -> "rising"
          [] Len(occ) >= 4 /\ -2 * diff > 21 * third -> "falling"
          [] OTHER                  -> "stable"

_trend == LET history == get_global_history(500)
          IN  trend([i \in DOMAIN history |-> occupancy_pct(history[i])])

\* Mutant: the data centres come from a second list_switches().
capacity_report_relisted ==
    [totals |-> merge_summaries(per, DOMAIN per),
     datacenters |-> [d \in {dc[s] : s \in Switches \cap DOMAIN per} |->
                         merge_summaries(per, {s \in Switches \cap DOMAIN per : dc[s] = d})],
     switches |-> per, trend |-> _trend]

capacity_report ==
    [totals |-> merge_summaries(per, DOMAIN per),
     datacenters |-> [d \in {listed[s] : s \in DOMAIN per} |->
                         merge_summaries(per, {s \in DOMAIN per : listed[s] = d})],
     switches |-> per, trend |-> _trend]

render ==
    LET g == merge_summaries(per, DOMAIN per)
    IN  [sansw_switches_total |-> Cardinality(DOMAIN listed),
         sansw_ports_used |-> g.used,
         sansw_occupancy_pct |-> occupancy_pct(g),
         sansw_switch_used_ports |-> [s \in DOMAIN per |-> per[s].used],
         sansw_switch_occupancy_pct |-> [s \in DOMAIN per |-> occupancy_pct(per[s])]]

-----------------------------------------------------------------------------

ReportsInit == /\ Init
               /\ stage = "idle" /\ listed = NoRows /\ per = NoRows
               /\ had = NoRows /\ changes = 0

list_switches == /\ stage = "idle"
                 /\ Len(samples) <= MaxSamples
                 /\ stage' = "reading"
                 /\ listed' = [s \in Switches |-> dc[s]]
                 /\ per' = NoRows
                 /\ had' = [s \in Switches |-> {ports[s]}]
                 /\ UNCHANGED <<vars, changes>>

Changed == /\ changes < MaxChanges
           /\ changes' = changes + 1

Unread == DOMAIN listed \ DOMAIN per

Summarized(s, list) == per' = [t \in DOMAIN per \cup {s} |->
                                  IF t = s THEN summarize_ports(list) ELSE per[t]]

\* Mutant: the row is looked up by its place in a list that has become shorter.
get_ports_by_position(s) ==
    LET place(t, S) == Cardinality({u \in S : u < t})
    IN  /\ stage = "reading" /\ s \in Unread
        /\ Summarized(s, IF \E t \in Switches : place(t, Switches) = place(s, DOMAIN listed)
                         THEN ports[CHOOSE t \in Switches :
                                        place(t, Switches) = place(s, DOMAIN listed)]
                         ELSE <<>>)
        /\ UNCHANGED <<vars, stage, listed, had, changes>>

\* The switches come ORDER BY region, dc, name, in any order here.
get_ports(s) ==
    /\ stage = "reading" /\ s \in Unread
    /\ Summarized(s, ports[s])
    /\ UNCHANGED <<vars, stage, listed, had, changes>>

\* The same between two statements of replace_ports, which a reader of the
\* shared connection sees; the poll itself is done after it.
get_ports_meanwhile(s) ==
    /\ stage = "reading" /\ s \in Unread
    /\ \E list \in PortLists : \E k \in 0 .. Len(list) - 1 :
           /\ Summarized(s, SubSeq(list, 1, k))
           /\ Polled(s, list)
           /\ had' = [had EXCEPT ![s] = @ \cup {list}]
    /\ Changed
    /\ UNCHANGED <<stage, listed>>

Composed == /\ stage = "reading" /\ Unread = {}
            /\ stage' = "done"
            /\ UNCHANGED <<vars, listed, per, had, changes>>

Sent == /\ stage = "done"
        /\ stage' = "idle" /\ listed' = NoRows /\ per' = NoRows
        /\ had' = NoRows /\ changes' = 0
        /\ UNCHANGED vars

\* The clock waits for a report: only what one query reads depends on it.
Meanwhile == /\ stage # "idle"
             /\ Changed
             /\ \E s \in SwitchId : SetDc(s) \/ delete_switch(s) \/ Poll(s)
             /\ had' = [s \in DOMAIN had |-> had[s] \cup IF s \in Unread THEN {ports'[s]} ELSE {}]
             /\ UNCHANGED <<stage, listed, per>>

Otherwise == stage = "idle" /\ Next /\ UNCHANGED reader

ReportsNext == \/ Otherwise
               \/ Meanwhile
               \/ list_switches
               \/ \E s \in SwitchId : get_ports(s) \/ get_ports_meanwhile(s)
               \/ Composed
               \/ Sent

ReportsSpec == ReportsInit /\ [][ReportsNext]_<<vars, reader>>

-----------------------------------------------------------------------------
(* Properties. *)

\* A report is of many moments, but each row is of one: a switch listed has a row, with
\* the counts of a port list it had between the listing and the reading, or of the beginning
\* of one (a reader may come between the statements that insert it), and never those of
\* another switch.  That the beginning is of the list just being replaced is not said.
RowsWereTrue ==
    stage = "done" =>
        /\ DOMAIN per = DOMAIN listed
        /\ \A s \in DOMAIN per : \E list \in had[s] : \E k \in 0 .. Len(list) :
               per[s] = summarize_ports(SubSeq(list, 1, k))

\* Whatever is polled, moved or deleted while it is read, a report agrees with itself:
\* its totals are the sum of its rows and of its data centres, and so do the metrics.
ReportAddsUp ==
    stage = "done" =>
        LET r == capacity_report
            m == render
        IN  /\ merge_summaries(r.switches, DOMAIN r.switches) = r.totals
            /\ merge_summaries(r.datacenters, DOMAIN r.datacenters) = r.totals
            /\ r.totals.total = r.totals.used + r.totals.free + r.totals.error
            /\ m.sansw_switches_total = Cardinality(DOMAIN r.switches)
            /\ m.sansw_ports_used = SumFunction(m.sansw_switch_used_ports)
            /\ m.sansw_ports_used = r.totals.used
=============================================================================
